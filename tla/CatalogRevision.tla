-------------------------- MODULE CatalogRevision --------------------------
(***************************************************************************)
(* A catalog revision from its writer to its reader.  planCatalogShards    *)
(* plans it (ShardPlanner), a coordinator assembles a root and later       *)
(* fetches the shards the root refers to, and preflightCatalogRoot and     *)
(* validateCatalogRevision of src/src/storage/catalog-v2.ts decide whether *)
(* what arrived is the revision.                                           *)
(*                                                                         *)
(* The coordinator is not part of the repository.  Here it does what the   *)
(* tests do with a plan, and may slip up to MaxSlips times: carry over a   *)
(* reference of an earlier revision, list an epoch too many or too few,    *)
(* declare counts or a length that are not the shard's, lose a shard, get  *)
(* one twice, get one of another reference or revision, or one sealed      *)
(* under the wrong prefix.                                                 *)
(*                                                                         *)
(* canonicalRecordsSha256 is abstracted to recs, the records it is a       *)
(* digest of, which are none in an empty reference.  Such a reference is   *)
(* its prefix: nothing looks at what it declares.                          *)
(***************************************************************************)
EXTENDS ShardPlanner, Checks

CONSTANTS
  Snapshots, Tombstones, Observations,  \* the other records are receipts
  Identity(_),      \* a record's kind and selected identity
  Target(_),        \* the identity of the snapshot a record is about
  Agrees(_, _),     \* an observation has a snapshot's locator, digest, length
  RootEpoch(_),     \* the epoch a snapshot's package is sealed under
  WireBytes(_),     \* the length of a snapshot's package
  Epochs, Active, Past,    \* epochs; the writer's, and an earlier one
  MaxEntries, MaxObservations, MaxRequiredEpochs, LiveWitnessWireBytes,
  MaxSlips

ASSUME RevisionAssumption ==
  /\ Snapshots \subseteq Records /\ Tombstones \subseteq Records
  /\ Observations \subseteq Records
  /\ {Active, Past} \cup {RootEpoch(s) : s \in Snapshots} \subseteq Epochs
  /\ \A s \in Snapshots : WireBytes(s) \in Nat
  /\ {MaxEntries, MaxObservations, MaxRequiredEpochs, LiveWitnessWireBytes, MaxSlips}
       \subseteq Nat

VARIABLES
  past,      \* route hashes of the records of an earlier revision
  root,      \* the root as the reader has it
  fetched,   \* references the coordinator has done with
  supplied,  \* the shards it hands to the reader, in order
  slips,     \* mistakes the coordinator has made
  phase,     \* where the revision is
  copied,    \* how many shards the reader has copied
  total,     \* and their bytes
  read,      \* the shards it has parsed
  verdict

coordinator == <<root, fetched, supplied, slips>>
reader      == <<phase, copied, total, read, verdict>>
plan        == vars
revision    == <<plan, past, coordinator, reader>>

Reference == [prefix : Prefix, recs : SUBSET Records, epoch : Epochs,
              entries : Nat, observations : Nat, bytes : Nat]
Root      == [refs : SUBSET Reference, required : SUBSET Epochs,
              entries : Nat, observations : Nat]
NoRoot    == [refs |-> {}, required |-> {}, entries |-> 0, observations |-> 0]
Codes     == {"accepted", "SCHEMA", "CAPACITY", "COVER", "REFERENCE", "DUPLICATE"}

(* The reader never copies more than the cumulative budget, and parses     *)
(* only what it has copied.                                                *)
RevisionTypeOK ==
  /\ TypeOK
  /\ past \in UNION {[R -> Hash] : R \in SUBSET Records}
  /\ root \in Root
  /\ fetched \subseteq root.refs
  /\ supplied \in Seq(Leaf)
  /\ slips \in 0..MaxSlips
  /\ phase \in {"planning", "assembled", "fetching", "copying", "reading", "done"}
  /\ copied \in 0..Len(supplied)
  /\ total \in 0..CumulativeBytes
  /\ read \subseteq {supplied[i] : i \in 1..Len(supplied)}
  /\ verdict \in Codes \cup {"none"}

-----------------------------------------------------------------------------
(* collectRevisionState.                                                   *)

SnapshotEpochs(R)   == {RootEpoch(s) : s \in R \cap Snapshots}
EntryCount(R)       == Cardinality(R \ Observations)
ObservationCount(R) == Cardinality(R \cap Observations)

(* The snapshots no tombstone of the revision is about.                    *)
Live(R) ==
  {s \in R \cap Snapshots : \A t \in R \cap Tombstones : Target(t) # Identity(s)}

Ambiguous(R) == \E a, b \in R : a # b /\ Identity(a) = Identity(b)
Dangling(R)  == \E o \in R \cap Observations :
                  ~\E s \in R \cap Snapshots : Identity(s) = Target(o) /\ Agrees(o, s)

StateCode(R) == FirstFailing(<<
  Check(Ambiguous(R), "DUPLICATE"),
  Check(EntryCount(R) > MaxEntries \/ ObservationCount(R) > MaxObservations, "CAPACITY"),
  Check(Cardinality(SnapshotEpochs(R)) > MaxRequiredEpochs, "CAPACITY"),
  Check(Dangling(R), "REFERENCE"),
  Check(SumFunction([s \in Live(R) |-> WireBytes(s)]) > LiveWitnessWireBytes, "CAPACITY")>>)

-----------------------------------------------------------------------------
(* A record has one route hash in every revision, its identity's.          *)
RevisionInit ==
  /\ \E hash \in [{Identity(r) : r \in Records} -> Hash], R, P \in SUBSET Records :
       /\ StateCode(R) = "accepted" /\ StateCode(P) = "accepted"
       /\ input = R /\ route = [r \in R |-> hash[Identity(r)]]
       /\ past = [r \in P |-> hash[Identity(r)]]
  /\ Feasible(past)
  /\ Init
  /\ root = NoRoot /\ fetched = {} /\ supplied = <<>> /\ slips = 0
  /\ phase = "planning" /\ copied = 0 /\ total = 0 /\ read = {} /\ verdict = "none"

Plan == Next /\ UNCHANGED <<past, coordinator, reader>>

-----------------------------------------------------------------------------
(* The coordinator.                                                        *)

ReferTo(leaf, epoch) ==
  [prefix |-> leaf.prefix, recs |-> leaf.recs, epoch |-> epoch,
   entries |-> EntryCount(leaf.recs), observations |-> ObservationCount(leaf.recs),
   bytes |-> Bytes(leaf)]
ShardOf(ref)         == [prefix |-> ref.prefix, recs |-> ref.recs]
Nonempty             == {ref \in root.refs : ref.recs # {}}
Slip                 == slips < MaxSlips /\ slips' = slips + 1

(* A reference that declares one too many or one too few of something.     *)
Misdeclarations(ref) ==
  {[ref EXCEPT !.entries = n] : n \in {ref.entries - 1, ref.entries + 1} \cap Nat} \cup
  {[ref EXCEPT !.observations = n] :
     n \in {ref.observations - 1, ref.observations + 1} \cap Nat} \cup
  {[ref EXCEPT !.bytes = n] : n \in {ref.bytes - 1, ref.bytes + 1} \cap Nat}

(* What the references of a root declare, taken together.                  *)
SumOf(field, refs) ==
  SumFunction([ref \in {r \in refs : r.recs # {}} |-> ref[field]])
Declared    == SumOf("bytes", root.refs)
EntrySum    == SumOf("entries", root.refs)
ObservedSum == SumOf("observations", root.refs)

Assemble ==
  /\ phase = "planning" /\ outcome = "planned"
  /\ phase' = "assembled"
  /\ root' = [refs |-> {ReferTo(leaf, Active) : leaf \in emitted},
              required |-> SnapshotEpochs(input) \cup {Active},
              entries |-> EntryCount(input), observations |-> ObservationCount(input)]
  /\ UNCHANGED <<plan, past, fetched, supplied, slips, copied, total, read, verdict>>

(* A reference of an earlier revision in the place of one of this.         *)
CarryOver(ref, leaf, epoch) ==
  /\ phase = "assembled"
  /\ Slip
  /\ root' = [root EXCEPT !.refs = (@ \ {ref}) \cup {ReferTo(leaf, epoch)}]
  /\ UNCHANGED <<plan, past, fetched, supplied, reader>>

(* One of its numbers is not the shard's, and the totals are of these.     *)
Misdeclare(ref, told) ==
  /\ phase = "assembled"
  /\ Slip
  /\ LET refs == (root.refs \ {ref}) \cup {told}
     IN  root' = [root EXCEPT !.refs = refs, !.entries = SumOf("entries", refs),
                              !.observations = SumOf("observations", refs)]
  /\ UNCHANGED <<plan, past, fetched, supplied, reader>>

Misepoch(epoch) ==
  /\ phase = "assembled"
  /\ Slip
  /\ root' = [root EXCEPT !.required = IF epoch \in @ THEN @ \ {epoch} ELSE @ \cup {epoch}]
  /\ UNCHANGED <<plan, past, fetched, supplied, reader>>

(* Downloads end in any order.                                             *)
Fetch(ref) ==
  /\ phase = "fetching" /\ ref \in Nonempty \ fetched
  /\ fetched' = fetched \cup {ref}
  /\ supplied' = Append(supplied, ShardOf(ref))
  /\ UNCHANGED <<plan, past, root, slips, reader>>

Misfetch(ref) ==
  /\ phase = "fetching" /\ ref \in Nonempty \ fetched
  /\ Slip
  /\ fetched' = fetched \cup {ref}
  /\ \/ UNCHANGED supplied
     \/ supplied' = supplied \o <<ShardOf(ref), ShardOf(ref)>>
     \/ \E leaf \in {l \in emitted \cup Coarsest(past) : l.recs # {}} :
          \E prefix \in {ref.prefix, leaf.prefix} :
            supplied' = Append(supplied, [leaf EXCEPT !.prefix = prefix])
  /\ UNCHANGED <<plan, past, root, reader>>

-----------------------------------------------------------------------------
(* The reader.  Every exit wipes the copies of the shards.                 *)
Judge(code) ==
  /\ phase' = "done" /\ verdict' = code
  /\ copied' = 0 /\ total' = 0
  /\ UNCHANGED read

(* Bug: a single record is held to the target, too.                        *)
OverBudgetAtTarget(count, bytes) == bytes > ShardTargetBytes

(* assertShardPlaintextBudget, of what is declared and of what arrives.    *)
OverBudget(count, bytes) ==
  bytes > IF count = 1 THEN ShardPlaintextBytes ELSE ShardTargetBytes
DeclaredCount(ref) == ref.entries + ref.observations

(* What the schema and assertRootSemantics ask of a root.                  *)
WellFormed ==
  /\ \A p, q \in root.refs : p.prefix = q.prefix => p = q
  /\ Cardinality(root.refs) \in 1..MaxReferences
  /\ Cardinality(root.required) <= MaxRequiredEpochs
  /\ root.entries <= MaxEntries /\ root.observations <= MaxObservations
  /\ \A ref \in Nonempty : /\ DeclaredCount(ref) \in 1..MaxRecordsPerLeaf
                            /\ ref.bytes \in 1..ShardPlaintextBytes

(* A loop over the references, in their order, stops at the first in S.    *)
FirstOf(S) == CHOOSE ref \in S : \A other \in S : ~Before(other.prefix, ref.prefix)

(* Bug: the epoch of a shard is not looked for before it is fetched.       *)
FlawedBySize == {ref \in Nonempty : OverBudget(DeclaredCount(ref), ref.bytes)}

Flawed ==
  {ref \in Nonempty : OverBudget(DeclaredCount(ref), ref.bytes) \/ ref.epoch \notin root.required}
FlawIsSize ==
  Flawed # {} /\ LET first == FirstOf(Flawed) IN OverBudget(DeclaredCount(first), first.bytes)

PreflightCode == FirstFailing(<<
  Check(~WellFormed, "SCHEMA"),
  Check(~PrefixFreeCover({ref.prefix : ref \in root.refs}), "COVER"),
  Check(FlawIsSize, "CAPACITY"),
  Check(Flawed # {}, "REFERENCE"),
  Check(EntrySum # root.entries \/ ObservedSum # root.observations, "REFERENCE"),
  Check(Declared > CumulativeBytes, "CAPACITY")>>)

(* Before the downloads; the validator repeats it on the same root.        *)
Preflight ==
  /\ phase = "assembled"
  /\ IF PreflightCode = "accepted"
     THEN phase' = "fetching" /\ UNCHANGED <<copied, total, read, verdict>>
     ELSE Judge(PreflightCode)
  /\ UNCHANGED <<plan, past, coordinator>>

Deliver ==
  /\ phase = "fetching" /\ fetched = Nonempty
  /\ IF Len(supplied) > MaxReferences
     THEN Judge("CAPACITY")
     ELSE IF Len(supplied) # Cardinality(Nonempty)
     THEN Judge("COVER")
     ELSE phase' = "copying" /\ UNCHANGED <<copied, total, read, verdict>>
  /\ UNCHANGED <<plan, past, coordinator>>

(* ownShardPayloads: bytes are counted before they are copied.             *)
Copy ==
  /\ phase = "copying" /\ copied < Len(supplied)
  /\ LET size   == Bytes(supplied[copied + 1])
         budget == IF Declared < CumulativeBytes THEN Declared ELSE CumulativeBytes
     IN  IF size > ShardPlaintextBytes \/ total + size > budget
         THEN Judge("CAPACITY")
         ELSE /\ copied' = copied + 1 /\ total' = total + size
              /\ UNCHANGED <<phase, read, verdict>>
  /\ UNCHANGED <<plan, past, coordinator>>

Copied ==
  /\ phase = "copying" /\ copied = Len(supplied)
  /\ IF total # Declared
     THEN Judge("REFERENCE")
     ELSE phase' = "reading" /\ UNCHANGED <<copied, total, read, verdict>>
  /\ UNCHANGED <<plan, past, coordinator>>

HashOf(r) == IF r \in input THEN route[r] ELSE past[r]

(* parseCatalogNode, assertShardSemantics and the budgets of one shard.    *)
ShardCode(shard) == FirstFailing(<<
  Check(Cardinality(shard.recs) \notin 1..MaxRecordsPerLeaf, "SCHEMA"),
  Check(Ambiguous(shard.recs), "DUPLICATE"),
  Check(\E r \in shard.recs : ~Covers(shard.prefix, HashOf(r)), "REFERENCE"),
  Check(\E other \in read : other.prefix = shard.prefix, "COVER"),
  Check(OverBudget(Cardinality(shard.recs), Bytes(shard)), "CAPACITY"),
  Check(TotalBytes(read \cup {shard}) > CumulativeBytes, "CAPACITY")>>)

Read ==
  /\ phase = "reading" /\ Cardinality(read) < Len(supplied)
  /\ LET shard == supplied[Cardinality(read) + 1]
     IN  IF ShardCode(shard) = "accepted"
         THEN read' = read \cup {shard} /\ UNCHANGED <<phase, copied, total, verdict>>
         ELSE Judge(ShardCode(shard))
  /\ UNCHANGED <<plan, past, coordinator>>

ShardsAt(ref) == {shard \in read : shard.prefix = ref.prefix}
Uncovered     == {ref \in root.refs : ref.recs = {} <=> ShardsAt(ref) # {}}

(* Bug: counts and lengths are compared, the fingerprint is not.           *)
DiffersByCounts(ref) ==
  \E shard \in ShardsAt(ref) :
    \/ EntryCount(shard.recs) # ref.entries
    \/ ObservationCount(shard.recs) # ref.observations
    \/ Bytes(shard) # ref.bytes

Differs(ref) ==
  \E shard \in ShardsAt(ref) :
    \/ EntryCount(shard.recs) # ref.entries
    \/ ObservationCount(shard.recs) # ref.observations
    \/ Bytes(shard) # ref.bytes
    \/ shard.recs # ref.recs

Mismatched      == Uncovered \cup {ref \in Nonempty : Differs(ref)}
MismatchIsCover == Mismatched # {} /\ FirstOf(Mismatched) \in Uncovered

AllRead     == UNION {shard.recs : shard \in read}
SharedRead  == \E a, b \in read : a # b /\ \E r \in a.recs, q \in b.recs : Identity(r) = Identity(q)
(* Bug: a snapshot's own epoch is forgotten.                               *)
KnownEpochsOfShards == {ref.epoch : ref \in Nonempty}

KnownEpochs == SnapshotEpochs(AllRead) \cup {ref.epoch : ref \in Nonempty}

(* The rest of validateCatalogRevision, once every shard is parsed.        *)
RevisionCode == FirstFailing(<<
  Check(Cardinality(read) # Cardinality(Nonempty), "COVER"),
  Check(MismatchIsCover, "COVER"),
  Check(Mismatched # {}, "REFERENCE"),
  Check(SharedRead, "DUPLICATE"),
  Check(StateCode(AllRead) # "accepted", StateCode(AllRead)),
  Check(EntryCount(AllRead) # root.entries, "REFERENCE"),
  Check(ObservationCount(AllRead) # root.observations, "REFERENCE"),
  Check(~(KnownEpochs \subseteq root.required), "REFERENCE"),
  Check(Cardinality(root.required \ KnownEpochs) > 1, "REFERENCE")>>)

Conclude ==
  /\ phase = "reading" /\ Cardinality(read) = Len(supplied)
  /\ Judge(RevisionCode)
  /\ UNCHANGED <<plan, past, coordinator>>

-----------------------------------------------------------------------------
Coordinate ==
  \/ Assemble
  \/ \E ref \in root.refs, leaf \in Coarsest(past), epoch \in {Active, Past} :
       CarryOver(ref, leaf, epoch)
  \/ \E epoch \in Epochs : Misepoch(epoch)
  \/ \E ref \in Nonempty : \E told \in Misdeclarations(ref) : Misdeclare(ref, told)
  \/ \E ref \in Nonempty : Fetch(ref) \/ Misfetch(ref)

Validate == Preflight \/ Deliver \/ Copy \/ Copied \/ Read \/ Conclude

RevisionNext == Plan \/ Coordinate \/ Validate

RevisionSpec == RevisionInit /\ [][RevisionNext]_revision

-----------------------------------------------------------------------------
(***************************************************************************)
(* Properties.                                                             *)
(***************************************************************************)

(* What a reference declares is true of the records it is a digest of.     *)
Truthful(ref) ==
  /\ ref.entries = EntryCount(ref.recs) /\ ref.observations = ObservationCount(ref.recs)
  /\ ref.bytes = Bytes(ref)
TruthfulRoot == \A ref \in Nonempty : Truthful(ref)

(* What is accepted is what the root was made for: of every reference its  *)
(* own shard, and no other, with the counts and the length it declares.    *)
(* No lost, repeated, swapped, older or misfiled shard and no false        *)
(* declaration gets past the checks, in whatever order the shards came.    *)
AcceptedAsRooted ==
  verdict = "accepted" =>
    /\ read = {ShardOf(ref) : ref \in Nonempty}
    /\ TruthfulRoot

(* What is accepted is a catalog planCatalogShards would take, whatever    *)
(* the coordinator put together: the references cut the hash space up and  *)
(* every record is under its own, no two records share an identity, every  *)
(* observation agrees with a snapshot that is there, and every epoch the   *)
(* reader needs for a shard or a package is listed.                        *)
AcceptedIsCatalog ==
  verdict = "accepted" =>
    /\ Partition({ref.prefix : ref \in root.refs})
    /\ \A shard \in read : \A r \in shard.recs : Covers(shard.prefix, HashOf(r))
    /\ StateCode(AllRead) = "accepted"
    /\ EntryCount(AllRead) = root.entries /\ ObservationCount(AllRead) = root.observations
    /\ SnapshotEpochs(AllRead) \cup {ref.epoch : ref \in Nonempty} \subseteq root.required

(* The reader accepts what the planner planned: if the coordinator makes   *)
(* no mistake and the root has room for the epoch it is sealed under, the  *)
(* revision is accepted, every limit of both sides included.               *)
WriterMeetsReader ==
  /\ phase = "done" /\ slips = 0
  /\ Cardinality(SnapshotEpochs(input) \cup {Active}) <= MaxRequiredEpochs
  => verdict = "accepted"

(* The shards a root refers to, and what may be wrong with what is in them.*)
AllArrived ==
  /\ {supplied[i] : i \in 1..Len(supplied)} = {ShardOf(ref) : ref \in Nonempty}
  /\ Len(supplied) = Cardinality(Nonempty)

ContentRefused ==
  LET R == UNION {ref.recs : ref \in Nonempty}
  IN  \/ StateCode(R) # "accepted"
      \/ ~(SnapshotEpochs(R) \subseteq root.required)
      \/ Cardinality(root.required \ (SnapshotEpochs(R) \cup {ref.epoch : ref \in Nonempty})) > 1

(* A root that passes the preflight and declares what is true is worth its *)
(* downloads: if the shards it refers to arrive, whoever assembled it,     *)
(* they are refused only for what they contain, the records taken together *)
(* or the epochs they need.  Only a false declaration costs the downloads. *)
PreflightSparesDownloads ==
  /\ verdict # "none" /\ fetched = Nonempty /\ Nonempty # {} /\ AllArrived
  /\ TruthfulRoot
  => verdict = "accepted" \/ ContentRefused

-----------------------------------------------------------------------------
(***************************************************************************)
(* The inductive invariant CatalogV2Proofs uses.                           *)
(***************************************************************************)

(* What the reader has found out holds for as long as it goes on.          *)
RevisionInv ==
  /\ IInv /\ RevisionTypeOK
  /\ IsFiniteSet(root.refs) /\ IsFiniteSet(read)
  /\ phase \in {"fetching", "copying", "reading"} => PreflightCode = "accepted"
  /\ phase \in {"planning", "assembled"} => fetched = {} /\ supplied = <<>>
  /\ phase # "done" => verdict = "none"
  /\ verdict = "accepted" => PreflightCode = "accepted" /\ RevisionCode = "accepted"
  /\ \A shard \in read : \A r \in shard.recs : Covers(shard.prefix, HashOf(r))

(* What the reader has copied and parsed is what it was handed, a shard    *)
(* after the other.                                                        *)
ReaderInOrder ==
  /\ phase \in {"planning", "assembled", "fetching"} => copied = 0 /\ total = 0
  /\ phase \in {"planning", "assembled", "fetching", "copying"} => read = {}
  /\ phase \in {"copying", "reading"} =>
       fetched = Nonempty /\ Len(supplied) = Cardinality(Nonempty)
  /\ phase = "copying" =>
       total = SumFunction([i \in 1..copied |-> Bytes(supplied[i])])
  /\ phase = "reading" => read = {supplied[i] : i \in 1..Cardinality(read)}

(* Wherever a reference comes from, its records are under its prefix.      *)
Placed ==
  /\ \A r \in input \cap DOMAIN past : route[r] = past[r]
  /\ \A ref \in root.refs : \A r \in ref.recs :
       r \in input \cup DOMAIN past /\ Covers(ref.prefix, HashOf(r))

(* No check after the preflight fails that need not.                       *)
ArrivalInv ==
  /\ RevisionInv /\ ReaderInOrder /\ Placed
  /\ phase = "done" =>
       \/ PreflightCode # "accepted" /\ verdict = PreflightCode /\ fetched = {}
       \/ /\ PreflightCode = "accepted" /\ fetched = Nonempty
          /\ AllArrived /\ TruthfulRoot => verdict = "accepted" \/ ContentRefused

(* Without a mistake the root is what was planned, and the shards are what *)
(* the root refers to.                                                     *)
MeetingInv ==
  /\ ArrivalInv /\ ExactInv
  /\ StateCode(input) = "accepted"
  /\ phase # "planning" /\ slips = 0 =>
       /\ outcome = "planned"
       /\ root.refs = {ReferTo(leaf, Active) : leaf \in emitted}
       /\ root.required = SnapshotEpochs(input) \cup {Active}
       /\ root.entries = EntryCount(input) /\ root.observations = ObservationCount(input)
  /\ slips = 0 =>
       /\ {supplied[i] : i \in 1..Len(supplied)} = {ShardOf(ref) : ref \in fetched}
       /\ Len(supplied) = Cardinality(fetched)
=============================================================================
