----------------------------- MODULE Reconcile -----------------------------
(***************************************************************************)
(* reconcileCatalogs and mergeCatalogRecords of src/src/catalog over a     *)
(* history of revisions that several devices write and receive in any      *)
(* order.                                                                  *)
(*                                                                         *)
(* The devices are not part of the repository: they publish what           *)
(* reconcileCatalogs gives them with a change, hand it what they have got, *)
(* and up to MaxMislabels times hand it a payload under another revision's *)
(* digest, which it cannot tell.                                           *)
(*                                                                         *)
(* A record is its kind, the identity selected for the kind, its body, and *)
(* the locators that a snapshot lists or an observation is about.  The     *)
(* body stands for what is compared of a record: of a tombstone it is the  *)
(* target, of an observation the package, of a snapshot all but locators.  *)
(***************************************************************************)
EXTENDS RevisionGraph, Checks, Functions

CONSTANTS
  Devices,
  Changes,        \* the records a device may add
  MaxInputs, MaxParents, MaxEntries, MaxObservations, MaxLocators,
  Budget,         \* CATALOG_RESULT_BUDGET_BYTES, in records and references
  MaxMislabels,      (* bound: mislabelled inputs                                *)
  MislabelledLength  (* bound: revisions of a history of which one is mislabelled *)

VARIABLES
  history,     \* the catalogs published so far
  inputs,      \* what each device has got: payloads and their digests
  mislabels

vars == <<history, inputs, mislabels>>

Record  == [kind : {"snapshot", "tombstone", "root-update-receipt", "observation"},
            id : {r.id : r \in Changes}, body : {r.body : r \in Changes},
            locators : SUBSET UNION {r.locators : r \in Changes}]
Catalog == [parents : SUBSET Revisions, records : SUBSET Record]
Input   == [id : Revisions, catalog : Catalog]

ASSUME ReconcileAssumption ==
  /\ IsFiniteSet(Changes)
  /\ Changes \subseteq Record
  /\ \A r \in Changes : IsFiniteSet(r.locators) /\ Cardinality(r.locators) <= MaxLocators
  /\ {MaxInputs, MaxParents, MaxEntries, MaxObservations, MaxLocators, Budget,
       MaxMislabels, MislabelledLength} \subseteq Nat

(* Catalogs are published within the limits that apply to each of them.    *)
TypeOK ==
  /\ DOMAIN history \subseteq Revisions
  /\ \A id \in DOMAIN history :
       /\ history[id] \in Catalog
       /\ Cardinality(history[id].parents) <= MaxParents
       /\ \A r \in history[id].records : Cardinality(r.locators) <= MaxLocators
  /\ inputs \in [Devices -> SUBSET Input]
  /\ mislabels \in 0..MaxMislabels

-----------------------------------------------------------------------------
(* mergeCatalogRecords.                                                    *)

OfKind(R, kind)   == {r \in R : r.kind = kind}
Entries(R)        == {r \in R : r.kind # "observation"}
SameClaim(r, q)   == r.kind = q.kind /\ r.id = q.id /\ r.body = q.body

(* Bug: the locators of the first catalog that has the snapshot are kept.  *)
ViewsOfFirst(R) ==
  {r \in R : \A q \in R : SameClaim(q, r) /\ r.kind = "snapshot" => r = CHOOSE s \in R : SameClaim(s, r)}

(* Snapshots that differ in nothing but locators are one, with all of them.*)
Views(R) ==
  {IF r.kind = "snapshot"
   THEN [r EXCEPT !.locators = UNION {q.locators : q \in {q \in R : SameClaim(q, r)}}]
   ELSE r : r \in R}

Disputed(V)    == {r \in V : \E q \in V : q # r /\ q.kind = r.kind /\ q.id = r.id}
ClaimKind(kind) == CASE kind = "snapshot"            -> "snapshot-claim"
                     [] kind = "tombstone"           -> "event-claim"
                     [] kind = "root-update-receipt" -> "receipt-claim"
                     [] kind = "observation"         -> "observation-claim"
ClaimConflicts(V) ==
  {[kind |-> ClaimKind(r.kind), id |-> r.id,
    claims |-> {q \in V : q.kind = r.kind /\ q.id = r.id}] : r \in Disputed(V)}

OverLimit(V, parents) ==
  \/ \E r \in V : r.kind = "snapshot" /\ Cardinality(r.locators) > MaxLocators
  \/ Cardinality(Entries(V)) > MaxEntries
  \/ Cardinality(V \ Entries(V)) > MaxObservations
  \/ Cardinality(parents) > MaxParents

(* catalogFromParsed of a catalog whose records are in order: an           *)
(* observation is of a locator of a snapshot that is there.                *)
Parses(catalog) ==
  LET V == Views(catalog.records)
  IN  /\ Disputed(V) = {} /\ ~OverLimit(V, catalog.parents)
      /\ \A o \in OfKind(V, "observation") :
           \E s \in OfKind(V, "snapshot") : s.id = o.body /\ o.locators \subseteq s.locators

-----------------------------------------------------------------------------
(* reconcileCatalogs.                                                      *)

Nodes(I)      == [id \in {i.id : i \in I} |-> (CHOOSE i \in I : i.id = id).catalog.parents]
RecordsAt(I, id) == (CHOOSE i \in I : i.id = id).catalog.records
Tombstoned(R)  == {t.body : t \in OfKind(R, "tombstone")}

(* Bug: a tombstone in any revision makes a snapshot dead in every one.    *)
LiveAtAnywhere(I, id) ==
  {s.id : s \in OfKind(RecordsAt(I, id), "snapshot")} \ Tombstoned(UNION {i.catalog.records : i \in I})

(* The packages a revision lists and has no tombstone for.                 *)
LiveAt(I, id) ==
  {s.id : s \in OfKind(RecordsAt(I, id), "snapshot")} \ Tombstoned(RecordsAt(I, id))

TombstoneLive(I) ==
  LET nodes == Nodes(I)
      heads == RevisionHeads(nodes)
      Live(p) == {h \in heads : p \in LiveAt(I, h)}
      Dead(p) == {h \in heads : p \in Tombstoned(RecordsAt(I, h))}
      Claims(p) == {r \in UNION {RecordsAt(I, h) : h \in Live(p)} : r.kind = "snapshot" /\ r.id = p}
                     \cup {r \in UNION {RecordsAt(I, h) : h \in Dead(p)} :
                             r.kind = "tombstone" /\ r.body = p}
  IN  {[kind |-> "tombstone-live", id |-> p, claims |-> Claims(p)] :
         p \in {p \in {r.id : r \in Changes} : \E a \in Live(p), b \in Dead(p) :
                  KnownIncomparable(a, b, nodes)}}

Size(catalog)   == 1 + Cardinality(catalog.parents) + Cardinality(catalog.records)
Sources(I)      == SumFunction([i \in I |-> 1 + Size(i.catalog)])
Reported(C)     == SumFunction([c \in C |-> 2 + Cardinality(c.claims)])
Envelope(nodes) == Cardinality(RevisionHeads(nodes)) + Cardinality(MissingParents(nodes)) + 1

Union(I) ==
  [parents |-> RevisionHeads(Nodes(I)), records |-> Views(UNION {i.catalog.records : i \in I})]

Conflicts(I) == TombstoneLive(I) \cup ClaimConflicts(Union(I).records)

(* Bug: a union is not counted, as all its records were in the sources.    *)
SpentButUnion(I) ==
  Sources(I) + Envelope(Nodes(I)) + Reported(Conflicts(I))

(* The budget is spent before anything of the result is copied.            *)
Spent(I) ==
  Sources(I) + Envelope(Nodes(I)) +
    IF Conflicts(I) = {} THEN Size(Union(I)) ELSE Reported(Conflicts(I))

(* assertAcyclic, which AcyclicCheck models.                               *)
CircularInputs(I) == Cyclic(Nodes(I))

(* ownInputs: how many payloads may be handed over.                        *)
CountRefused(I) == Cardinality(I) \notin 1..MaxInputs

(* dedupeRevisions: one digest, one payload.                               *)
TwoPayloads(I) == \E i, j \in I : i.id = j.id /\ i # j

(* From the heads on a limit is the only thing that can be refused before  *)
(* the result is parsed, so that the sum of all that was counted tells.    *)
Outcome(I) == FirstFailing(<<
  Check(CountRefused(I), "LIMIT"),
  Check(TwoPayloads(I), "CONFLICT"),
  Check(Sources(I) > Budget, "LIMIT"),
  Check(CircularInputs(I), "INPUT"),
  Check(OverLimit(Union(I).records, Union(I).parents), "LIMIT"),
  Check(Spent(I) > Budget, "LIMIT"),
  Check(Conflicts(I) = {} /\ ~Parses(Union(I)), "REFERENCE")>>)

Reconciles(I) == Outcome(I) = "accepted"

-----------------------------------------------------------------------------
Init ==
  /\ history = [r \in {} |-> {}]
  /\ inputs = [w \in Devices |-> {}]
  /\ mislabels = 0

Got(w, i) == inputs' = [inputs EXCEPT ![w] = @ \cup {i}]

(* What a device goes on from: the union, or, where heads disagree about   *)
(* packages only, the union with or without the tombstones in question.    *)
Base(w) ==
  LET I == inputs[w]
      disputed == {c.id : c \in TombstoneLive(I)}
  IN  IF I = {} THEN {[parents |-> {}, records |-> {}]}
      ELSE IF ~Reconciles(I) \/ ClaimConflicts(Union(I).records) # {} THEN {}
      ELSE {Union(I),
            [Union(I) EXCEPT !.records = {r \in @ : r.kind = "tombstone" => r.body \notin disputed}]}

Publish(w, id, change) ==
  /\ id \in Revisions \ DOMAIN history
  /\ mislabels = 0 \/ Cardinality(DOMAIN history) < MislabelledLength
  /\ \E base \in Base(w) :
       LET catalog == [base EXCEPT !.records = Views(@ \cup change)]
       IN  /\ Parses(catalog)
           /\ history' = [r \in DOMAIN history \cup {id} |-> IF r = id THEN catalog ELSE history[r]]
           /\ Got(w, [id |-> id, catalog |-> catalog])
  /\ UNCHANGED mislabels

Deliver(w, id) ==
  /\ id \in DOMAIN history
  /\ Got(w, [id |-> id, catalog |-> history[id]])
  /\ UNCHANGED <<history, mislabels>>

Mislabel(w, id, label) ==
  /\ mislabels < MaxMislabels /\ mislabels' = mislabels + 1
  /\ Cardinality(DOMAIN history) <= MislabelledLength
  /\ id \in DOMAIN history /\ label \in DOMAIN history \ {id}
  /\ Got(w, [id |-> label, catalog |-> history[id]])
  /\ UNCHANGED history

Next ==
  \E w \in Devices, id \in Revisions :
    \/ \E change \in {{}} \cup {{r} : r \in Changes} : Publish(w, id, change)
    \/ Deliver(w, id)
    \/ \E label \in Revisions : Mislabel(w, id, label)

Spec == Init /\ [][Next]_vars

-----------------------------------------------------------------------------
(***************************************************************************)
(* Properties.                                                             *)
(***************************************************************************)
Truth == [id \in DOMAIN history |-> history[id].parents]

(* A tombstone-live conflict is one: some package is listed by one newest  *)
(* revision at hand and buried by another, and in the whole history, the   *)
(* part that this device has not got included, neither knew of the other.  *)
ConflictsAreReal ==
  \A w \in Devices :
    mislabels = 0 /\ Reconciles(inputs[w]) =>
      \A c \in TombstoneLive(inputs[w]) :
        \E a, b \in RevisionHeads(Nodes(inputs[w])) :
          /\ c.id \in LiveAt(inputs[w], a) /\ c.id \in Tombstoned(RecordsAt(inputs[w], b))
          /\ a \notin Above(Truth, b) /\ b \notin Above(Truth, a)

(* And all of them are found, once a device has all that came before:      *)
(* where two newest revisions disagree about a package, there is a         *)
(* conflict and no union, whatever else has been buried or listed.         *)
ConflictsAreFound ==
  \A w \in Devices :
    LET I == inputs[w]
    IN  mislabels = 0 /\ Reconciles(I) /\ MissingParents(Nodes(I)) = {} =>
          \A i, j \in I : \A s \in OfKind(i.catalog.records, "snapshot") :
            /\ \A k \in I : i.id \notin Above(Truth, k.id) /\ j.id \notin Above(Truth, k.id)
            /\ s.id \notin Tombstoned(i.catalog.records) /\ s.id \in Tombstoned(j.catalog.records)
            => \E c \in TombstoneLive(I) : c.id = s.id

(* A conflict stays until a revision arrives whose author had seen one of  *)
(* its sides: no other revision, in whatever order it arrives and whatever *)
(* it is missing, takes a conflict away.                                   *)
ConflictsStay ==
  [][\A w \in Devices : \A c \in TombstoneLive(inputs[w]) :
       LET I == inputs[w]
           sides == {h \in RevisionHeads(Nodes(I)) :
                       c.id \in LiveAt(I, h) \cup Tombstoned(RecordsAt(I, h))}
       IN  mislabels' = 0 /\ Reconciles(I) /\ Reconciles(inputs'[w]) =>
             \/ \E d \in TombstoneLive(inputs'[w]) : d.id = c.id
             \/ \E i \in inputs'[w] \ I : i.catalog.parents \cap sides # {}]_vars

(* Nothing is lost and nothing wins: a union has every claim of every      *)
(* input with all its locators and is itself a catalog that parses, and    *)
(* where claims disagree, there is none and each of them is reported.      *)
NothingLost ==
  \A w \in Devices :
    LET I == inputs[w]
    IN  /\ Outcome(I) # "REFERENCE"
        /\ Reconciles(I) =>
             \A i \in I : \A r \in i.catalog.records :
               IF Conflicts(I) = {}
               THEN \E q \in Union(I).records : SameClaim(q, r) /\ r.locators \subseteq q.locators
               ELSE \A j \in I : \A q \in j.catalog.records :
                      q.kind = r.kind /\ q.id = r.id /\ q.body # r.body =>
                        \E c \in Conflicts(I) : c.kind = ClaimKind(r.kind) /\ c.id = r.id
                          /\ \E d \in c.claims : SameClaim(d, r) /\ r.locators \subseteq d.locators

(* Whatever a result holds - its sources, heads and missing parents, and   *)
(* the union or the claims of the conflicts - was paid for in the budget   *)
(* before it was copied.                                                   *)
ResultWithinBudget ==
  \A w \in Devices : Reconciles(inputs[w]) =>
    LET I == inputs[w]
        Held(catalog) == Cardinality(catalog.parents) + Cardinality(catalog.records)
    IN  Cardinality(RevisionHeads(Nodes(I)) \cup MissingParents(Nodes(I)))
          + SumFunction([i \in I |-> 1 + Held(i.catalog)])
          + (IF Conflicts(I) = {} THEN Held(Union(I))
             ELSE SumFunction([c \in Conflicts(I) |-> 2 + Cardinality(c.claims)])) <= Budget

-----------------------------------------------------------------------------
(***************************************************************************)
(* The inductive invariant CatalogV1Proofs uses.                           *)
(***************************************************************************)

(* What was published parses, and only snapshots have been changed since   *)
(* they were added.                                                        *)
Published ==
  \A id \in DOMAIN history :
    /\ Parses(history[id])
    /\ \A r \in history[id].records : r.kind # "snapshot" => r \in Changes

(* What a device has got was published, if nothing was mislabelled under   *)
(* the digest it came with.                                                *)
Genuine ==
  \A w \in Devices : \A i \in inputs[w] :
    /\ i.id \in DOMAIN history
    /\ \E id \in DOMAIN history : i.catalog = history[id]
    /\ mislabels = 0 => i.catalog = history[i.id]

ReconcileInv == TypeOK /\ Published /\ Genuine
=============================================================================
