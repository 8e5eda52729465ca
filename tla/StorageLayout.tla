---------------------------- MODULE StorageLayout ----------------------------
(***************************************************************************)
(* The storage-layout experiment (experiments/storage-layout/catalog.mjs): *)
(* a catalog of records kept in a content-addressed store, either as one   *)
(* sealed envelope per revision (flat) or as one envelope per bucket under *)
(* a sealed root (sharded), and the bucket envelopes of a sharded revision *)
(* concatenated into packs under a sealed extent manifest.                 *)
(*                                                                         *)
(* Bytes are sequences of cells <<seal, position>>, so that a pack is the  *)
(* concatenation of its envelopes and a range of it is a SubSeq; SHA-256   *)
(* is taken to be injective, so that the hash of some bytes is the bytes.  *)
(* A seal is <<call, recordId>>: sealing uses fresh randomness, and one    *)
(* call seals a record id at most once.                                    *)
(*                                                                         *)
(* There is one store. freshReader() shares its objects and clone() copies *)
(* them, so that what can be read in either is what some store can hold.   *)
(***************************************************************************)
EXTENDS Integers, Sequences, FiniteSets, FiniteSetsExt

CONSTANTS
  Ids,           \* logical record ids
  Buckets,       \* 0 .. BUCKET_COUNT - 1
  BucketOf,      \* bucketForRecordId, a function of the id
  RecordSets,    \* the record lists a caller passes
  Targets,       \* the targetBytes a caller passes
  PackageLimit,  \* LIMIT_PACKAGE_BYTES, in cells
  MaxCalls,      \* bound: calls that seal; after them only the store changes
  MaxManifests,  \* bound: manifests sealed directly through the session
  MaxFaults      \* bound: objects deleted or replaced, stores changed

ASSUME LayoutAssumption ==
  /\ Buckets \subseteq Nat /\ BucketOf \in [Ids -> Buckets]
  /\ \A R \in RecordSets : IsFiniteSet(R) /\ \A r \in R : r.id \in Ids

VARIABLES
  objects,    \* what the store holds: hash -> bytes
  sealed,     \* what the vault sealed: seal -> content
  revisions,  \* what the commit calls returned
  packings,   \* what the packing calls returned
  calls,      \* sealing calls made
  manifests,  \* manifests sealed directly
  faults      \* how often the store lost or changed something

vars == <<objects, sealed, revisions, packings, calls, manifests, faults>>

-----------------------------------------------------------------------------
FlatId == <<"flat">>
RootId == <<"root">>
ExtentId == <<"extent">>
BucketId(b) == <<"bucket", b>>

FlatContent(R) == [kind |-> "flat", records |-> R]
BucketContent(b, R) == [kind |-> "bucket", bucketId |-> b, records |-> R]
RootContent(B) == [kind |-> "root", buckets |-> B]
SealedExtents(X) == [kind |-> "extent", extents |-> X]

\* The length of an envelope, in cells: a header, and its records.
Length(content) ==
  IF content.kind \in {"flat", "bucket"} THEN 1 + Cardinality(content.records) ELSE 1

Wire(s, content) == [i \in 1..Length(content) |-> <<s, i>>]
WireOf(s) == Wire(s, sealed[s])

UniqueIds(R) == \A r, q \in R : r.id = q.id => r = q
InBucket(R, b) == {r \in R : BucketOf[r.id] = b}

\* openEnvelope: the vault opens exactly what it sealed under this record id.
IsSealed(wire) ==
  /\ wire # <<>>
  /\ wire[1][1] \in DOMAIN sealed
  /\ wire = WireOf(wire[1][1])

Opened(wires, recordId) ==
  {sealed[wire[1][1]] : wire \in {w \in wires : IsSealed(w) /\ w[1][1][2] = recordId}}

-----------------------------------------------------------------------------
(* Reading. What a step of a reader yields is a set of at most one value: none *)
(* when the step throws.                                                       *)

Rejected == [ok |-> FALSE, records |-> {}]
Restored(R) == [ok |-> TRUE, records |-> R]

\* store.get, and getChecked: the bytes there, if they have the hash asked for.
Get(hash) == {objects[h] : h \in {hash} \cap DOMAIN objects}
\* Bug: the bytes are not hashed again.
GetUnhashed(hash) == Get(hash)
GetChecked(hash) == {bytes \in Get(hash) : bytes = hash}

FlatRestore(rootHash) ==
  LET found == {c \in Opened(GetChecked(rootHash), FlatId) :
                  c.kind = "flat" /\ UniqueIds(c.records)}
  IN  IF found # {} THEN Restored(UNION {c.records : c \in found}) ELSE Rejected

\* Bug: the records are not held against the bucket.
AssembledUnrouted(wires, recordId, b) ==
  {c \in Opened(wires, recordId) : c.kind = "bucket" /\ c.bucketId = b /\ UniqueIds(c.records)}

\* assembleBucketRecords: the content of bucket b, if it is one.
Assembled(wires, recordId, b) ==
  {c \in Opened(wires, recordId) :
     /\ c.kind = "bucket" /\ c.bucketId = b
     /\ \A r \in c.records : BucketOf[r.id] = b
     /\ UniqueIds(c.records)}

Roots(rootHash) == {c \in Opened(GetChecked(rootHash), RootId) : c.kind = "root"}

\* One bucket of a root, fetched, authenticated and checked.
EntryContent(e) == Assembled(GetChecked(e.ciphertextHash), e.recordId, e.bucketId)

ShardedRestore(rootHash) ==
  LET root == {c \in Roots(rootHash) :
                 /\ \A e \in c.buckets : e.bucketId \in Buckets /\ EntryContent(e) # {}
                 /\ \A e, f \in c.buckets : e.bucketId = f.bucketId => e = f}
      all  == UNION {k.records : k \in UNION {UNION {EntryContent(e) : e \in c.buckets}
                                                : c \in root}}
  IN  IF root # {} /\ UniqueIds(all) THEN Restored(all) ELSE Rejected

\* content.buckets.find takes the first entry of the bucket; a list a commit sealed
\* has one, and of two either may come first.
ShardedLookups(rootHash, id) ==
  LET entries == {e \in UNION {c.buckets : c \in Roots(rootHash)} : e.bucketId = BucketOf[id]}
  IN  {r \in UNION {k.records : k \in UNION {EntryContent(e) : e \in entries}} : r.id = id}

Overlap(v, z) ==
  /\ v.packCiphertextHash = z.packCiphertextHash
  /\ v.offset < z.offset + z.length /\ z.offset < v.offset + v.length

ValidateExtents(X) ==
  /\ \A v \in X : v.offset >= 0 /\ v.length >= 0
  /\ \A v, z \in X : v # z => v.shardId # z.shardId /\ ~Overlap(v, z)

\* authenticateExtentManifest
Manifests(wires, manifestHash) ==
  {c \in Opened({w \in wires : w = manifestHash}, ExtentId) :
     c.kind = "extent" /\ ValidateExtents(c.extents)}

Slices(packs, v) ==
  {SubSeq(bytes, v.offset + 1, v.offset + v.length)
     : bytes \in {p \in packs : v.offset + v.length <= Len(p)}}

\* openShardEnvelope: the bytes read for an extent, if they are its envelope.
ExtentContent(packs, v) ==
  LET envelopes == {bytes \in Slices(packs, v) : bytes = v.envelopeCiphertextHash}
  IN  IF v.shardId \in Buckets THEN Assembled(envelopes, v.recordId, v.shardId) ELSE {}

PackedFullRestore(manifestHash) ==
  LET PackContent(v) == ExtentContent(GetChecked(v.packCiphertextHash), v)
      found == {c \in Manifests(GetChecked(manifestHash), manifestHash) :
                  \A v \in c.extents : PackContent(v) # {}}
      all   == UNION {k.records : k \in UNION {UNION {PackContent(v) : v \in c.extents}
                                                 : c \in found}}
  IN  IF found # {} /\ UniqueIds(all) THEN Restored(all) ELSE Rejected

\* A range read of one shard: the pack itself is not hashed, only the bytes read of it
\* are. The manifest comes from the store, or is a wire that the caller kept.
PackedRangeRestore(manifestHash, b, wires) ==
  LET extents == {v \in UNION {c.extents : c \in Manifests(wires, manifestHash)} : v.shardId = b}
      found   == UNION {ExtentContent(Get(v.packCiphertextHash), v) : v \in extents}
  IN  IF found # {} THEN Restored(UNION {k.records : k \in found}) ELSE Rejected

ColdRangeRestore(manifestHash, b) ==
  PackedRangeRestore(manifestHash, b, GetChecked(manifestHash))
-----------------------------------------------------------------------------
NoRevision == [layout |-> "none", rootHash |-> <<>>, records |-> {}, hashes |-> <<>>]

Init ==
  /\ objects = <<>>
  /\ sealed = <<>>
  /\ revisions = {}
  /\ packings = {}
  /\ calls = 0
  /\ manifests = 0
  /\ faults = 0

\* store.put of each of these bytes, under their hash.
Put(B) ==
  objects' = [h \in DOMAIN objects \cup B |-> IF h \in B THEN h ELSE objects[h]]

\* sealPayload of each content of this call, by record id.
Seal(contents) ==
  /\ calls' = calls + 1
  /\ sealed' = [s \in DOMAIN sealed \cup {<<calls, r>> : r \in DOMAIN contents} |->
                  IF s \in DOMAIN sealed THEN sealed[s] ELSE contents[s[2]]]

\* flatCommit over an unchanged parent: nothing is written, its root is returned.
FlatCommitUnchanged(R, parent) ==
  /\ UniqueIds(R)
  /\ parent.layout = "flat" /\ parent.records = R
  /\ revisions' = revisions \cup {parent}
  /\ UNCHANGED <<objects, sealed, packings, calls, manifests, faults>>

FlatCommit(R, parent) ==
  LET content == FlatContent(R)
      wire    == Wire(<<calls, FlatId>>, content)
  IN  /\ UniqueIds(R)
      /\ ~(parent.layout = "flat" /\ parent.records = R)
      /\ Length(content) <= PackageLimit
      /\ Seal([r \in {FlatId} |-> content])
      /\ Put({wire})
      /\ revisions' = revisions \cup
           {[layout |-> "flat", rootHash |-> wire, records |-> R, hashes |-> <<>>]}
      /\ UNCHANGED <<packings, manifests, faults>>

Grouped(R) == {BucketOf[r.id] : r \in R}

\* Buckets whose records the parent's fingerprint says are the same.
Reused(R, parent) ==
  {b \in Grouped(R) : b \in DOMAIN parent.hashes /\ InBucket(parent.records, b) = InBucket(R, b)}

BucketWire(b, R) == Wire(<<calls, BucketId(b)>>, BucketContent(b, InBucket(R, b)))

ShardedHashes(R, parent) ==
  [b \in Grouped(R) |-> IF b \in Reused(R, parent) THEN parent.hashes[b] ELSE BucketWire(b, R)]

RootEntries(hashes) ==
  {[bucketId |-> b, recordId |-> BucketId(b), ciphertextHash |-> hashes[b]] : b \in DOMAIN hashes}

Fits(b, R) == Length(BucketContent(b, InBucket(R, b))) <= PackageLimit

\* The contents one sharded commit seals: its changed buckets and the root.
ShardedContents(R, changed, hashes) ==
  [r \in {BucketId(b) : b \in changed} \cup {RootId} |->
     IF r = RootId THEN RootContent(RootEntries(hashes))
     ELSE BucketContent(r[2], InBucket(R, r[2]))]

ShardedCommit(R, parent) ==
  LET changed == Grouped(R) \ Reused(R, parent)
      hashes  == ShardedHashes(R, parent)
      root    == Wire(<<calls, RootId>>, RootContent(RootEntries(hashes)))
  IN  /\ UniqueIds(R)
      /\ \A b \in changed : Fits(b, R)
      /\ Seal(ShardedContents(R, changed, hashes))
      /\ Put({BucketWire(b, R) : b \in changed} \cup {root})
      /\ revisions' = revisions \cup
           {[layout |-> "sharded", rootHash |-> root, records |-> R, hashes |-> hashes]}
      /\ UNCHANGED <<packings, manifests, faults>>

\* A bucket over the ceiling: those before it, in the caller's order, are stored.
ShardedCommitTooLarge(R, parent, before) ==
  LET changed == Grouped(R) \ Reused(R, parent)
  IN  /\ UniqueIds(R)
      /\ \E b \in changed : ~Fits(b, R)
      /\ before \subseteq {b \in changed : Fits(b, R)}
      /\ Seal([r \in {BucketId(b) : b \in before} |-> BucketContent(r[2], InBucket(R, r[2]))])
      /\ Put({BucketWire(b, R) : b \in before})
      /\ UNCHANGED <<revisions, packings, manifests, faults>>
-----------------------------------------------------------------------------
(* packShards *)

\* envelopeBytesFor: bytes the caller holds for the bucket win over the store's.
EnvelopesFor(rev, held, b) ==
  IF b \in DOMAIN held THEN {held[b]} ELSE Get(rev.hashes[b])

Packable(rev, held, target, b) ==
  \E env \in EnvelopesFor(rev, held, b) :
    Len(env) <= target /\ Len(env) <= PackageLimit /\ env = rev.hashes[b]

NothingPacked == [pieces |-> <<>>, pending |-> {}, packs |-> {}, extents |-> {}]

Flush(acc) ==
  IF acc.pieces = <<>> THEN acc
  ELSE [pieces |-> <<>>, pending |-> {},
        packs |-> acc.packs \cup {acc.pieces},
        extents |-> acc.extents \cup
          {[shardId |-> x.shardId, recordId |-> x.recordId, offset |-> x.offset,
            length |-> x.length, envelopeCiphertextHash |-> x.envelopeCiphertextHash,
            packCiphertextHash |-> acc.pieces] : x \in acc.pending}]

\* Bug: the offset goes on counting after a pack is flushed.
AddEnvelopeOffset(acc, b, env, target) ==
  LET full == acc.pieces # <<>> /\ Len(acc.pieces) + Len(env) > target
      base == IF full THEN Flush(acc) ELSE acc
  IN  [base EXCEPT
        !.pending = @ \cup {[shardId |-> b, recordId |-> BucketId(b),
                             offset |-> Len(acc.pieces), length |-> Len(env),
                             envelopeCiphertextHash |-> env]},
        !.pieces = @ \o env]

AddEnvelope(acc, b, env, target) ==
  LET full == acc.pieces # <<>> /\ Len(acc.pieces) + Len(env) > target
      base == IF full THEN Flush(acc) ELSE acc
  IN  [base EXCEPT
        !.pending = @ \cup {[shardId |-> b, recordId |-> BucketId(b),
                             offset |-> Len(base.pieces), length |-> Len(env),
                             envelopeCiphertextHash |-> env]},
        !.pieces = @ \o env]

\* The packing state after these buckets, in ascending order.
Packed(rev, target, B) ==
  LET packed[S \in SUBSET B] ==
        IF S = {} THEN NothingPacked
        ELSE AddEnvelope(packed[S \ {Max(S)}], Max(S), rev.hashes[Max(S)], target)
  IN  packed[B]

PackShards(rev, held, target) ==
  LET done  == Flush(Packed(rev, target, DOMAIN rev.hashes))
      wire  == Wire(<<calls, ExtentId>>, SealedExtents(done.extents))
  IN  /\ \A b \in DOMAIN rev.hashes : Packable(rev, held, target, b)
      /\ Seal([r \in {ExtentId} |-> SealedExtents(done.extents)])
      /\ Put(done.packs \cup {wire})
      /\ packings' = packings \cup
           {[manifestHash |-> wire, revision |-> rev]}
      /\ UNCHANGED <<revisions, manifests, faults>>

\* It throws at the first envelope that is missing, too large or not the one the
\* revision names; packs flushed before stay in the store, without a manifest.
PackShardsFails(rev, held, target) ==
  LET bad    == {b \in DOMAIN rev.hashes : ~Packable(rev, held, target, b)}
      before == {b \in DOMAIN rev.hashes : \A c \in bad : b < c}
  IN  /\ bad # {}
      /\ Put(Packed(rev, target, before).packs)
      /\ UNCHANGED <<sealed, revisions, packings, calls, manifests, faults>>
-----------------------------------------------------------------------------
(* session.createAuthenticatedManifest: the caller seals manifests of its own  *)
(* making and stores them. Three kinds matter: a root over envelopes it knows, *)
(* a bucket of any records with a root that lists it, and an extent manifest   *)
(* over known extents, one of them possibly moved.                             *)

BucketSeals == {s \in DOMAIN sealed : sealed[s].kind = "bucket"}

KnownExtents ==
  UNION {sealed[s].extents : s \in {t \in DOMAIN sealed : sealed[t].kind = "extent"}}

SealManifest(contents) ==
  /\ manifests < MaxManifests
  /\ manifests' = manifests + 1
  /\ Seal(contents)
  /\ Put({Wire(<<calls, r>>, contents[r]) : r \in DOMAIN contents})
  /\ UNCHANGED <<revisions, packings, faults>>

Listed(b, recordId, hash) == [bucketId |-> b, recordId |-> recordId, ciphertextHash |-> hash]

SealRootOfKnown(b, s, d, t) ==
  SealManifest([r \in {RootId} |->
    RootContent({Listed(b, s[2], WireOf(s)), Listed(d, t[2], WireOf(t))})])

SealBucketAndRoot(b, d, R) ==
  LET bucket == BucketContent(d, R)
      wire   == Wire(<<calls, BucketId(b)>>, bucket)
  IN  SealManifest([r \in {BucketId(b), RootId} |->
        IF r = RootId THEN RootContent({Listed(d, BucketId(b), wire)}) ELSE bucket])

SealExtentsOfKnown(v, z, k) ==
  SealManifest([r \in {ExtentId} |-> SealedExtents({v, [z EXCEPT !.offset = @ + k]})])

CreateAuthenticatedManifest ==
  \/ \E b, d \in Buckets, s, t \in BucketSeals : SealRootOfKnown(b, s, d, t)
  \/ \E b, d \in Buckets, R \in RecordSets : SealBucketAndRoot(b, d, R)
  \/ \E v, z \in KnownExtents, k \in {0, 1} : SealExtentsOfKnown(v, z, k)
-----------------------------------------------------------------------------
(* The store loses, changes or lacks something *)

Fault ==
  /\ faults < MaxFaults
  /\ faults' = faults + 1
  /\ UNCHANGED <<sealed, revisions, packings, calls, manifests>>

Delete(hash) ==
  /\ hash \in DOMAIN objects
  /\ objects' = [h \in DOMAIN objects \ {hash} |-> objects[h]]

Replace(hash, bytes) ==
  /\ hash \in DOMAIN objects
  /\ objects' = [objects EXCEPT ![hash] = bytes]

\* Bytes that could pass for these: they start with an envelope of the same record.
SameRecord(hash, other) == other # hash /\ other[1][1][2] = hash[1][1][2]

Truncated(bytes) == SubSeq(bytes, 1, Len(bytes) - 1)

\* The caller goes on with a store of its own making, and with the revisions it has.
NewStore == objects' = <<>>

Damage ==
  /\ Fault
  /\ \/ \E hash \in DOMAIN objects : Delete(hash)
     \/ \E hash, other \in DOMAIN objects : SameRecord(hash, other) /\ Replace(hash, other)
     \/ \E hash \in DOMAIN objects : Replace(hash, Truncated(objects[hash]))
     \/ NewStore
-----------------------------------------------------------------------------
CommitStep ==
  \E R \in RecordSets, parent \in revisions \cup {NoRevision} :
    \/ FlatCommitUnchanged(R, parent)
    \/ FlatCommit(R, parent)
    \/ ShardedCommit(R, parent)
    \/ \E before \in SUBSET Grouped(R) : ShardedCommitTooLarge(R, parent, before)

\* revision.envelopes: none, or one envelope a bucket had in some revision.
HeldEnvelopes(rev) ==
  {<<>>} \cup
  {[k \in {s[2][2]} |-> WireOf(s)] : s \in {t \in BucketSeals : t[2][2] \in DOMAIN rev.hashes}}

PackStep ==
  \E rev \in {v \in revisions : v.layout = "sharded"}, target \in Targets :
    \E held \in HeldEnvelopes(rev) :
      PackShards(rev, held, target) \/ PackShardsFails(rev, held, target)

Next ==
  \/ calls < MaxCalls /\ (CommitStep \/ PackStep \/ CreateAuthenticatedManifest)
  \/ Damage

Spec == Init /\ [][Next]_vars
-----------------------------------------------------------------------------
(* Properties *)

Restore(rev) ==
  IF rev.layout = "flat" THEN FlatRestore(rev.rootHash) ELSE ShardedRestore(rev.rootHash)

\* Flat and sharded: a restore of a revision that returns has the records the
\* revision was committed with, whatever the store lost, replaced or cut short
\* (getChecked, openEnvelope and assembleBucketRecords under every reader).
RevisionsRestoreWhole ==
  \A rev \in revisions : Restore(rev) \in {Rejected, Restored(rev.records)}

\* Packed: so does a restore from the packs, and a range read of one shard of them has
\* that shard's records, whichever manifest wire the reader kept.
PackingsRestoreWhole ==
  \A p \in packings :
    /\ PackedFullRestore(p.manifestHash) \in {Rejected, Restored(p.revision.records)}
    /\ \A b \in Buckets, wire \in DOMAIN objects :
         PackedRangeRestore(p.manifestHash, b, {wire})
           \in {Rejected, Restored(InBucket(p.revision.records, b))}

\* A restore in any of the three layouts yields the whole of what was committed and
\* nothing else, or throws.
RestoresWhole == RevisionsRestoreWhole /\ PackingsRestoreWhole

\* What a commit or a packing returned can be restored as long as the store lost
\* nothing: skipping an unchanged bucket, an unchanged catalog or a full pack never
\* leaves a reference to bytes that were not written, a commit that throws half-way
\* takes nothing from the ones before, and the extents a packing lays out are extents
\* that a reader accepts.
CommittedRestores ==
  faults = 0 =>
    /\ \A rev \in revisions : Restore(rev) = Restored(rev.records)
    /\ \A p \in packings :
         /\ PackedFullRestore(p.manifestHash) = Restored(p.revision.records)
         /\ \A b \in DOMAIN p.revision.hashes :
              ColdRangeRestore(p.manifestHash, b) = Restored(InBucket(p.revision.records, b))

\* A full restore and the reads of its parts tell one story, under any authenticated
\* manifest, also one that no commit sealed: an id has in a restored catalog the
\* records that a lookup finds for it, and a shard has in a full packed restore the
\* records a range read of it returns.
PartsAgreeWithWhole ==
  \A hash \in DOMAIN objects :
    /\ LET whole == ShardedRestore(hash)
       IN  whole.ok => \A id \in Ids :
             ShardedLookups(hash, id) = {r \in whole.records : r.id = id}
    /\ LET whole == PackedFullRestore(hash)
       IN  whole.ok => \A b \in Buckets :
             ColdRangeRestore(hash, b).records = InBucket(whole.records, b)
-----------------------------------------------------------------------------
(* The inductive invariant StorageLayoutProofs uses. *)

\* Seals of later calls are new, and no envelope is empty.
SealsHold ==
  /\ calls \in Nat
  /\ \A s \in DOMAIN sealed : s[1] \in 0..(calls - 1) /\ Length(sealed[s]) \in Nat \ {0}

\* The vault sealed this content under this record id, and this is the envelope.
IsEnvelope(wire, recordId, content) ==
  \E s \in DOMAIN sealed : s[2] = recordId /\ sealed[s] = content /\ wire = WireOf(s)

\* The envelopes a revision names, written by its commit or an earlier one, have its
\* records.
RevisionHolds(rev) ==
  /\ rev.records \in RecordSets /\ UniqueIds(rev.records)
  /\ \/ /\ rev.layout = "flat" /\ rev.hashes = <<>>
        /\ IsEnvelope(rev.rootHash, FlatId, FlatContent(rev.records))
     \/ /\ rev.layout = "sharded" /\ DOMAIN rev.hashes = Grouped(rev.records)
        /\ IsEnvelope(rev.rootHash, RootId, RootContent(RootEntries(rev.hashes)))
        /\ \A b \in DOMAIN rev.hashes :
             IsEnvelope(rev.hashes[b], BucketId(b), BucketContent(b, InBucket(rev.records, b)))

IsSequence(s) == s \in Seq({s[i] : i \in DOMAIN s})

\* These bytes are found at this offset.
Holds(bytes, offset, part) ==
  /\ offset \in Nat /\ offset + Len(part) <= Len(bytes)
  /\ \A i \in 1..Len(part) : bytes[offset + i] = part[i]

\* Each envelope of a revision has one extent, which says where it is in its pack.
LaidOut(X, hashes) ==
  /\ {v.shardId : v \in X} = DOMAIN hashes
  /\ \A v, z \in X : v.shardId = z.shardId => v = z
  /\ \A v \in X :
       /\ v.recordId = BucketId(v.shardId)
       /\ v.envelopeCiphertextHash = hashes[v.shardId] /\ v.length = Len(hashes[v.shardId])
       /\ IsSequence(v.packCiphertextHash)
       /\ Holds(v.packCiphertextHash, v.offset, hashes[v.shardId])

PackingHolds(p) ==
  /\ p.revision \in revisions /\ p.revision.layout = "sharded"
  /\ \E s \in DOMAIN sealed :
       /\ s[2] = ExtentId /\ p.manifestHash = WireOf(s) /\ sealed[s].kind = "extent"
       /\ LaidOut(sealed[s].extents, p.revision.hashes)
       /\ faults = 0 => {v.packCiphertextHash : v \in sealed[s].extents} \subseteq DOMAIN objects

\* A store that lost nothing has everything that was sealed.
StoreHolds ==
  faults = 0 =>
    /\ \A hash \in DOMAIN objects : objects[hash] = hash
    /\ \A s \in DOMAIN sealed : WireOf(s) \in DOMAIN objects

LayoutInv ==
  /\ SealsHold /\ StoreHolds /\ faults \in Nat
  /\ \A rev \in revisions : RevisionHolds(rev)
  /\ \A p \in packings : PackingHolds(p)
=============================================================================
