------------------------ MODULE StorageLayoutProofs -------------------------
(***************************************************************************)
(* Proofs about StorageLayout, for any records, buckets and limits, any    *)
(* number of calls and whatever the store loses or changes.                *)
(***************************************************************************)
EXTENDS StorageLayout, Facts, SequenceTheorems

-----------------------------------------------------------------------------
(* Envelopes.                                                              *)

LEMMA WireIs ==
  ASSUME NEW s, NEW content, Length(content) \in Nat \ {0}
  PROVE  /\ IsSequence(Wire(s, content)) /\ Len(Wire(s, content)) = Length(content)
         /\ Wire(s, content) # <<>> /\ Wire(s, content)[1][1] = s
<1> DEFINE n == Length(content)
           w == Wire(s, content)
           T == {w[i] : i \in DOMAIN w}
<1>1. n \in Nat /\ n # 0 /\ 1 \in 1..n
  OBVIOUS
<1>2. w = [i \in 1..n |-> <<s, i>>]
  BY DEF Wire
<1> HIDE DEF n, w
<1>3. DOMAIN w = 1..n /\ w[1] = <<s, 1>> /\ \A i \in 1..n : w[i] \in T
  BY <1>1, <1>2
<1>4. w \in [1..n -> T]
  BY <1>2, <1>3
<1> HIDE DEF T
<1>5. w \in Seq(T) /\ Len(w) = n
  BY <1>1, <1>3, <1>4
<1>6. w # <<>>
  BY <1>1, <1>5
<1> QED
  BY <1>3, <1>5, <1>6 DEF IsSequence, T, n, w

LEMMA EnvelopeIs ==
  ASSUME SealsHold, NEW s \in DOMAIN sealed
  PROVE  /\ IsSequence(WireOf(s)) /\ Len(WireOf(s)) \in Nat \ {0}
         /\ IsSealed(WireOf(s)) /\ WireOf(s)[1][1] = s
<1>1. Length(sealed[s]) \in Nat \ {0}
  BY DEF SealsHold
<1>2. /\ IsSequence(WireOf(s)) /\ Len(WireOf(s)) = Length(sealed[s])
      /\ WireOf(s) # <<>> /\ WireOf(s)[1][1] = s
  BY <1>1, WireIs DEF WireOf
<1> QED
  BY <1>1, <1>2 DEF IsSealed

(* What is opened under a record id is what was sealed under it.           *)
LEMMA OpensAs ==
  ASSUME SealsHold, NEW wire, NEW id, NEW c, IsEnvelope(wire, id, c), NEW W \in SUBSET {wire}
  PROVE  /\ Opened(W, id) \subseteq {c}
         /\ W # {} => Opened(W, id) = {c}
<1>1. PICK s \in DOMAIN sealed : s[2] = id /\ sealed[s] = c /\ wire = WireOf(s)
  BY DEF IsEnvelope
<1>2. IsSealed(wire) /\ wire[1][1] = s
  BY <1>1, EnvelopeIs
<1> QED
  BY <1>1, <1>2 DEF Opened

LEMMA CheckedIs ==
  ASSUME NEW hash
  PROVE  /\ GetChecked(hash) \subseteq {hash} /\ GetChecked(hash) \subseteq Get(hash)
         /\ hash \in DOMAIN objects /\ objects[hash] = hash => GetChecked(hash) = {hash} /\ Get(hash) = {hash}
         /\ GetChecked(hash) # {} => Get(hash) = {hash} /\ GetChecked(hash) = {hash}
  BY DEF GetChecked, Get

-----------------------------------------------------------------------------
(* One story: what is read in parts and what is read as a whole.           *)

(* The entry of a bucket gives the records of that bucket only.            *)
LEMMA EntryRouted ==
  ASSUME NEW wires, NEW id, NEW b, NEW k \in Assembled(wires, id, b), NEW r \in k.records
  PROVE  BucketOf[r.id] = b
  BY DEF Assembled

AllOfRoot(c) == UNION {k.records : k \in UNION {EntryContent(e) : e \in c.buckets}}

LEMMA LookupsAgree ==
  ASSUME NEW hash, ShardedRestore(hash).ok, NEW id \in Ids
  PROVE  ShardedLookups(hash, id) = {r \in ShardedRestore(hash).records : r.id = id}
<1> DEFINE root == {c \in Roots(hash) :
                      /\ \A e \in c.buckets : e.bucketId \in Buckets /\ EntryContent(e) # {}
                      /\ \A e, f \in c.buckets : e.bucketId = f.bucketId => e = f}
           all == UNION {k.records : k \in UNION {UNION {EntryContent(e) : e \in c.buckets} : c \in root}}
           entries == {e \in UNION {c.buckets : c \in Roots(hash)} : e.bucketId = BucketOf[id]}
<1>1. root # {} /\ ShardedRestore(hash).records = all
  BY DEF ShardedRestore, Restored, Rejected
<1>2. \A c, d \in Roots(hash) : c = d
  BY CheckedIs DEF Roots, Opened
<1>3. PICK c \in root : TRUE
  BY <1>1
<1>4. Roots(hash) = {c} /\ root = {c}
  BY <1>2, <1>3
<1>5. all = AllOfRoot(c)
  BY <1>4 DEF AllOfRoot
<1>6. \A e : e \in entries <=> e \in c.buckets /\ e.bucketId = BucketOf[id]
  BY <1>4
<1>7. ShardedLookups(hash, id) = {r \in UNION {k.records : k \in UNION {EntryContent(e) : e \in entries}} : r.id = id}
  BY DEF ShardedLookups
<1> HIDE DEF root, all, entries
<1>8. ASSUME NEW r, r.id = id
      PROVE  r \in UNION {k.records : k \in UNION {EntryContent(e) : e \in entries}} <=> r \in AllOfRoot(c)
  <2>1. ASSUME NEW e \in entries, NEW k \in EntryContent(e), r \in k.records PROVE r \in AllOfRoot(c)
    BY <1>6, <2>1 DEF AllOfRoot
  <2>2. ASSUME NEW e \in c.buckets, NEW k \in EntryContent(e), r \in k.records
        PROVE  e \in entries
    <3>1. BucketOf[r.id] = e.bucketId
      BY <2>2, EntryRouted DEF EntryContent
    <3> QED
      BY <1>6, <1>8, <3>1
  <2> QED
    BY <2>1, <2>2 DEF AllOfRoot
<1> QED
  BY <1>1, <1>5, <1>7, <1>8

(* What a full restore reads of an extent, and what a range read does.     *)
FullContent(v)  == ExtentContent(GetChecked(v.packCiphertextHash), v)
RangeContent(v) == ExtentContent(Get(v.packCiphertextHash), v)
Found(hash)     == {c \in Manifests(GetChecked(hash), hash) : \A v \in c.extents : FullContent(v) # {}}

LEMMA RangeReadsTheSame ==
  ASSUME NEW v, FullContent(v) # {}
  PROVE  RangeContent(v) = FullContent(v)
<1>1. GetChecked(v.packCiphertextHash) # {}
  <2>1. CASE GetChecked(v.packCiphertextHash) = {}
    <3>1. Slices({}, v) = {}
      BY DEF Slices
    <3>2. {bytes \in Slices({}, v) : bytes = v.envelopeCiphertextHash} = {}
      BY <3>1
    <3>3. Opened({}, v.recordId) = {}
      BY DEF Opened
    <3>4. ExtentContent({}, v) = {}
      BY <3>2, <3>3 DEF ExtentContent, Assembled
    <3> QED
      BY <2>1, <3>4 DEF FullContent
  <2> QED
    BY <2>1
<1>2. GetChecked(v.packCiphertextHash) = Get(v.packCiphertextHash)
  BY <1>1, CheckedIs
<1> QED
  BY <1>2 DEF FullContent, RangeContent

LEMMA PackedRestoreIs ==
  ASSUME NEW hash
  PROVE  PackedFullRestore(hash) =
           LET all == UNION {k.records : k \in UNION {UNION {FullContent(v) : v \in c.extents} : c \in Found(hash)}}
           IN  IF Found(hash) # {} /\ UniqueIds(all) THEN Restored(all) ELSE Rejected
  BY DEF PackedFullRestore, Found, FullContent

RangeFound(hash, b, wires) ==
  UNION {RangeContent(v) : v \in {v \in UNION {c.extents : c \in Manifests(wires, hash)} : v.shardId = b}}

LEMMA RangeRestoreIs ==
  ASSUME NEW hash, NEW b, NEW wires
  PROVE  PackedRangeRestore(hash, b, wires) =
           IF RangeFound(hash, b, wires) # {}
           THEN Restored(UNION {k.records : k \in RangeFound(hash, b, wires)}) ELSE Rejected
  BY DEF PackedRangeRestore, RangeFound, RangeContent

(* An extent gives the records of its shard only.                          *)
LEMMA ExtentRouted ==
  ASSUME NEW packs, NEW v, NEW k \in ExtentContent(packs, v), NEW r \in k.records
  PROVE  BucketOf[r.id] = v.shardId
<1> DEFINE envelopes == {bytes \in Slices(packs, v) : bytes = v.envelopeCiphertextHash}
<1>1. k \in Assembled(envelopes, v.recordId, v.shardId)
  BY DEF ExtentContent
<1> HIDE DEF envelopes
<1> QED
  BY <1>1, EntryRouted

LEMMA RangesAgree ==
  ASSUME NEW hash, PackedFullRestore(hash).ok, NEW b \in Buckets
  PROVE  ColdRangeRestore(hash, b).records = InBucket(PackedFullRestore(hash).records, b)
<1> DEFINE M == Manifests(GetChecked(hash), hash)
           all == UNION {k.records : k \in UNION {UNION {FullContent(v) : v \in c.extents} : c \in Found(hash)}}
           part == RangeFound(hash, b, GetChecked(hash))
<1>1. Found(hash) # {} /\ PackedFullRestore(hash).records = all
  BY PackedRestoreIs DEF Restored, Rejected
<1>2. \A c, d \in M : c = d
  BY CheckedIs DEF Manifests, Opened
<1>3. PICK c \in Found(hash) : TRUE
  BY <1>1
<1>4. M = {c} /\ Found(hash) = {c} /\ \A v \in c.extents : FullContent(v) # {}
  BY <1>2, <1>3 DEF Found
<1>5. \A k : k \in part <=> \E v \in c.extents : v.shardId = b /\ k \in FullContent(v)
  <2>1. \A v : v \in UNION {d.extents : d \in M} <=> v \in c.extents
    BY <1>4
  <2>2. \A k : k \in part <=> \E v \in UNION {d.extents : d \in M} : v.shardId = b /\ k \in RangeContent(v)
    BY DEF RangeFound
  <2>3. \A v \in c.extents : RangeContent(v) = FullContent(v)
    BY <1>4, RangeReadsTheSame
  <2> HIDE DEF part, M
  <2> QED
    BY <2>1, <2>2, <2>3
<1>6. \A r : r \in all <=> \E v \in c.extents : \E k \in FullContent(v) : r \in k.records
  BY <1>4
<1>7. ColdRangeRestore(hash, b).records = UNION {k.records : k \in part}
  BY RangeRestoreIs DEF ColdRangeRestore, Restored, Rejected
<1> HIDE DEF part, all, M
<1>8. ASSUME NEW r
      PROVE  (\E k \in part : r \in k.records) <=> r \in all /\ BucketOf[r.id] = b
  <2>1. ASSUME NEW k \in part, r \in k.records PROVE r \in all /\ BucketOf[r.id] = b
    <3>1. PICK v \in c.extents : v.shardId = b /\ k \in FullContent(v)
      BY <1>5
    <3>2. BucketOf[r.id] = v.shardId
      BY <2>1, <3>1, ExtentRouted DEF FullContent
    <3> QED
      BY <1>6, <2>1, <3>1, <3>2
  <2>2. ASSUME r \in all, BucketOf[r.id] = b PROVE \E k \in part : r \in k.records
    <3>1. PICK v \in c.extents : \E k \in FullContent(v) : r \in k.records
      BY <1>6, <2>2
    <3>2. PICK k \in FullContent(v) : r \in k.records
      BY <3>1
    <3>3. BucketOf[r.id] = v.shardId
      BY <3>2, ExtentRouted DEF FullContent
    <3> QED
      BY <1>5, <2>2, <3>2, <3>3
  <2> QED
    BY <2>1, <2>2
<1> QED
  BY <1>1, <1>7, <1>8 DEF InBucket

(* A full restore and the reads of its parts tell one story, under any     *)
(* authenticated manifest, also one that no commit sealed.                 *)
THEOREM PartsAgree == Spec => []PartsAgreeWithWhole
<1>1. PartsAgreeWithWhole
  BY LookupsAgree, RangesAgree DEF PartsAgreeWithWhole
<1> QED
  BY <1>1, PTL

-----------------------------------------------------------------------------
(* Restores of revisions.                                                  *)

LEMMA Present ==
  ASSUME StoreHolds, faults = 0, NEW wire, NEW id, NEW c, IsEnvelope(wire, id, c)
  PROVE  GetChecked(wire) # {}
<1>1. PICK s \in DOMAIN sealed : wire = WireOf(s)
  BY DEF IsEnvelope
<1>2. wire \in DOMAIN objects /\ objects[wire] = wire
  BY <1>1 DEF StoreHolds
<1> QED
  BY <1>2, CheckedIs

LEMMA FlatRestores ==
  ASSUME SealsHold, StoreHolds, NEW R, UniqueIds(R), NEW hash, IsEnvelope(hash, FlatId, FlatContent(R))
  PROVE  /\ FlatRestore(hash) \in {Rejected, Restored(R)}
         /\ faults = 0 => FlatRestore(hash) = Restored(R)
<1> DEFINE W == GetChecked(hash)
           O == Opened(W, FlatId)
           found == {c \in O : c.kind = "flat" /\ UniqueIds(c.records)}
<1>1. O \subseteq {FlatContent(R)} /\ (faults = 0 => O = {FlatContent(R)})
  BY OpensAs, CheckedIs, Present
<1>2. FlatContent(R).kind = "flat" /\ FlatContent(R).records = R
  BY DEF FlatContent
<1>3. found = O
  BY <1>1, <1>2
<1>4. found # {} => UNION {c.records : c \in found} = R
  BY <1>1, <1>2, <1>3
<1>5. FlatRestore(hash) = IF found # {} THEN Restored(UNION {c.records : c \in found}) ELSE Rejected
  BY DEF FlatRestore
<1> HIDE DEF O, found
<1> QED
  BY <1>1, <1>3, <1>4, <1>5

(* The content of a bucket is made of the records that are routed there.   *)
LEMMA BucketAssembles ==
  ASSUME SealsHold, NEW R, UniqueIds(R), NEW b, NEW wire,
         IsEnvelope(wire, BucketId(b), BucketContent(b, InBucket(R, b))),
         NEW W \in SUBSET {wire}
  PROVE  /\ Assembled(W, BucketId(b), b) \subseteq {BucketContent(b, InBucket(R, b))}
         /\ W # {} => Assembled(W, BucketId(b), b) = {BucketContent(b, InBucket(R, b))}
<1> DEFINE c == BucketContent(b, InBucket(R, b))
           id == BucketId(b)
           O == Opened(W, id)
<1>1. O \subseteq {c} /\ (W # {} => O = {c})
  <2> HIDE DEF c, id
  <2> QED
    BY OpensAs DEF c, id
<1>2. c.kind = "bucket" /\ c.bucketId = b /\ c.records = InBucket(R, b)
  BY DEF BucketContent
<1>3. (\A r \in InBucket(R, b) : BucketOf[r.id] = b) /\ UniqueIds(InBucket(R, b))
  BY DEF InBucket, UniqueIds
<1>4. Assembled(W, id, b) = {x \in O : x.kind = "bucket" /\ x.bucketId = b
                              /\ (\A r \in x.records : BucketOf[r.id] = b) /\ UniqueIds(x.records)}
  BY DEF Assembled
<1> HIDE DEF c, O, id
<1>5. Assembled(W, id, b) = O
  BY <1>1, <1>2, <1>3, <1>4
<1> QED
  BY <1>1, <1>5 DEF c, id

LEMMA EntriesAre ==
  ASSUME NEW hashes
  PROVE  /\ \A b \in DOMAIN hashes :
              [bucketId |-> b, recordId |-> BucketId(b), ciphertextHash |-> hashes[b]] \in RootEntries(hashes)
         /\ \A e \in RootEntries(hashes) :
              e.bucketId \in DOMAIN hashes /\ e.recordId = BucketId(e.bucketId)
              /\ e.ciphertextHash = hashes[e.bucketId]
         /\ \A e, f \in RootEntries(hashes) : e.bucketId = f.bucketId => e = f
  BY DEF RootEntries

(* What the revisions of the invariant are made of.                        *)
Grouping(R, hashes) ==
  /\ DOMAIN hashes = Grouped(R)
  /\ \A b \in DOMAIN hashes :
       IsEnvelope(hashes[b], BucketId(b), BucketContent(b, InBucket(R, b)))

LEMMA GroupedAre ==
  ASSUME NEW R \in RecordSets
  PROVE  /\ Grouped(R) \subseteq Buckets /\ IsFiniteSet(Grouped(R))
         /\ \A r \in R : BucketOf[r.id] \in Grouped(R) /\ r \in InBucket(R, BucketOf[r.id])
<1> DEFINE f == [r \in R |-> BucketOf[r.id]]
<1>1. \A r \in R : BucketOf[r.id] \in Buckets
  BY LayoutAssumption
<1>2. Grouped(R) = {f[r] : r \in R}
  BY DEF Grouped
<1>3. IsFiniteSet(R)
  BY LayoutAssumption
<1>4. IsFiniteSet({f[r] : r \in R})
  <2> HIDE DEF f
  <2> QED
    BY <1>3, ImageIsFinite
<1> QED
  BY <1>1, <1>2, <1>4 DEF Grouped, InBucket

LEMMA EntryIs ==
  ASSUME SealsHold, StoreHolds, NEW R, UniqueIds(R), NEW hashes, Grouping(R, hashes),
         NEW e \in RootEntries(hashes)
  PROVE  /\ EntryContent(e) \subseteq {BucketContent(e.bucketId, InBucket(R, e.bucketId))}
         /\ faults = 0 => EntryContent(e) # {}
<1> DEFINE b == e.bucketId
           W == GetChecked(e.ciphertextHash)
<1>1. b \in DOMAIN hashes /\ e.recordId = BucketId(b) /\ e.ciphertextHash = hashes[b]
  BY EntriesAre
<1>2. IsEnvelope(hashes[b], BucketId(b), BucketContent(b, InBucket(R, b)))
  BY <1>1 DEF Grouping
<1>3. W \in SUBSET {hashes[b]} /\ (faults = 0 => W # {})
  BY <1>1, <1>2, CheckedIs, Present
<1>4. EntryContent(e) = Assembled(W, BucketId(b), b)
  BY <1>1 DEF EntryContent
<1> HIDE DEF W
<1>5. /\ Assembled(W, BucketId(b), b) \subseteq {BucketContent(b, InBucket(R, b))}
      /\ W # {} => Assembled(W, BucketId(b), b) = {BucketContent(b, InBucket(R, b))}
  BY <1>2, <1>3, BucketAssembles
<1> QED
  BY <1>3, <1>4, <1>5

LEMMA ShardedRestores ==
  ASSUME SealsHold, StoreHolds, NEW R \in RecordSets, UniqueIds(R), NEW hashes, Grouping(R, hashes),
         NEW hash, IsEnvelope(hash, RootId, RootContent(RootEntries(hashes)))
  PROVE  /\ ShardedRestore(hash) \in {Rejected, Restored(R)}
         /\ faults = 0 => ShardedRestore(hash) = Restored(R)
<1> DEFINE content == RootContent(RootEntries(hashes))
           W == GetChecked(hash)
           roots == Roots(hash)
           root == {c \in roots :
                      /\ \A e \in c.buckets : e.bucketId \in Buckets /\ EntryContent(e) # {}
                      /\ \A e, f \in c.buckets : e.bucketId = f.bucketId => e = f}
           all == UNION {k.records : k \in UNION {UNION {EntryContent(e) : e \in c.buckets} : c \in root}}
<1>1. content.kind = "root" /\ content.buckets = RootEntries(hashes)
  BY DEF RootContent
<1>2. Opened(W, RootId) \subseteq {content} /\ (faults = 0 => Opened(W, RootId) = {content})
  BY OpensAs, CheckedIs, Present
<1>3. roots = {c \in Opened(W, RootId) : c.kind = "root"}
  BY DEF Roots
<1>4. ShardedRestore(hash) = IF root # {} /\ UniqueIds(all) THEN Restored(all) ELSE Rejected
  BY DEF ShardedRestore
<1> HIDE DEF W, content, roots
<1>5. roots \subseteq {content} /\ (faults = 0 => roots = {content})
  BY <1>1, <1>2, <1>3
<1>6. ASSUME NEW e \in RootEntries(hashes)
      PROVE  /\ EntryContent(e) \subseteq {BucketContent(e.bucketId, InBucket(R, e.bucketId))}
             /\ faults = 0 => EntryContent(e) # {}
             /\ e.bucketId \in Buckets
  BY EntryIs, EntriesAre, GroupedAre DEF Grouping
<1>7. \A e, f \in RootEntries(hashes) : e.bucketId = f.bucketId => e = f
  BY EntriesAre
<1>8. root \subseteq {content} /\ (faults = 0 => root = {content})
  BY <1>1, <1>5, <1>6, <1>7
<1>9. ASSUME root # {} PROVE all = R
  <2>1. root = {content} /\ \A e \in RootEntries(hashes) : EntryContent(e) # {}
    BY <1>1, <1>8, <1>9
  <2> HIDE DEF root
  <2>8. \A k : k \in UNION {UNION {EntryContent(e) : e \in c.buckets} : c \in root}
                <=> \E e \in RootEntries(hashes) : k \in EntryContent(e)
    BY <1>1, <2>1
  <2>2. \A r : r \in all <=> \E e \in RootEntries(hashes) : \E k \in EntryContent(e) : r \in k.records
    BY <2>8
  <2> HIDE DEF all
  <2>3. \A e \in RootEntries(hashes) : EntryContent(e) = {BucketContent(e.bucketId, InBucket(R, e.bucketId))}
    BY <1>6, <2>1
  <2>4. \A b : BucketContent(b, InBucket(R, b)).records = InBucket(R, b)
    BY DEF BucketContent
  <2>5. \A r : r \in all <=> \E e \in RootEntries(hashes) : r \in InBucket(R, e.bucketId)
    BY <2>2, <2>3, <2>4
  <2>6. ASSUME NEW r \in R PROVE r \in all
    <3> DEFINE b == BucketOf[r.id]
               e == [bucketId |-> b, recordId |-> BucketId(b), ciphertextHash |-> hashes[b]]
    <3>1. b \in DOMAIN hashes /\ r \in InBucket(R, b)
      BY GroupedAre DEF Grouping
    <3>2. e \in RootEntries(hashes) /\ e.bucketId = b
      BY <3>1, EntriesAre
    <3> HIDE DEF b, e
    <3> QED
      BY <2>5, <3>1, <3>2
  <2>7. ASSUME NEW r \in all PROVE r \in R
    BY <2>5 DEF InBucket
  <2> QED
    BY <2>6, <2>7
<1> HIDE DEF root, all
<1> QED
  BY <1>4, <1>8, <1>9

LEMMA RevisionRestores ==
  ASSUME LayoutInv, NEW rev \in revisions
  PROVE  /\ Restore(rev) \in {Rejected, Restored(rev.records)}
         /\ faults = 0 => Restore(rev) = Restored(rev.records)
<1>1. SealsHold /\ StoreHolds /\ RevisionHolds(rev)
  BY DEF LayoutInv
<1>2. CASE rev.layout = "flat"
  <2>1. UniqueIds(rev.records) /\ IsEnvelope(rev.rootHash, FlatId, FlatContent(rev.records))
    BY <1>1, <1>2 DEF RevisionHolds
  <2>2. Restore(rev) = FlatRestore(rev.rootHash)
    BY <1>2 DEF Restore
  <2> QED
    BY <1>1, <2>1, <2>2, FlatRestores
<1>3. CASE rev.layout # "flat"
  <2>1. /\ rev.records \in RecordSets /\ UniqueIds(rev.records) /\ Grouping(rev.records, rev.hashes)
        /\ IsEnvelope(rev.rootHash, RootId, RootContent(RootEntries(rev.hashes)))
    BY <1>1, <1>3 DEF RevisionHolds, Grouping
  <2>2. Restore(rev) = ShardedRestore(rev.rootHash)
    BY <1>3 DEF Restore
  <2> QED
    BY <1>1, <2>1, <2>2, ShardedRestores
<1> QED
  BY <1>2, <1>3

-----------------------------------------------------------------------------
(* Sequences of bytes.                                                     *)

LEMMA SequenceIs ==
  ASSUME NEW s, IsSequence(s)
  PROVE  /\ Len(s) \in Nat /\ DOMAIN s = 1..Len(s)
         /\ \A S : (\A i \in 1..Len(s) : s[i] \in S) => s \in Seq(S)
<1> DEFINE T == {s[i] : i \in DOMAIN s}
<1>1. s \in Seq(T)
  BY DEF IsSequence
<1> HIDE DEF T
<1>2. Len(s) \in Nat /\ DOMAIN s = 1..Len(s) /\ s \in [1..Len(s) -> T]
  BY <1>1
<1>3. ASSUME NEW S, \A i \in 1..Len(s) : s[i] \in S PROVE s \in Seq(S)
  <2>1. s \in [1..Len(s) -> S]
    BY <1>2, <1>3
  <2> QED
    BY <1>2, <2>1
<1> QED
  BY <1>2, <1>3

LEMMA IsOne ==
  ASSUME NEW S, NEW s \in Seq(S)
  PROVE  IsSequence(s)
<1> DEFINE T == {s[i] : i \in DOMAIN s}
<1>1. Len(s) \in Nat /\ DOMAIN s = 1..Len(s) /\ s \in [1..Len(s) -> S]
  OBVIOUS
<1>2. \A i \in 1..Len(s) : s[i] \in T
  BY <1>1
<1> HIDE DEF T
<1>3. s \in [1..Len(s) -> T]
  BY <1>1, <1>2
<1>4. s \in Seq(T)
  BY <1>1, <1>3
<1> QED
  BY <1>4 DEF IsSequence, T

LEMMA Appended ==
  ASSUME NEW p, NEW e, IsSequence(p), IsSequence(e)
  PROVE  /\ IsSequence(p \o e) /\ Len(p \o e) = Len(p) + Len(e)
         /\ Holds(p \o e, Len(p), e)
         /\ \A offset, part : Len(part) \in Nat /\ Holds(p, offset, part) => Holds(p \o e, offset, part)
<1> DEFINE S == {p[i] : i \in 1..Len(p)} \cup {e[i] : i \in 1..Len(e)}
<1>1. p \in Seq(S) /\ e \in Seq(S)
  BY SequenceIs
<1>2. Len(p) \in Nat /\ Len(e) \in Nat
  BY SequenceIs
<1> HIDE DEF S
<1>3. /\ p \o e \in Seq(S) /\ Len(p \o e) = Len(p) + Len(e)
      /\ \A i \in 1..(Len(p) + Len(e)) : (p \o e)[i] = IF i <= Len(p) THEN p[i] ELSE e[i - Len(p)]
  BY <1>1, ConcatProperties
<1>4. IsSequence(p \o e)
  BY <1>3, IsOne
<1>5. Holds(p \o e, Len(p), e)
  <2>1. ASSUME NEW i \in 1..Len(e) PROVE (p \o e)[Len(p) + i] = e[i]
    <3>1. Len(p) + i \in 1..(Len(p) + Len(e)) /\ ~(Len(p) + i <= Len(p)) /\ (Len(p) + i) - Len(p) = i
      BY <1>2
    <3> QED
      BY <1>3, <3>1
  <2> QED
    BY <1>2, <1>3, <2>1 DEF Holds
<1>6. ASSUME NEW offset, NEW part, Len(part) \in Nat, Holds(p, offset, part)
      PROVE  Holds(p \o e, offset, part)
  <2>1. offset \in Nat /\ offset + Len(part) <= Len(p)
        /\ \A i \in 1..Len(part) : p[offset + i] = part[i]
    BY <1>6 DEF Holds
  <2>2. ASSUME NEW i \in 1..Len(part) PROVE (p \o e)[offset + i] = part[i]
    <3>1. offset + i \in 1..(Len(p) + Len(e)) /\ offset + i <= Len(p)
      BY <1>2, <1>6, <2>1
    <3> QED
      BY <1>3, <2>1, <3>1
  <2>3. offset + Len(part) <= Len(p \o e)
    BY <1>2, <1>3, <1>6, <2>1
  <2> QED
    BY <2>1, <2>2, <2>3 DEF Holds
<1> QED
  BY <1>3, <1>4, <1>5, <1>6

LEMMA SliceIs ==
  ASSUME NEW p, NEW e, IsSequence(p), IsSequence(e), NEW offset, Holds(p, offset, e)
  PROVE  SubSeq(p, offset + 1, offset + Len(e)) = e
<1> DEFINE S == {e[i] : i \in 1..Len(e)}
           m == offset + 1
           n == offset + Len(e)
           t == SubSeq(p, m, n)
<1>1. e \in Seq(S) /\ Len(e) \in Nat /\ \A i \in 1..Len(e) : e[i] \in S
  BY SequenceIs
<1>2. offset \in Nat /\ \A i \in 1..Len(e) : p[offset + i] = e[i]
  BY DEF Holds
<1> HIDE DEF S
<1>3. \A j \in m..n : p[j] \in S
  <2> TAKE j \in m..n
  <2>1. j - offset \in 1..Len(e) /\ offset + (j - offset) = j
    BY <1>1, <1>2
  <2> QED
    BY <1>1, <1>2, <2>1
<1>4. m \in Int /\ n \in Int /\ m = offset + 1 /\ n = offset + Len(e)
  BY <1>1, <1>2
<1> HIDE DEF m, n
<1>5. /\ t \in Seq(S)
      /\ Len(t) = IF m <= n THEN n - m + 1 ELSE 0
      /\ \A i \in 1..(n - m + 1) : t[i] = p[m + i - 1]
  BY <1>3, <1>4, SubSeqProperties
<1> HIDE DEF t
<1>6. Len(t) = Len(e)
  BY <1>1, <1>2, <1>4, <1>5
<1>7. ASSUME NEW i \in 1..Len(t) PROVE t[i] = e[i]
  <2>1. i \in 1..(n - m + 1) /\ m + i - 1 = offset + i /\ i \in 1..Len(e)
    BY <1>1, <1>2, <1>4, <1>6
  <2> QED
    BY <1>2, <1>5, <2>1
<1>8. t = e
  BY <1>1, <1>5, <1>6, <1>7, SeqEqual
<1> QED
  BY <1>8 DEF t, m, n

-----------------------------------------------------------------------------
(* Restores of packings.                                                   *)

LEMMA BucketIdsDiffer == \A b, d : BucketId(b) = BucketId(d) => b = d
  BY DEF BucketId

LEMMA EnvelopeParts ==
  ASSUME SealsHold, NEW wire, NEW id, NEW c, IsEnvelope(wire, id, c)
  PROVE  /\ IsSequence(wire) /\ Len(wire) \in Nat \ {0}
         /\ \A i \in 1..Len(wire) : wire[i][1][2] = id
<1>1. PICK s \in DOMAIN sealed : s[2] = id /\ wire = WireOf(s)
  BY DEF IsEnvelope
<1>2. IsSequence(wire) /\ Len(wire) \in Nat \ {0} /\ DOMAIN wire = 1..Len(wire)
  BY <1>1, EnvelopeIs, SequenceIs
<1>3. wire = [i \in 1..Length(sealed[s]) |-> <<s, i>>]
  BY <1>1 DEF WireOf, Wire
<1>4. \A i \in DOMAIN wire : wire[i][1] = s
  BY <1>3
<1> QED
  BY <1>1, <1>2, <1>4

(* No two extents overlap: a byte belongs to one envelope.                 *)
LEMMA LaidOutIsValid ==
  ASSUME SealsHold, NEW R, NEW hashes, Grouping(R, hashes), NEW X, LaidOut(X, hashes)
  PROVE  ValidateExtents(X)
<1>1. ASSUME NEW v \in X
      PROVE  /\ v.shardId \in DOMAIN hashes /\ v.offset \in Nat /\ v.length \in Nat \ {0}
             /\ v.length = Len(hashes[v.shardId])
             /\ Holds(v.packCiphertextHash, v.offset, hashes[v.shardId])
             /\ \A i \in 1..Len(hashes[v.shardId]) : hashes[v.shardId][i][1][2] = BucketId(v.shardId)
  <2>1. v.shardId \in DOMAIN hashes /\ v.length = Len(hashes[v.shardId])
        /\ Holds(v.packCiphertextHash, v.offset, hashes[v.shardId])
    BY DEF LaidOut
  <2>2. IsEnvelope(hashes[v.shardId], BucketId(v.shardId), BucketContent(v.shardId, InBucket(R, v.shardId)))
    BY <2>1 DEF Grouping
  <2>3. Len(hashes[v.shardId]) \in Nat \ {0}
        /\ \A i \in 1..Len(hashes[v.shardId]) : hashes[v.shardId][i][1][2] = BucketId(v.shardId)
    BY <2>2, EnvelopeParts
  <2> QED
    BY <2>1, <2>3 DEF Holds
<1>2. ASSUME NEW v \in X, NEW z \in X, v # z PROVE v.shardId # z.shardId
  BY <1>2 DEF LaidOut
<1>3. ASSUME NEW v \in X, NEW k \in Nat, v.offset < k, k <= v.offset + v.length
      PROVE  v.packCiphertextHash[k][1][2] = BucketId(v.shardId)
  <2>1. k - v.offset \in 1..Len(hashes[v.shardId]) /\ v.offset + (k - v.offset) = k
    BY <1>1, <1>3
  <2>2. v.packCiphertextHash[k] = hashes[v.shardId][k - v.offset]
    BY <1>1, <2>1 DEF Holds
  <2> QED
    BY <1>1, <2>1, <2>2
<1>4. ASSUME NEW v \in X, NEW z \in X, v # z, Overlap(v, z) PROVE FALSE
  <2>1. /\ v.packCiphertextHash = z.packCiphertextHash
        /\ v.offset < z.offset + z.length /\ z.offset < v.offset + v.length
    BY <1>4 DEF Overlap
  <2>2. /\ v.offset \in Nat /\ v.length \in Nat \ {0} /\ z.offset \in Nat /\ z.length \in Nat \ {0}
    BY <1>1
  <2>3. \E k \in Nat : v.offset < k /\ k <= v.offset + v.length /\ z.offset < k /\ k <= z.offset + z.length
    <3>1. CASE v.offset <= z.offset
      <4>1. z.offset + 1 \in Nat /\ v.offset < z.offset + 1 /\ z.offset + 1 <= v.offset + v.length
            /\ z.offset < z.offset + 1 /\ z.offset + 1 <= z.offset + z.length
        BY <2>1, <2>2, <3>1
      <4> QED
        BY <4>1
    <3>2. CASE ~(v.offset <= z.offset)
      <4>1. v.offset + 1 \in Nat /\ z.offset < v.offset + 1 /\ v.offset + 1 <= z.offset + z.length
            /\ v.offset < v.offset + 1 /\ v.offset + 1 <= v.offset + v.length
        BY <2>1, <2>2, <3>2
      <4> QED
        BY <4>1
    <3> QED
      BY <3>1, <3>2
  <2>4. PICK k \in Nat : v.offset < k /\ k <= v.offset + v.length /\ z.offset < k /\ k <= z.offset + z.length
    BY <2>3
  <2>5. BucketId(v.shardId) = BucketId(z.shardId)
    BY <1>3, <2>1, <2>4
  <2> QED
    BY <1>2, <1>4, <2>5, BucketIdsDiffer
<1>5. \A v \in X : v.offset >= 0 /\ v.length >= 0
  BY <1>1
<1> QED
  BY <1>2, <1>4, <1>5 DEF ValidateExtents

LEMMA ExtentIs ==
  ASSUME SealsHold, NEW R \in RecordSets, UniqueIds(R), NEW hashes, Grouping(R, hashes),
         NEW X, LaidOut(X, hashes), NEW v \in X
  PROVE  /\ \A packs : ExtentContent(packs, v) \subseteq {BucketContent(v.shardId, InBucket(R, v.shardId))}
         /\ ExtentContent({v.packCiphertextHash}, v) # {}
<1> DEFINE b == v.shardId
           c == BucketContent(b, InBucket(R, b))
           p == v.packCiphertextHash
           Env(packs) == {bytes \in Slices(packs, v) : bytes = v.envelopeCiphertextHash}
<1>1. /\ b \in DOMAIN hashes /\ v.recordId = BucketId(b) /\ v.envelopeCiphertextHash = hashes[b]
      /\ v.length = Len(hashes[b]) /\ IsSequence(p) /\ Holds(p, v.offset, hashes[b])
  BY DEF LaidOut
<1>2. IsEnvelope(hashes[b], BucketId(b), c)
  BY <1>1 DEF Grouping
<1>3. b \in Buckets
  BY <1>1, GroupedAre DEF Grouping
<1>4. IsSequence(hashes[b])
  BY <1>2, EnvelopeParts
<1>5. \A packs : Env(packs) \in SUBSET {hashes[b]}
  BY <1>1
<1>6. ASSUME NEW packs
      PROVE  /\ ExtentContent(packs, v) \subseteq {c}
             /\ Env(packs) # {} => ExtentContent(packs, v) = {c}
  <2>1. ExtentContent(packs, v) = Assembled(Env(packs), BucketId(b), b)
    BY <1>1, <1>3 DEF ExtentContent
  <2> HIDE DEF Env, c
  <2>2. /\ Assembled(Env(packs), BucketId(b), b) \subseteq {c}
        /\ Env(packs) # {} => Assembled(Env(packs), BucketId(b), b) = {c}
    BY <1>2, <1>5, BucketAssembles DEF c
  <2> QED
    BY <2>1, <2>2
<1>7. Env({p}) # {}
  <2>1. SubSeq(p, v.offset + 1, v.offset + Len(hashes[b])) = hashes[b]
    BY <1>1, <1>4, SliceIs
  <2>2. v.offset + v.length <= Len(p)
    BY <1>1 DEF Holds
  <2>3. SubSeq(p, v.offset + 1, v.offset + v.length) \in Slices({p}, v)
    BY <2>2 DEF Slices
  <2> QED
    BY <1>1, <2>1, <2>3
<1> HIDE DEF Env
<1> QED
  BY <1>6, <1>7

(* A packing's manifest, under the store's own checks or as a kept wire.   *)
LEMMA ManifestIs ==
  ASSUME SealsHold, NEW R \in RecordSets, UniqueIds(R), NEW hashes, Grouping(R, hashes),
         NEW hash, NEW c, c.kind = "extent", LaidOut(c.extents, hashes), IsEnvelope(hash, ExtentId, c),
         NEW wires
  PROVE  /\ Manifests(wires, hash) \subseteq {c}
         /\ hash \in wires => Manifests(wires, hash) = {c}
<1> DEFINE W == {w \in wires : w = hash}
<1>1. W \in SUBSET {hash} /\ (hash \in wires => W # {})
  OBVIOUS
<1>2. Manifests(wires, hash) = {d \in Opened(W, ExtentId) : d.kind = "extent" /\ ValidateExtents(d.extents)}
  BY DEF Manifests
<1> HIDE DEF W
<1>3. Opened(W, ExtentId) \subseteq {c} /\ (W # {} => Opened(W, ExtentId) = {c})
  BY <1>1, OpensAs
<1>4. ValidateExtents(c.extents)
  BY LaidOutIsValid
<1> QED
  BY <1>1, <1>2, <1>3, <1>4

LEMMA FullRestoreIs ==
  ASSUME SealsHold, NEW R \in RecordSets, UniqueIds(R), NEW hashes, Grouping(R, hashes),
         NEW hash, NEW c, c.kind = "extent", LaidOut(c.extents, hashes), IsEnvelope(hash, ExtentId, c)
  PROVE  /\ PackedFullRestore(hash) \in {Rejected, Restored(R)}
         /\ /\ GetChecked(hash) # {}
            /\ \A v \in c.extents : GetChecked(v.packCiphertextHash) = {v.packCiphertextHash}
            => PackedFullRestore(hash) = Restored(R)
<1> DEFINE all == UNION {k.records : k \in UNION {UNION {FullContent(v) : v \in d.extents} : d \in Found(hash)}}
<1>1. PackedFullRestore(hash) = IF Found(hash) # {} /\ UniqueIds(all) THEN Restored(all) ELSE Rejected
  BY PackedRestoreIs
<1>2. \A v \in c.extents : FullContent(v) \subseteq {BucketContent(v.shardId, InBucket(R, v.shardId))}
  BY ExtentIs DEF FullContent
<1>3. Found(hash) \subseteq {c} /\ (Found(hash) # {} => \A v \in c.extents : FullContent(v) # {})
  BY ManifestIs DEF Found
<1>4. ASSUME Found(hash) # {} PROVE all = R
  <2>1. Found(hash) = {c} /\ \A v \in c.extents : FullContent(v) = {BucketContent(v.shardId, InBucket(R, v.shardId))}
    BY <1>2, <1>3, <1>4
  <2>2. \A k : k \in UNION {UNION {FullContent(v) : v \in d.extents} : d \in Found(hash)}
                <=> \E v \in c.extents : k \in FullContent(v)
    BY <2>1
  <2>3. \A r : r \in all <=> \E v \in c.extents : \E k \in FullContent(v) : r \in k.records
    BY <2>2
  <2> HIDE DEF all
  <2>4. \A b : BucketContent(b, InBucket(R, b)).records = InBucket(R, b)
    BY DEF BucketContent
  <2>5. \A r : r \in all <=> \E v \in c.extents : r \in InBucket(R, v.shardId)
    BY <2>1, <2>3, <2>4
  <2>6. \A b : b \in Grouped(R) <=> \E v \in c.extents : v.shardId = b
    BY DEF LaidOut, Grouping
  <2>7. ASSUME NEW r \in R PROVE r \in all
    <3>1. BucketOf[r.id] \in Grouped(R) /\ r \in InBucket(R, BucketOf[r.id])
      BY GroupedAre
    <3>2. PICK v \in c.extents : v.shardId = BucketOf[r.id]
      BY <2>6, <3>1
    <3> QED
      BY <2>5, <3>1, <3>2
  <2>8. \A r \in all : r \in R
    BY <2>5 DEF InBucket
  <2> QED
    BY <2>7, <2>8
<1>5. ASSUME GetChecked(hash) # {},
             \A v \in c.extents : GetChecked(v.packCiphertextHash) = {v.packCiphertextHash}
      PROVE  Found(hash) # {}
  <2>1. hash \in GetChecked(hash)
    BY <1>5, CheckedIs
  <2>2. Manifests(GetChecked(hash), hash) = {c}
    BY <2>1, ManifestIs
  <2>3. \A v \in c.extents : FullContent(v) # {}
    BY <1>5, ExtentIs DEF FullContent
  <2> QED
    BY <2>2, <2>3 DEF Found
<1> HIDE DEF all
<1> QED
  BY <1>1, <1>4, <1>5

LEMMA RangeIs ==
  ASSUME SealsHold, NEW R \in RecordSets, UniqueIds(R), NEW hashes, Grouping(R, hashes),
         NEW hash, NEW c, c.kind = "extent", LaidOut(c.extents, hashes), IsEnvelope(hash, ExtentId, c),
         NEW wires, NEW b
  PROVE  /\ PackedRangeRestore(hash, b, wires) \in {Rejected, Restored(InBucket(R, b))}
         /\ /\ hash \in wires /\ b \in DOMAIN hashes
            /\ \A v \in c.extents : Get(v.packCiphertextHash) = {v.packCiphertextHash}
            => PackedRangeRestore(hash, b, wires) = Restored(InBucket(R, b))
<1> DEFINE part == RangeFound(hash, b, wires)
           k == BucketContent(b, InBucket(R, b))
<1>1. PackedRangeRestore(hash, b, wires) =
        IF part # {} THEN Restored(UNION {x.records : x \in part}) ELSE Rejected
  BY RangeRestoreIs
<1>2. Manifests(wires, hash) \subseteq {c} /\ (hash \in wires => Manifests(wires, hash) = {c})
  BY ManifestIs
<1>3. \A x : x \in part <=> \E d \in Manifests(wires, hash) : \E v \in d.extents : v.shardId = b /\ x \in RangeContent(v)
  BY DEF RangeFound
<1>4. \A v \in c.extents : v.shardId = b => RangeContent(v) \subseteq {k}
  BY ExtentIs DEF RangeContent
<1> HIDE DEF part
<1>5. part \subseteq {k}
  BY <1>2, <1>3, <1>4
<1>6. k.records = InBucket(R, b)
  BY DEF BucketContent
<1> HIDE DEF k
<1>7. part # {} => UNION {x.records : x \in part} = InBucket(R, b)
  BY <1>5, <1>6
<1>8. ASSUME hash \in wires, b \in DOMAIN hashes,
             \A v \in c.extents : Get(v.packCiphertextHash) = {v.packCiphertextHash}
      PROVE  part # {}
  <2>1. PICK v \in c.extents : v.shardId = b
    BY <1>8 DEF LaidOut
  <2>2. RangeContent(v) # {}
    BY <1>8, ExtentIs DEF RangeContent
  <2> QED
    BY <1>2, <1>3, <1>8, <2>1, <2>2
<1> QED
  BY <1>1, <1>7, <1>8

LEMMA PackingRestores ==
  ASSUME LayoutInv, NEW p \in packings
  PROVE  /\ PackedFullRestore(p.manifestHash) \in {Rejected, Restored(p.revision.records)}
         /\ \A b, wires : PackedRangeRestore(p.manifestHash, b, wires)
                            \in {Rejected, Restored(InBucket(p.revision.records, b))}
         /\ faults = 0 =>
              /\ PackedFullRestore(p.manifestHash) = Restored(p.revision.records)
              /\ \A b \in DOMAIN p.revision.hashes :
                   ColdRangeRestore(p.manifestHash, b) = Restored(InBucket(p.revision.records, b))
<1> DEFINE R == p.revision.records
           hashes == p.revision.hashes
           hash == p.manifestHash
<1>1. SealsHold /\ StoreHolds /\ PackingHolds(p)
  BY DEF LayoutInv
<1>2. PICK s \in DOMAIN sealed :
        /\ s[2] = ExtentId /\ hash = WireOf(s) /\ sealed[s].kind = "extent"
        /\ LaidOut(sealed[s].extents, hashes)
        /\ faults = 0 => {v.packCiphertextHash : v \in sealed[s].extents} \subseteq DOMAIN objects
  BY <1>1 DEF PackingHolds
<1> DEFINE c == sealed[s]
<1>3. R \in RecordSets /\ UniqueIds(R) /\ Grouping(R, hashes)
  <2>1. RevisionHolds(p.revision) /\ p.revision.layout = "sharded"
    BY <1>1 DEF LayoutInv, PackingHolds
  <2> QED
    BY <2>1 DEF RevisionHolds, Grouping
<1>4. IsEnvelope(hash, ExtentId, c)
  BY <1>2 DEF IsEnvelope
<1>5. ASSUME faults = 0
      PROVE  /\ GetChecked(hash) # {} /\ hash \in GetChecked(hash)
             /\ \A v \in c.extents : GetChecked(v.packCiphertextHash) = {v.packCiphertextHash}
                                     /\ Get(v.packCiphertextHash) = {v.packCiphertextHash}
  <2>1. GetChecked(hash) # {}
    BY <1>1, <1>4, <1>5, Present
  <2>2. \A v \in c.extents : v.packCiphertextHash \in DOMAIN objects /\ objects[v.packCiphertextHash] = v.packCiphertextHash
    BY <1>1, <1>2, <1>5 DEF StoreHolds
  <2> QED
    BY <2>1, <2>2, CheckedIs
<1>6. c.kind = "extent" /\ LaidOut(c.extents, hashes)
  BY <1>2
<1> HIDE DEF R, hashes, hash, c
<1>7. PackedFullRestore(hash) \in {Rejected, Restored(R)} /\ (faults = 0 => PackedFullRestore(hash) = Restored(R))
  BY <1>1, <1>3, <1>4, <1>5, <1>6, FullRestoreIs
<1>8. \A b, wires : PackedRangeRestore(hash, b, wires) \in {Rejected, Restored(InBucket(R, b))}
  BY <1>1, <1>3, <1>4, <1>6, RangeIs
<1>9. faults = 0 => \A b \in DOMAIN hashes : ColdRangeRestore(hash, b) = Restored(InBucket(R, b))
  BY <1>1, <1>3, <1>4, <1>5, <1>6, RangeIs DEF ColdRangeRestore
<1> QED
  BY <1>7, <1>8, <1>9 DEF R, hashes, hash

(* The invariant gives what the runs check.                                *)
LEMMA InvRestores == LayoutInv => RestoresWhole /\ CommittedRestores
  BY RevisionRestores, PackingRestores
     DEF RestoresWhole, RevisionsRestoreWhole, PackingsRestoreWhole, CommittedRestores

-----------------------------------------------------------------------------
(* What packShards lays out.                                               *)

LEMMA MaxOf ==
  ASSUME NEW S, S \subseteq Nat, IsFiniteSet(S), S # {}
  PROVE  Max(S) \in S /\ \A y \in S : Max(S) >= y
<1> DEFINE Less == {z \in S \X S : z[1] > z[2]}
<1>1. \A x, y \in S : <<x, y>> \in Less <=> x > y
  OBVIOUS
<1> HIDE DEF Less
<1>2. \A x \in S : <<x, x>> \notin Less
  BY <1>1
<1>3. \A x, y, z \in S : <<x, y>> \in Less /\ <<y, z>> \in Less => <<x, z>> \in Less
  BY <1>1
<1>4. PICK m \in S : \A x \in S : <<x, m>> \notin Less
  BY <1>2, <1>3, Minimal
<1>5. \A x \in S : m >= x
  <2> TAKE x \in S
  <2>1. x \in Nat /\ m \in Nat /\ ~(x > m)
    BY <1>1, <1>4
  <2> QED
    BY <2>1
<1> QED
  BY <1>5 DEF Max

\* One step of the packing loop: the last of the buckets S, after the others.
LoopStep(f, S, hashes, target) ==
  IF S = {} THEN NothingPacked
  ELSE AddEnvelope(f[S \ {Max(S)}], Max(S), hashes[Max(S)], target)

\* f is the packing state after each of the sets of buckets up to a size.
LoopsUpto(n, f, B, hashes, target) ==
  /\ f = [S \in SUBSET B |-> f[S]]
  /\ \A S \in SUBSET B : Cardinality(S) <= n => f[S] = LoopStep(f, S, hashes, target)

LEMMA SmallerSet ==
  ASSUME NEW B, B \subseteq Nat, IsFiniteSet(B), NEW S \in SUBSET B, S # {}
  PROVE  /\ Max(S) \in S /\ S \ {Max(S)} \in SUBSET B
         /\ Cardinality(S) \in Nat /\ Cardinality(S \ {Max(S)}) = Cardinality(S) - 1
<1>1. IsFiniteSet(S) /\ Cardinality(S) \in Nat
  BY FS_Subset, FS_CardinalityType
<1>2. Max(S) \in S
  BY <1>1, MaxOf
<1>3. Cardinality(S \ {Max(S)}) = Cardinality(S) - 1
  BY <1>1, <1>2, FS_RemoveElement
<1> QED
  BY <1>1, <1>2, <1>3

LEMMA LoopExists ==
  ASSUME NEW B, B \subseteq Nat, IsFiniteSet(B), NEW hashes, NEW target
  PROVE  \A n \in Nat : \E f : LoopsUpto(n, f, B, hashes, target)
<1> DEFINE K == {n \in Nat : \E f : LoopsUpto(n, f, B, hashes, target)}
<1>1. 0 \in K
  <2> DEFINE f == [S \in SUBSET B |-> NothingPacked]
  <2>1. ASSUME NEW S \in SUBSET B, Cardinality(S) <= 0 PROVE S = {}
    <3> SUFFICES ASSUME S # {} PROVE FALSE
      OBVIOUS
    <3>1. PICK x \in S : TRUE
      OBVIOUS
    <3>2. Cardinality(S) \in Nat /\ IsFiniteSet(S) /\ Cardinality({x}) = 1
      BY FS_Subset, FS_CardinalityType, FS_Singleton
    <3>3. Cardinality({x}) <= Cardinality(S)
      BY <3>1, <3>2, FS_Subset
    <3> QED
      BY <2>1, <3>2, <3>3
  <2>2. LoopsUpto(0, f, B, hashes, target)
    BY <2>1 DEF LoopsUpto, LoopStep
  <2> QED
    BY <2>2
<1>2. ASSUME NEW n \in Nat, n \in K PROVE n + 1 \in K
  <2>1. PICK f : LoopsUpto(n, f, B, hashes, target)
    BY <1>2
  <2> DEFINE g == [S \in SUBSET B |-> IF Cardinality(S) = n + 1 THEN LoopStep(f, S, hashes, target) ELSE f[S]]
  <2>2. /\ g = [S \in SUBSET B |-> g[S]]
        /\ \A S \in SUBSET B : g[S] = IF Cardinality(S) = n + 1 THEN LoopStep(f, S, hashes, target) ELSE f[S]
    OBVIOUS
  <2> HIDE DEF g
  <2>3. ASSUME NEW S \in SUBSET B, Cardinality(S) <= n + 1
        PROVE  g[S] = LoopStep(g, S, hashes, target)
    <3>1. CASE S = {}
      <4>1. Cardinality(S) = 0
        BY <3>1, FS_EmptySet
      <4>2. Cardinality(S) <= n /\ Cardinality(S) # n + 1
        BY <4>1
      <4>3. f[S] = LoopStep(f, S, hashes, target) /\ g[S] = f[S]
        BY <2>1, <2>2, <4>2 DEF LoopsUpto
      <4> QED
        BY <3>1, <4>3 DEF LoopStep
    <3>2. CASE S # {}
      <4> DEFINE T == S \ {Max(S)}
      <4>1. T \in SUBSET B /\ Cardinality(S) \in Nat /\ Cardinality(T) = Cardinality(S) - 1
        BY <3>2, SmallerSet
      <4>2. Cardinality(T) # n + 1
        BY <2>3, <4>1
      <4>3. g[T] = f[T]
        BY <2>2, <4>1, <4>2
      <4>4. LoopStep(g, S, hashes, target) = LoopStep(f, S, hashes, target)
        BY <3>2, <4>3 DEF LoopStep
      <4>5. CASE Cardinality(S) = n + 1
        BY <2>2, <4>4, <4>5
      <4>6. CASE Cardinality(S) # n + 1
        <5>1. Cardinality(S) <= n
          BY <2>3, <4>1, <4>6
        <5>2. f[S] = LoopStep(f, S, hashes, target)
          BY <2>1, <5>1 DEF LoopsUpto
        <5> QED
          BY <2>2, <4>4, <4>6, <5>2
      <4> QED
        BY <4>5, <4>6
    <3> QED
      BY <3>1, <3>2
  <2>4. LoopsUpto(n + 1, g, B, hashes, target)
    BY <2>2, <2>3 DEF LoopsUpto
  <2> QED
    BY <2>4
<1> HIDE DEF K
<1>3. \A n \in Nat : n \in K
  BY <1>1, <1>2, Induct
<1> QED
  BY <1>3 DEF K

\* f is the packing state after each set of buckets.
Loops(f, B, hashes, target) ==
  f = [S \in SUBSET B |-> LoopStep(f, S, hashes, target)]

LEMMA PackedIs ==
  ASSUME NEW rev, NEW target, NEW B, B \subseteq Nat, IsFiniteSet(B)
  PROVE  \E f : Loops(f, B, rev.hashes, target) /\ Packed(rev, target, B) = f[B]
<1> DEFINE f == CHOOSE f : Loops(f, B, rev.hashes, target)
           n == Cardinality(B)
<1>1. n \in Nat /\ \A S \in SUBSET B : Cardinality(S) <= n
  BY FS_Subset, FS_CardinalityType
<1>2. PICK g : LoopsUpto(n, g, B, rev.hashes, target)
  BY <1>1, LoopExists
<1>3. g = [S \in SUBSET B |-> g[S]] /\ \A S \in SUBSET B : g[S] = LoopStep(g, S, rev.hashes, target)
  BY <1>1, <1>2 DEF LoopsUpto
<1>4. Loops(g, B, rev.hashes, target)
  BY <1>3 DEF Loops
<1>5. Loops(f, B, rev.hashes, target)
  BY <1>4
<1>6. Packed(rev, target, B) = f[B]
  BY DEF Packed, Loops, LoopStep
<1> QED
  BY <1>5, <1>6

\* An extent, laid out already or still in the buffer, of one of the buckets S.
Lays(v, bytes, S, hashes) ==
  /\ v.shardId \in S /\ v.recordId = BucketId(v.shardId)
  /\ v.envelopeCiphertextHash = hashes[v.shardId] /\ v.length = Len(hashes[v.shardId])
  /\ Holds(bytes, v.offset, hashes[v.shardId])

\* The loop of packShards between two buckets: what it took so far is in the buffer
\* or in a pack, once and where its extent says.
LoopInv(acc, S, hashes) ==
  /\ acc = [pieces |-> acc.pieces, pending |-> acc.pending, packs |-> acc.packs, extents |-> acc.extents]
  /\ IsSequence(acc.pieces)
  /\ \A x \in acc.pending : Lays(x, acc.pieces, S, hashes)
  /\ \A v \in acc.extents : /\ Lays(v, v.packCiphertextHash, S, hashes)
                            /\ IsSequence(v.packCiphertextHash) /\ v.packCiphertextHash \in acc.packs
  /\ \A b \in S : (\E x \in acc.pending : x.shardId = b) \/ (\E v \in acc.extents : v.shardId = b)
  /\ \A x, y \in acc.pending : x.shardId = y.shardId => x = y
  /\ \A v, z \in acc.extents : v.shardId = z.shardId => v = z
  /\ \A x \in acc.pending, v \in acc.extents : x.shardId # v.shardId

AreSequences(hashes, S) == \A b \in S : IsSequence(hashes[b]) /\ Len(hashes[b]) \in Nat \ {0}

LEMMA EmptyIsSequence == IsSequence(<<>>) /\ Len(<<>>) = 0
<1>1. <<>> \in Seq({})
  OBVIOUS
<1> QED
  BY <1>1, IsOne

FlushedExtent(x, pieces) ==
  [shardId |-> x.shardId, recordId |-> x.recordId, offset |-> x.offset, length |-> x.length,
   envelopeCiphertextHash |-> x.envelopeCiphertextHash, packCiphertextHash |-> pieces]

LEMMA FlushKeeps ==
  ASSUME NEW acc, NEW S, NEW hashes, AreSequences(hashes, S), LoopInv(acc, S, hashes)
  PROVE  LoopInv(Flush(acc), S, hashes) /\ Flush(acc).pieces = <<>> /\ Flush(acc).pending = {}
<1>1. CASE acc.pieces = <<>>
  <2>1. Flush(acc) = acc
    BY <1>1 DEF Flush
  <2>2. ASSUME NEW x \in acc.pending PROVE FALSE
    <3>1. x.shardId \in S /\ Holds(<<>>, x.offset, hashes[x.shardId])
      BY <1>1 DEF LoopInv, Lays
    <3>2. Len(hashes[x.shardId]) \in Nat \ {0}
      BY <3>1 DEF AreSequences
    <3>3. x.offset \in Nat /\ x.offset + Len(hashes[x.shardId]) <= 0
      BY <3>1, EmptyIsSequence DEF Holds
    <3> QED
      BY <3>2, <3>3
  <2> QED
    BY <1>1, <2>1, <2>2
<1>2. CASE acc.pieces # <<>>
  <2> DEFINE new == {FlushedExtent(x, acc.pieces) : x \in acc.pending}
             X == acc.extents \cup new
             P == acc.packs \cup {acc.pieces}
             f == Flush(acc)
  <2>1. f = [pieces |-> <<>>, pending |-> {}, packs |-> P, extents |-> X]
    BY <1>2 DEF Flush, FlushedExtent
  <2>2. f.pieces = <<>> /\ f.pending = {} /\ f.packs = P /\ f.extents = X
        /\ f = [pieces |-> f.pieces, pending |-> f.pending, packs |-> f.packs, extents |-> f.extents]
    BY <2>1
  <2>3. ASSUME NEW x
        PROVE  /\ FlushedExtent(x, acc.pieces).shardId = x.shardId
               /\ FlushedExtent(x, acc.pieces).packCiphertextHash = acc.pieces
               /\ \A bytes : Lays(FlushedExtent(x, acc.pieces), bytes, S, hashes) <=> Lays(x, bytes, S, hashes)
    BY DEF FlushedExtent, Lays
  <2>4. \A v : v \in new <=> \E x \in acc.pending : v = FlushedExtent(x, acc.pieces)
    OBVIOUS
  <2>5. \A v : v \in X <=> v \in acc.extents \/ v \in new
    OBVIOUS
  <2>6. \A q : q \in P <=> q \in acc.packs \/ q = acc.pieces
    OBVIOUS
  <2> HIDE DEF new, X, P, f
  <2>7. ASSUME NEW v \in X
        PROVE  /\ Lays(v, v.packCiphertextHash, S, hashes)
               /\ IsSequence(v.packCiphertextHash) /\ v.packCiphertextHash \in P
    <3>1. CASE v \in acc.extents
      BY <2>6, <3>1 DEF LoopInv
    <3>2. CASE v \in new
      <4>1. PICK x \in acc.pending : v = FlushedExtent(x, acc.pieces)
        BY <2>4, <3>2
      <4>2. Lays(x, acc.pieces, S, hashes) /\ IsSequence(acc.pieces)
        BY DEF LoopInv
      <4> QED
        BY <2>3, <2>6, <4>1, <4>2
    <3> QED
      BY <2>5, <3>1, <3>2
  <2>8. \A b \in S : \E v \in X : v.shardId = b
    <3> TAKE b \in S
    <3>1. CASE \E x \in acc.pending : x.shardId = b
      BY <2>3, <2>4, <2>5, <3>1
    <3>2. CASE \E v \in acc.extents : v.shardId = b
      BY <2>5, <3>2
    <3> QED
      BY <3>1, <3>2 DEF LoopInv
  <2>9. ASSUME NEW v \in X, NEW z \in X, v.shardId = z.shardId PROVE v = z
    <3>1. CASE v \in acc.extents /\ z \in acc.extents
      BY <2>9, <3>1 DEF LoopInv
    <3>2. CASE v \in new /\ z \in new
      <4>1. PICK x \in acc.pending : v = FlushedExtent(x, acc.pieces)
        BY <2>4, <3>2
      <4>2. PICK y \in acc.pending : z = FlushedExtent(y, acc.pieces)
        BY <2>4, <3>2
      <4>3. x.shardId = y.shardId
        BY <2>3, <2>9, <4>1, <4>2
      <4>4. x = y
        BY <4>3 DEF LoopInv
      <4> QED
        BY <4>1, <4>2, <4>4
    <3>3. CASE v \in acc.extents /\ z \in new
      BY <2>3, <2>4, <2>9, <3>3 DEF LoopInv
    <3>4. CASE v \in new /\ z \in acc.extents
      BY <2>3, <2>4, <2>9, <3>4 DEF LoopInv
    <3> QED
      BY <2>5, <3>1, <3>2, <3>3, <3>4
  <2>10. LoopInv(f, S, hashes)
    BY <2>2, <2>7, <2>8, <2>9, EmptyIsSequence DEF LoopInv
  <2> QED
    BY <2>2, <2>10 DEF f
<1> QED
  BY <1>1, <1>2

Buffered(b, env, pieces) ==
  [shardId |-> b, recordId |-> BucketId(b), offset |-> Len(pieces), length |-> Len(env),
   envelopeCiphertextHash |-> env]

LEMMA AddKeeps ==
  ASSUME NEW acc, NEW S, NEW b, b \notin S, NEW hashes, NEW target,
         AreSequences(hashes, S \cup {b}), LoopInv(acc, S, hashes)
  PROVE  LoopInv(AddEnvelope(acc, b, hashes[b], target), S \cup {b}, hashes)
<1> DEFINE env == hashes[b]
           full == acc.pieces # <<>> /\ Len(acc.pieces) + Len(env) > target
           base == IF full THEN Flush(acc) ELSE acc
           next == AddEnvelope(acc, b, env, target)
           T == S \cup {b}
           y == Buffered(b, env, base.pieces)
           p == base.pieces \o env
           Q == base.pending \cup {y}
<1>1. AreSequences(hashes, S)
  BY DEF AreSequences
<1>2. LoopInv(base, S, hashes)
  BY <1>1, FlushKeeps
<1>3. next = [base EXCEPT !.pending = @ \cup {y}, !.pieces = @ \o env]
  BY DEF AddEnvelope, Buffered
<1>4. IsSequence(env) /\ Len(env) \in Nat \ {0} /\ IsSequence(base.pieces)
  BY <1>2 DEF AreSequences, LoopInv
<1> HIDE DEF base, full, next
<1>5. base = [pieces |-> base.pieces, pending |-> base.pending, packs |-> base.packs, extents |-> base.extents]
  BY <1>2 DEF LoopInv
<1>6. next = [pieces |-> p, pending |-> Q, packs |-> base.packs, extents |-> base.extents]
  BY <1>3, <1>5
<1>7. /\ next.pieces = p /\ next.pending = Q /\ next.packs = base.packs /\ next.extents = base.extents
      /\ next = [pieces |-> next.pieces, pending |-> next.pending, packs |-> next.packs, extents |-> next.extents]
  BY <1>6
<1>8. IsSequence(p) /\ Holds(p, Len(base.pieces), env)
      /\ \A offset, part : Len(part) \in Nat /\ Holds(base.pieces, offset, part) => Holds(p, offset, part)
  BY <1>4, Appended
<1>9. /\ y.shardId = b /\ y.recordId = BucketId(b) /\ y.offset = Len(base.pieces) /\ y.length = Len(env)
      /\ y.envelopeCiphertextHash = env
  BY DEF Buffered
<1>10. \A x : x \in Q <=> x \in base.pending \/ x = y
  OBVIOUS
<1>11. \A d : d \in T <=> d \in S \/ d = b
  OBVIOUS
<1>12. Lays(y, p, T, hashes)
  BY <1>8, <1>9 DEF Lays
<1> HIDE DEF y, p, Q, T
<1>13. ASSUME NEW v, NEW bytes, Lays(v, bytes, S, hashes)
       PROVE  Lays(v, bytes, T, hashes) /\ v.shardId \in S /\ v.shardId # b
  BY <1>11, <1>13 DEF Lays
<1>14. ASSUME NEW x \in Q PROVE Lays(x, p, T, hashes)
  <2>1. CASE x \in base.pending
    <3>1. Lays(x, base.pieces, S, hashes)
      BY <1>2, <2>1 DEF LoopInv
    <3>2. Len(hashes[x.shardId]) \in Nat
      BY <1>1, <3>1 DEF Lays, AreSequences
    <3>3. Lays(x, p, S, hashes)
      BY <1>8, <3>1, <3>2 DEF Lays
    <3> QED
      BY <1>13, <3>3
  <2> QED
    BY <1>10, <1>12, <2>1
<1>15. \A v \in base.extents : /\ Lays(v, v.packCiphertextHash, T, hashes)
                               /\ IsSequence(v.packCiphertextHash) /\ v.packCiphertextHash \in base.packs
                               /\ v.shardId # b
  BY <1>2, <1>13 DEF LoopInv
<1>16. \A x \in base.pending : x.shardId # b
  BY <1>2, <1>13 DEF LoopInv
<1>17. ASSUME NEW d \in T
       PROVE  (\E x \in Q : x.shardId = d) \/ (\E v \in base.extents : v.shardId = d)
  <2>1. CASE d = b
    BY <1>9, <1>10, <2>1
  <2>2. CASE d \in S
    BY <1>2, <1>10, <2>2 DEF LoopInv
  <2> QED
    BY <1>11, <2>1, <2>2
<1>18. \A x, z \in Q : x.shardId = z.shardId => x = z
  BY <1>2, <1>9, <1>10, <1>16 DEF LoopInv
<1>19. \A x \in Q, v \in base.extents : x.shardId # v.shardId
  BY <1>2, <1>9, <1>10, <1>15 DEF LoopInv
<1>20. \A v, z \in base.extents : v.shardId = z.shardId => v = z
  BY <1>2 DEF LoopInv
<1>21. LoopInv(next, T, hashes)
  BY <1>7, <1>8, <1>14, <1>15, <1>17, <1>18, <1>19, <1>20 DEF LoopInv
<1> QED
  BY <1>21 DEF next, T

LEMMA NothingIsPacked ==
  ASSUME NEW hashes
  PROVE  LoopInv(NothingPacked, {}, hashes)
  BY EmptyIsSequence DEF LoopInv, NothingPacked

LEMMA LoopKeeps ==
  ASSUME NEW B, B \subseteq Nat, IsFiniteSet(B), NEW hashes, AreSequences(hashes, B), NEW target,
         NEW f, Loops(f, B, hashes, target)
  PROVE  LoopInv(f[B], B, hashes)
<1> DEFINE K == {n \in Nat : \A S \in SUBSET B : Cardinality(S) = n => LoopInv(f[S], S, hashes)}
<1>0. \A S \in SUBSET B : f[S] = LoopStep(f, S, hashes, target)
  BY DEF Loops
<1>1. ASSUME NEW S \in SUBSET B, S = {} PROVE LoopInv(f[S], S, hashes)
  <2>1. f[S] = NothingPacked
    BY <1>0, <1>1 DEF LoopStep
  <2> QED
    BY <1>1, <2>1, NothingIsPacked
<1>2. ASSUME NEW S \in SUBSET B, S # {}, LoopInv(f[S \ {Max(S)}], S \ {Max(S)}, hashes)
      PROVE  LoopInv(f[S], S, hashes)
  <2> DEFINE b == Max(S)
             T == S \ {b}
  <2>1. b \in S
    BY <1>2, SmallerSet
  <2>2. f[S] = AddEnvelope(f[T], b, hashes[b], target)
    BY <1>0, <1>2 DEF LoopStep
  <2>3. LoopInv(f[T], T, hashes)
    BY <1>2
  <2> HIDE DEF b
  <2>4. b \notin T /\ T \cup {b} = S
    BY <2>1
  <2>5. AreSequences(hashes, T \cup {b})
    BY <2>4 DEF AreSequences
  <2> DEFINE acc == f[T]
  <2> HIDE DEF T, acc
  <2>6. LoopInv(acc, T, hashes)
    BY <2>3 DEF acc
  <2>7. LoopInv(AddEnvelope(acc, b, hashes[b], target), T \cup {b}, hashes)
    BY <2>4, <2>5, <2>6, AddKeeps
  <2>8. f[S] = AddEnvelope(acc, b, hashes[b], target)
    BY <2>2 DEF acc
  <2> QED
    BY <2>4, <2>7, <2>8
<1>3. 0 \in K
  <2>1. \A S \in SUBSET B : S # {} => Cardinality(S \ {Max(S)}) \in Nat /\ Cardinality(S) # 0
    <3> TAKE S \in SUBSET B
    <3> HAVE S # {}
    <3>1. IsFiniteSet(S \ {Max(S)})
      BY FS_Subset
    <3>2. Cardinality(S \ {Max(S)}) \in Nat /\ Cardinality(S \ {Max(S)}) = Cardinality(S) - 1 /\ Cardinality(S) \in Nat
      BY <3>1, SmallerSet, FS_CardinalityType
    <3> QED
      BY <3>2
  <2> QED
    BY <1>1, <2>1
<1>4. ASSUME NEW n \in Nat, n \in K PROVE n + 1 \in K
  <2> SUFFICES ASSUME NEW S \in SUBSET B, Cardinality(S) = n + 1 PROVE LoopInv(f[S], S, hashes)
    OBVIOUS
  <2>1. CASE S = {}
    BY <1>1, <2>1
  <2>2. CASE S # {}
    <3> DEFINE T == S \ {Max(S)}
    <3>1. T \in SUBSET B /\ Cardinality(T) = Cardinality(S) - 1
      BY <2>2, SmallerSet
    <3> HIDE DEF T
    <3>2. Cardinality(T) = n
      BY <3>1
    <3>3. LoopInv(f[T], T, hashes)
      BY <1>4, <3>1, <3>2
    <3> QED
      BY <1>2, <2>2, <3>3 DEF T
  <2> QED
    BY <2>1, <2>2
<1> HIDE DEF K
<1>5. \A n \in Nat : n \in K
  BY <1>3, <1>4, Induct
<1>6. Cardinality(B) \in Nat
  BY FS_CardinalityType
<1> QED
  BY <1>5, <1>6 DEF K

LEMMA PackingLaysOut ==
  ASSUME NEW rev, NEW target, DOMAIN rev.hashes \subseteq Nat, IsFiniteSet(DOMAIN rev.hashes),
         AreSequences(rev.hashes, DOMAIN rev.hashes)
  PROVE  LET done == Flush(Packed(rev, target, DOMAIN rev.hashes))
         IN  LaidOut(done.extents, rev.hashes) /\ {v.packCiphertextHash : v \in done.extents} \subseteq done.packs
<1> DEFINE B == DOMAIN rev.hashes
           done == Flush(Packed(rev, target, B))
<1>1. PICK f : Loops(f, B, rev.hashes, target) /\ Packed(rev, target, B) = f[B]
  BY PackedIs
<1>2. LoopInv(Packed(rev, target, B), B, rev.hashes)
  BY <1>1, LoopKeeps
<1>3. LoopInv(done, B, rev.hashes) /\ done.pending = {}
  BY <1>2, FlushKeeps
<1> HIDE DEF done
<1>4. \A v \in done.extents : Lays(v, v.packCiphertextHash, B, rev.hashes)
                              /\ IsSequence(v.packCiphertextHash) /\ v.packCiphertextHash \in done.packs
  BY <1>3 DEF LoopInv
<1>5. {v.shardId : v \in done.extents} = B
  BY <1>3, <1>4 DEF LoopInv, Lays
<1>6. \A v, z \in done.extents : v.shardId = z.shardId => v = z
  BY <1>3 DEF LoopInv
<1>7. LaidOut(done.extents, rev.hashes)
  BY <1>4, <1>5, <1>6 DEF LaidOut, Lays
<1> QED
  BY <1>4, <1>7 DEF done

-----------------------------------------------------------------------------
(* The invariant is inductive.                                             *)

\* A step forgets no seal, and loses bytes only by a fault.
Kept ==
  /\ DOMAIN sealed \subseteq DOMAIN sealed' /\ \A s \in DOMAIN sealed : sealed'[s] = sealed[s]
  /\ faults \in Nat /\ faults' \in Nat /\ (faults' = 0 => faults = 0 /\ DOMAIN objects \subseteq DOMAIN objects')

LEMMA EnvelopesKept ==
  ASSUME Kept
  PROVE  /\ \A s \in DOMAIN sealed : s \in DOMAIN sealed' /\ WireOf(s)' = WireOf(s)
         /\ \A wire, id, c : IsEnvelope(wire, id, c) => IsEnvelope(wire, id, c)'
<1>1. \A s \in DOMAIN sealed : s \in DOMAIN sealed' /\ sealed'[s] = sealed[s] /\ WireOf(s)' = WireOf(s)
  BY DEF Kept, WireOf
<1>2. ASSUME NEW wire, NEW id, NEW c, IsEnvelope(wire, id, c) PROVE IsEnvelope(wire, id, c)'
  <2>1. PICK s \in DOMAIN sealed : s[2] = id /\ sealed[s] = c /\ wire = WireOf(s)
    BY <1>2 DEF IsEnvelope
  <2>2. s \in DOMAIN sealed' /\ sealed'[s] = c /\ wire = WireOf(s)'
    BY <1>1, <2>1
  <2> QED
    BY <2>1, <2>2 DEF IsEnvelope
<1> QED
  BY <1>1, <1>2

LEMMA RevisionsKept ==
  ASSUME Kept, NEW rev, RevisionHolds(rev)
  PROVE  RevisionHolds(rev)'
<1>1. \A wire, id, c : IsEnvelope(wire, id, c) => IsEnvelope(wire, id, c)'
  BY EnvelopesKept
<1> QED
  BY <1>1 DEF RevisionHolds

LEMMA PackingsKept ==
  ASSUME Kept, revisions \subseteq revisions', NEW p, PackingHolds(p)
  PROVE  PackingHolds(p)'
<1>1. PICK s \in DOMAIN sealed :
        /\ s[2] = ExtentId /\ p.manifestHash = WireOf(s) /\ sealed[s].kind = "extent"
        /\ LaidOut(sealed[s].extents, p.revision.hashes)
        /\ faults = 0 => {v.packCiphertextHash : v \in sealed[s].extents} \subseteq DOMAIN objects
  BY DEF PackingHolds
<1>2. s \in DOMAIN sealed' /\ sealed'[s] = sealed[s] /\ WireOf(s)' = WireOf(s)
  BY EnvelopesKept DEF Kept
<1>3. faults' = 0 => {v.packCiphertextHash : v \in sealed[s].extents} \subseteq DOMAIN objects'
  BY <1>1 DEF Kept
<1>4. p.revision \in revisions' /\ p.revision.layout = "sharded"
  BY DEF PackingHolds
<1> QED
  BY <1>1, <1>2, <1>3, <1>4 DEF PackingHolds

LEMMA PutIs ==
  ASSUME NEW B, Put(B)
  PROVE  /\ DOMAIN objects' = DOMAIN objects \cup B
         /\ \A h \in DOMAIN objects' : objects'[h] = IF h \in B THEN h ELSE objects[h]
  BY DEF Put

LEMMA SealIs ==
  ASSUME SealsHold, NEW n, n = calls, NEW contents, Seal(contents)
  PROVE  /\ DOMAIN sealed \subseteq DOMAIN sealed' /\ \A s \in DOMAIN sealed : sealed'[s] = sealed[s]
         /\ \A r \in DOMAIN contents : /\ <<n, r>> \in DOMAIN sealed'
                                       /\ sealed'[<<n, r>>] = contents[r]
                                       /\ WireOf(<<n, r>>)' = Wire(<<n, r>>, contents[r])
         /\ \A s \in DOMAIN sealed' \ DOMAIN sealed : \E r \in DOMAIN contents : s = <<n, r>>
<1> DEFINE new == {<<n, r>> : r \in DOMAIN contents}
           D == DOMAIN sealed \cup new
<1>1. sealed' = [s \in D |-> IF s \in DOMAIN sealed THEN sealed[s] ELSE contents[s[2]]]
  BY DEF Seal
<1>2. \A r \in DOMAIN contents : <<n, r>> \in D /\ <<n, r>>[2] = r
  OBVIOUS
<1>3. \A s \in D \ DOMAIN sealed : \E r \in DOMAIN contents : s = <<n, r>>
  OBVIOUS
<1>4. DOMAIN sealed \subseteq D
  OBVIOUS
<1> HIDE DEF D
<1>5. DOMAIN sealed' = D /\ \A s \in D : sealed'[s] = IF s \in DOMAIN sealed THEN sealed[s] ELSE contents[s[2]]
  BY <1>1
<1>6. ASSUME NEW r \in DOMAIN contents PROVE <<n, r>> \notin DOMAIN sealed
  <2> SUFFICES ASSUME <<n, r>> \in DOMAIN sealed PROVE FALSE
    OBVIOUS
  <2>1. <<n, r>>[1] \in 0..(calls - 1) /\ calls \in Nat
    BY DEF SealsHold
  <2> QED
    BY <2>1
<1>7. ASSUME NEW r \in DOMAIN contents
      PROVE  <<n, r>> \in DOMAIN sealed' /\ sealed'[<<n, r>>] = contents[r]
  BY <1>2, <1>5, <1>6
<1> QED
  <2>1. ASSUME NEW r \in DOMAIN contents PROVE WireOf(<<n, r>>)' = Wire(<<n, r>>, contents[r])
    BY <1>7 DEF WireOf
  <2> QED
    BY <1>3, <1>4, <1>5, <1>7, <2>1

(* A call that seals contents and stores their envelopes, and maybe more.  *)
LEMMA SealWrites ==
  ASSUME LayoutInv, NEW n, n = calls, NEW contents, Seal(contents), NEW B, Put(B), UNCHANGED faults,
         \A r \in DOMAIN contents : /\ Length(contents[r]) \in Nat \ {0}
                                    /\ Wire(<<n, r>>, contents[r]) \in B
  PROVE  /\ SealsHold' /\ StoreHolds' /\ faults' \in Nat /\ Kept
         /\ \A r \in DOMAIN contents : IsEnvelope(Wire(<<n, r>>, contents[r]), r, contents[r])'
         /\ B \subseteq DOMAIN objects'
<1>1. SealsHold /\ StoreHolds /\ faults \in Nat /\ faults' = faults
  BY DEF LayoutInv
<1>2. /\ DOMAIN sealed \subseteq DOMAIN sealed' /\ \A s \in DOMAIN sealed : sealed'[s] = sealed[s]
      /\ \A r \in DOMAIN contents : /\ <<n, r>> \in DOMAIN sealed'
                                    /\ sealed'[<<n, r>>] = contents[r]
                                    /\ WireOf(<<n, r>>)' = Wire(<<n, r>>, contents[r])
      /\ \A s \in DOMAIN sealed' \ DOMAIN sealed : \E r \in DOMAIN contents : s = <<n, r>>
  BY <1>1, SealIs
<1>3. /\ DOMAIN objects' = DOMAIN objects \cup B
      /\ \A h \in DOMAIN objects' : objects'[h] = IF h \in B THEN h ELSE objects[h]
  BY PutIs
<1>4. Kept
  BY <1>1, <1>2, <1>3 DEF Kept
<1>5. SealsHold'
  <2>1. calls \in Nat /\ calls' = calls + 1
    BY <1>1 DEF Seal, SealsHold
  <2>2. ASSUME NEW s \in DOMAIN sealed' PROVE s[1] \in 0..(calls' - 1) /\ Length(sealed'[s]) \in Nat \ {0}
    <3>1. CASE s \in DOMAIN sealed
      <4>1. s[1] \in 0..(calls - 1) /\ Length(sealed[s]) \in Nat \ {0}
        BY <1>1, <3>1 DEF SealsHold
      <4> QED
        BY <1>2, <2>1, <3>1, <4>1
    <3>2. CASE s \notin DOMAIN sealed
      <4>1. PICK r \in DOMAIN contents : s = <<n, r>>
        BY <1>2, <3>2
      <4>2. s[1] = calls /\ sealed'[s] = contents[r]
        BY <1>2, <4>1
      <4>3. calls \in 0..(calls' - 1)
        BY <2>1
      <4> QED
        BY <4>1, <4>2, <4>3
    <3> QED
      BY <3>1, <3>2
  <2> QED
    BY <2>1, <2>2 DEF SealsHold
<1>6. StoreHolds'
  <2> SUFFICES ASSUME faults = 0
               PROVE  /\ \A h \in DOMAIN objects' : objects'[h] = h
                      /\ \A s \in DOMAIN sealed' : WireOf(s)' \in DOMAIN objects'
    BY <1>1 DEF StoreHolds
  <2>1. \A h \in DOMAIN objects' : objects'[h] = h
    BY <1>1, <1>3 DEF StoreHolds
  <2>2. ASSUME NEW s \in DOMAIN sealed' PROVE WireOf(s)' \in DOMAIN objects'
    <3>1. CASE s \in DOMAIN sealed
      <4>1. WireOf(s)' = WireOf(s)
        BY <1>4, <3>1, EnvelopesKept
      <4> QED
        BY <1>1, <1>3, <3>1, <4>1 DEF StoreHolds
    <3>2. CASE s \notin DOMAIN sealed
      <4>1. PICK r \in DOMAIN contents : s = <<n, r>>
        BY <1>2, <3>2
      <4> QED
        BY <1>2, <1>3, <4>1
    <3> QED
      BY <3>1, <3>2
  <2> QED
    BY <2>1, <2>2
<1>7. ASSUME NEW r \in DOMAIN contents PROVE IsEnvelope(Wire(<<n, r>>, contents[r]), r, contents[r])'
  <2> DEFINE s == <<n, r>>
             w == Wire(s, contents[r])
  <2>1. s \in DOMAIN sealed' /\ sealed'[s] = contents[r] /\ s[2] = r /\ WireOf(s)' = w
    BY <1>2
  <2>2. \E t \in DOMAIN sealed' : t[2] = r /\ sealed'[t] = contents[r] /\ w = WireOf(t)'
    BY <2>1
  <2> HIDE DEF s, w
  <2> QED
    BY <2>2 DEF IsEnvelope, s, w
<1> QED
  BY <1>1, <1>3, <1>4, <1>5, <1>6, <1>7

LEMMA LengthIs ==
  /\ \A R : IsFiniteSet(R) => Length(FlatContent(R)) \in Nat \ {0}
  /\ \A R, b : IsFiniteSet(R) => Length(BucketContent(b, R)) \in Nat \ {0}
  /\ \A E : Length(RootContent(E)) \in Nat \ {0}
  /\ \A X : Length(SealedExtents(X)) \in Nat \ {0}
<1>1. \A R : IsFiniteSet(R) => 1 + Cardinality(R) \in Nat \ {0}
  <2> TAKE R
  <2> HAVE IsFiniteSet(R)
  <2>1. Cardinality(R) \in Nat
    BY FS_CardinalityType
  <2> QED
    BY <2>1
<1>2. \A R : FlatContent(R).kind = "flat" /\ FlatContent(R).records = R
  BY DEF FlatContent
<1>3. \A R, b : BucketContent(b, R).kind = "bucket" /\ BucketContent(b, R).records = R
  BY DEF BucketContent
<1>4. (\A E : RootContent(E).kind = "root") /\ (\A X : SealedExtents(X).kind = "extent")
  BY DEF RootContent, SealedExtents
<1> QED
  BY <1>1, <1>2, <1>3, <1>4 DEF Length

LEMMA PartIsFinite ==
  ASSUME NEW R \in RecordSets
  PROVE  IsFiniteSet(R) /\ \A b : IsFiniteSet(InBucket(R, b))
<1>1. IsFiniteSet(R)
  BY LayoutAssumption
<1>2. \A b : InBucket(R, b) \subseteq R
  BY DEF InBucket
<1> QED
  BY <1>1, <1>2, FS_Subset

(* What every call leaves, once what it returned is known to hold.         *)
LEMMA KeepsInv ==
  ASSUME LayoutInv, Kept, SealsHold', StoreHolds', revisions \subseteq revisions',
         \A rev \in revisions' \ revisions : RevisionHolds(rev)',
         \A p \in packings' \ packings : PackingHolds(p)'
  PROVE  LayoutInv'
<1>1. \A rev \in revisions' : RevisionHolds(rev)'
  BY RevisionsKept DEF LayoutInv
<1>2. \A p \in packings' : PackingHolds(p)'
  BY PackingsKept DEF LayoutInv
<1> QED
  BY <1>1, <1>2 DEF LayoutInv, Kept

LEMMA FlatCommitKeeps ==
  ASSUME LayoutInv, NEW R \in RecordSets, NEW parent, FlatCommit(R, parent)
  PROVE  LayoutInv'
<1>0. PICK n : n = calls
  OBVIOUS
<1> DEFINE content == FlatContent(R)
           wire == Wire(<<n, FlatId>>, content)
           contents == [r \in {FlatId} |-> content]
           new == [layout |-> "flat", rootHash |-> wire, records |-> R, hashes |-> <<>>]
<1>1. /\ UniqueIds(R) /\ Seal(contents) /\ Put({wire}) /\ revisions' = revisions \cup {new}
      /\ packings' = packings /\ faults' = faults
  BY <1>0 DEF FlatCommit
<1>2. DOMAIN contents = {FlatId} /\ contents[FlatId] = content
  OBVIOUS
<1>3. Length(content) \in Nat \ {0}
  BY LengthIs, PartIsFinite
<1>4. new.layout = "flat" /\ new.rootHash = wire /\ new.records = R /\ new.hashes = <<>>
  OBVIOUS
<1> HIDE DEF content, contents, wire, new
<1>5. \A r \in DOMAIN contents : Length(contents[r]) \in Nat \ {0} /\ Wire(<<n, r>>, contents[r]) \in {wire}
  BY <1>2, <1>3 DEF wire
<1>6. /\ SealsHold' /\ StoreHolds' /\ Kept
      /\ \A r \in DOMAIN contents : IsEnvelope(Wire(<<n, r>>, contents[r]), r, contents[r])'
  BY <1>0, <1>1, <1>5, SealWrites
<1>7. IsEnvelope(wire, FlatId, content)'
  BY <1>2, <1>6 DEF wire
<1>8. RevisionHolds(new)'
  BY <1>1, <1>4, <1>7 DEF RevisionHolds, content
<1>9. \A rev \in revisions' \ revisions : RevisionHolds(rev)'
  BY <1>1, <1>8
<1> QED
  BY <1>1, <1>6, <1>9, KeepsInv

LEMMA IdsDiffer ==
  /\ \A b : BucketId(b) # RootId /\ BucketId(b)[2] = b
  /\ RootId # FlatId
<1>1. \A b : BucketId(b)[1] = "bucket" /\ BucketId(b)[2] = b
  BY DEF BucketId
<1>2. RootId[1] = "root" /\ FlatId[1] = "flat"
  BY DEF RootId, FlatId
<1> QED
  BY <1>1, <1>2

(* The buckets a commit takes over have envelopes with just these records. *)
LEMMA ReusedHold ==
  ASSUME LayoutInv, NEW R, NEW parent \in revisions \cup {NoRevision}, NEW b \in Reused(R, parent)
  PROVE  IsEnvelope(parent.hashes[b], BucketId(b), BucketContent(b, InBucket(R, b)))
<1>1. b \in DOMAIN parent.hashes /\ InBucket(parent.records, b) = InBucket(R, b)
  BY DEF Reused
<1>2. DOMAIN <<>> = {}
  OBVIOUS
<1>3. parent # NoRevision
  <2> SUFFICES ASSUME parent = NoRevision PROVE FALSE
    OBVIOUS
  <2>1. NoRevision.hashes = <<>>
    BY DEF NoRevision
  <2> QED
    BY <1>1, <1>2, <2>1
<1>4. RevisionHolds(parent)
  BY <1>3 DEF LayoutInv
<1>5. parent.hashes # <<>>
  BY <1>1, <1>2
<1>6. IsEnvelope(parent.hashes[b], BucketId(b), BucketContent(b, InBucket(parent.records, b)))
  BY <1>1, <1>4, <1>5 DEF RevisionHolds
<1> QED
  BY <1>1, <1>6

(* The envelopes of changed buckets.                                       *)
SealedWire(n, b, R) == Wire(<<n, BucketId(b)>>, BucketContent(b, InBucket(R, b)))

LEMMA ShardedCommitKeeps ==
  ASSUME LayoutInv, NEW R \in RecordSets, NEW parent \in revisions \cup {NoRevision}, ShardedCommit(R, parent)
  PROVE  LayoutInv'
<1>0. PICK n : n = calls
  OBVIOUS
<1>1. PICK changed : changed = Grouped(R) \ Reused(R, parent)
  OBVIOUS
<1>2. PICK hashes : hashes = ShardedHashes(R, parent)
  OBVIOUS
<1> DEFINE entries == RootContent(RootEntries(hashes))
           root == Wire(<<n, RootId>>, entries)
           contents == [r \in {BucketId(b) : b \in changed} \cup {RootId} |->
                          IF r = RootId THEN entries ELSE BucketContent(r[2], InBucket(R, r[2]))]
           B == {SealedWire(n, b, R) : b \in changed} \cup {root}
           new == [layout |-> "sharded", rootHash |-> root, records |-> R, hashes |-> hashes]
<1>3. \A b : BucketWire(b, R) = SealedWire(n, b, R)
  BY <1>0 DEF BucketWire, SealedWire
<1>4. /\ UniqueIds(R) /\ Seal(contents) /\ revisions' = revisions \cup {new}
      /\ packings' = packings /\ faults' = faults
  BY <1>0, <1>1, <1>2 DEF ShardedCommit, ShardedContents
<1>5. Put(B)
  <2>1. Put({BucketWire(b, R) : b \in changed} \cup {root})
    BY <1>0, <1>1, <1>2 DEF ShardedCommit
  <2>2. {BucketWire(b, R) : b \in changed} = {SealedWire(n, b, R) : b \in changed}
    BY <1>3
  <2> QED
    BY <2>1, <2>2
<1>6. DOMAIN hashes = Grouped(R)
      /\ \A b \in Grouped(R) : hashes[b] = IF b \in Reused(R, parent) THEN parent.hashes[b] ELSE SealedWire(n, b, R)
  BY <1>2, <1>3 DEF ShardedHashes
<1>7. /\ DOMAIN contents = {BucketId(b) : b \in changed} \cup {RootId}
      /\ contents[RootId] = entries
      /\ \A b \in changed : contents[BucketId(b)] = BucketContent(b, InBucket(R, b))
  BY IdsDiffer
<1>8. \A w : w \in B <=> w = root \/ \E b \in changed : w = SealedWire(n, b, R)
  OBVIOUS
<1>9. new.layout = "sharded" /\ new.rootHash = root /\ new.records = R /\ new.hashes = hashes
  OBVIOUS
<1>10. Length(entries) \in Nat \ {0} /\ \A b : Length(BucketContent(b, InBucket(R, b))) \in Nat \ {0}
  BY LengthIs, PartIsFinite
<1> HIDE DEF entries, root, contents, B, new
<1>11. ASSUME NEW r \in DOMAIN contents
       PROVE  Length(contents[r]) \in Nat \ {0} /\ Wire(<<n, r>>, contents[r]) \in B
  <2>1. CASE r = RootId
    BY <1>7, <1>8, <1>10, <2>1 DEF root
  <2>2. CASE r # RootId
    <3>1. PICK b \in changed : r = BucketId(b)
      BY <1>7, <2>2
    <3>2. contents[r] = BucketContent(b, InBucket(R, b))
      BY <1>7, <3>1
    <3>3. Wire(<<n, r>>, contents[r]) = SealedWire(n, b, R)
      BY <3>1, <3>2 DEF SealedWire
    <3> QED
      BY <1>8, <1>10, <3>2, <3>3
  <2> QED
    BY <2>1, <2>2
<1>12. /\ SealsHold' /\ StoreHolds' /\ Kept
       /\ \A r \in DOMAIN contents : IsEnvelope(Wire(<<n, r>>, contents[r]), r, contents[r])'
  BY <1>0, <1>4, <1>5, <1>11, SealWrites
<1>13. IsEnvelope(root, RootId, entries)'
  BY <1>7, <1>12 DEF root
<1>14. ASSUME NEW b \in Grouped(R)
       PROVE  IsEnvelope(hashes[b], BucketId(b), BucketContent(b, InBucket(R, b)))'
  <2>1. CASE b \in Reused(R, parent)
    <3>1. IsEnvelope(parent.hashes[b], BucketId(b), BucketContent(b, InBucket(R, b)))
      BY <2>1, ReusedHold
    <3>2. \A wire, id, c : IsEnvelope(wire, id, c) => IsEnvelope(wire, id, c)'
      BY <1>12, EnvelopesKept
    <3>3. hashes[b] = parent.hashes[b]
      BY <1>6, <2>1
    <3> QED
      BY <3>1, <3>2, <3>3
  <2>2. CASE b \notin Reused(R, parent)
    <3>1. b \in changed
      BY <1>1, <2>2
    <3>2. BucketId(b) \in DOMAIN contents /\ contents[BucketId(b)] = BucketContent(b, InBucket(R, b))
      BY <1>7, <3>1
    <3>3. hashes[b] = Wire(<<n, BucketId(b)>>, contents[BucketId(b)])
      BY <1>6, <2>2, <3>2 DEF SealedWire
    <3> QED
      BY <1>12, <3>2, <3>3
  <2> QED
    BY <2>1, <2>2
<1>15. RevisionHolds(new)'
  BY <1>4, <1>6, <1>9, <1>13, <1>14 DEF RevisionHolds, entries
<1>16. \A rev \in revisions' \ revisions : RevisionHolds(rev)'
  BY <1>4, <1>15
<1> QED
  BY <1>4, <1>12, <1>16, KeepsInv

LEMMA ShardedCommitTooLargeKeeps ==
  ASSUME LayoutInv, NEW R \in RecordSets, NEW parent, NEW before, ShardedCommitTooLarge(R, parent, before)
  PROVE  LayoutInv'
<1>0. PICK n : n = calls
  OBVIOUS
<1> DEFINE contents == [r \in {BucketId(b) : b \in before} |-> BucketContent(r[2], InBucket(R, r[2]))]
           B == {SealedWire(n, b, R) : b \in before}
<1>1. \A b : BucketWire(b, R) = SealedWire(n, b, R)
  BY <1>0 DEF BucketWire, SealedWire
<1>2. Seal(contents) /\ revisions' = revisions /\ packings' = packings /\ faults' = faults
  BY DEF ShardedCommitTooLarge
<1>3. Put(B)
  <2>1. Put({BucketWire(b, R) : b \in before})
    BY DEF ShardedCommitTooLarge
  <2>2. {BucketWire(b, R) : b \in before} = B
    BY <1>1
  <2> QED
    BY <2>1, <2>2
<1>4. /\ DOMAIN contents = {BucketId(b) : b \in before}
      /\ \A b \in before : contents[BucketId(b)] = BucketContent(b, InBucket(R, b))
  BY IdsDiffer
<1>5. \A b \in before : SealedWire(n, b, R) \in B
  OBVIOUS
<1>6. \A b : Length(BucketContent(b, InBucket(R, b))) \in Nat \ {0}
  BY LengthIs, PartIsFinite
<1> HIDE DEF contents, B
<1>7. ASSUME NEW r \in DOMAIN contents
      PROVE  Length(contents[r]) \in Nat \ {0} /\ Wire(<<n, r>>, contents[r]) \in B
  <2>1. PICK b \in before : r = BucketId(b)
    BY <1>4
  <2>2. contents[r] = BucketContent(b, InBucket(R, b))
    BY <1>4, <2>1
  <2>3. Wire(<<n, r>>, contents[r]) = SealedWire(n, b, R)
    BY <2>1, <2>2 DEF SealedWire
  <2> QED
    BY <1>5, <1>6, <2>2, <2>3
<1>8. SealsHold' /\ StoreHolds' /\ Kept
  BY <1>0, <1>2, <1>3, <1>7, SealWrites
<1> QED
  BY <1>2, <1>8, KeepsInv

LEMMA PackShardsKeeps ==
  ASSUME LayoutInv, NEW rev \in revisions, rev.layout = "sharded", NEW held, NEW target,
         PackShards(rev, held, target)
  PROVE  LayoutInv'
<1>0. PICK n : n = calls
  OBVIOUS
<1>1. PICK done : done = Flush(Packed(rev, target, DOMAIN rev.hashes))
  OBVIOUS
<1> DEFINE content == SealedExtents(done.extents)
           wire == Wire(<<n, ExtentId>>, content)
           contents == [r \in {ExtentId} |-> content]
           B == done.packs \cup {wire}
           new == [manifestHash |-> wire, revision |-> rev]
<1>2. /\ Seal(contents) /\ Put(B) /\ revisions' = revisions
      /\ packings' = packings \cup {new} /\ faults' = faults
  BY <1>0, <1>1 DEF PackShards
<1>3. DOMAIN contents = {ExtentId} /\ contents[ExtentId] = content
  OBVIOUS
<1>4. Length(content) \in Nat \ {0}
  BY LengthIs
<1>5. content.kind = "extent" /\ content.extents = done.extents
  BY DEF SealedExtents
<1>6. new.manifestHash = wire /\ new.revision = rev
  OBVIOUS
<1>7. wire \in B /\ done.packs \subseteq B
  OBVIOUS
<1> HIDE DEF content, contents, wire, B, new
<1>8. \A r \in DOMAIN contents : Length(contents[r]) \in Nat \ {0} /\ Wire(<<n, r>>, contents[r]) \in B
  BY <1>3, <1>4, <1>7 DEF wire
<1>9. /\ SealsHold' /\ StoreHolds' /\ Kept /\ B \subseteq DOMAIN objects'
      /\ \A r \in DOMAIN contents : IsEnvelope(Wire(<<n, r>>, contents[r]), r, contents[r])'
  BY <1>0, <1>2, <1>8, SealWrites
<1>10. IsEnvelope(wire, ExtentId, content)'
  BY <1>3, <1>9 DEF wire
<1>11. PICK s \in DOMAIN sealed' : s[2] = ExtentId /\ sealed'[s] = content /\ wire = WireOf(s)'
  BY <1>10 DEF IsEnvelope
<1>12. LaidOut(done.extents, rev.hashes) /\ {v.packCiphertextHash : v \in done.extents} \subseteq done.packs
  <2>1. SealsHold /\ RevisionHolds(rev)
    BY DEF LayoutInv
  <2>2. rev.records \in RecordSets /\ Grouping(rev.records, rev.hashes)
    BY <2>1 DEF RevisionHolds, Grouping
  <2>3. DOMAIN rev.hashes \subseteq Nat /\ IsFiniteSet(DOMAIN rev.hashes)
    BY <2>2, GroupedAre, LayoutAssumption DEF Grouping
  <2>4. ASSUME NEW b \in DOMAIN rev.hashes PROVE IsSequence(rev.hashes[b]) /\ Len(rev.hashes[b]) \in Nat \ {0}
    <3>1. IsEnvelope(rev.hashes[b], BucketId(b), BucketContent(b, InBucket(rev.records, b)))
      BY <2>2 DEF Grouping
    <3> QED
      BY <2>1, <3>1, EnvelopeParts
  <2>5. AreSequences(rev.hashes, DOMAIN rev.hashes)
    BY <2>4 DEF AreSequences
  <2> QED
    BY <1>1, <2>3, <2>5, PackingLaysOut
<1>13. PackingHolds(new)'
  <2>1. {v.packCiphertextHash : v \in done.extents} \subseteq DOMAIN objects'
    BY <1>7, <1>9, <1>12
  <2>2. new.revision \in revisions' /\ new.revision.layout = "sharded"
    BY <1>2, <1>6
  <2> QED
    BY <1>5, <1>6, <1>11, <1>12, <2>1, <2>2 DEF PackingHolds
<1>14. \A p \in packings' \ packings : PackingHolds(p)'
  BY <1>2, <1>13
<1> QED
  BY <1>2, <1>9, <1>14, KeepsInv

(* A packing that throws has written packs, and nothing refers to them.    *)
LEMMA PackShardsFailsKeeps ==
  ASSUME LayoutInv, NEW rev, NEW held, NEW target, PackShardsFails(rev, held, target)
  PROVE  LayoutInv'
<1> DEFINE bad == {b \in DOMAIN rev.hashes : ~Packable(rev, held, target, b)}
           before == {b \in DOMAIN rev.hashes : \A c \in bad : b < c}
           B == Packed(rev, target, before).packs
<1>1. Put(B) /\ UNCHANGED <<sealed, revisions, packings, calls, manifests, faults>>
  BY DEF PackShardsFails
<1> HIDE DEF B
<1>2. /\ DOMAIN objects' = DOMAIN objects \cup B
      /\ \A h \in DOMAIN objects' : objects'[h] = IF h \in B THEN h ELSE objects[h]
  BY <1>1, PutIs
<1>3. SealsHold /\ StoreHolds /\ faults \in Nat
  BY DEF LayoutInv
<1>4. SealsHold'
  BY <1>1, <1>3 DEF SealsHold
<1>5. Kept
  BY <1>1, <1>2, <1>3 DEF Kept
<1>6. \A s \in DOMAIN sealed : WireOf(s)' = WireOf(s)
  BY <1>5, EnvelopesKept
<1>7. StoreHolds'
  BY <1>1, <1>2, <1>3, <1>6 DEF StoreHolds
<1> QED
  BY <1>1, <1>4, <1>5, <1>7, KeepsInv

LEMMA SealManifestKeeps ==
  ASSUME LayoutInv, NEW contents, SealManifest(contents),
         \A r \in DOMAIN contents : Length(contents[r]) \in Nat \ {0}
  PROVE  LayoutInv'
<1>0. PICK n : n = calls
  OBVIOUS
<1> DEFINE B == {Wire(<<n, r>>, contents[r]) : r \in DOMAIN contents}
<1>1. Seal(contents) /\ Put(B) /\ revisions' = revisions /\ packings' = packings /\ faults' = faults
  BY <1>0 DEF SealManifest
<1>2. \A r \in DOMAIN contents : Wire(<<n, r>>, contents[r]) \in B
  OBVIOUS
<1> HIDE DEF B
<1>3. SealsHold' /\ StoreHolds' /\ Kept
  BY <1>0, <1>1, <1>2, SealWrites
<1> QED
  BY <1>1, <1>3, KeepsInv

LEMMA ManifestKeeps ==
  ASSUME LayoutInv, CreateAuthenticatedManifest
  PROVE  LayoutInv'
<1>1. ASSUME NEW b, NEW d, NEW s, NEW t, SealRootOfKnown(b, s, d, t) PROVE LayoutInv'
  <2> DEFINE c == RootContent({Listed(b, s[2], WireOf(s)), Listed(d, t[2], WireOf(t))})
             contents == [r \in {RootId} |-> c]
  <2>1. SealManifest(contents)
    BY <1>1 DEF SealRootOfKnown
  <2>2. Length(c) \in Nat \ {0}
    BY LengthIs
  <2> HIDE DEF c
  <2>3. \A r \in DOMAIN contents : Length(contents[r]) \in Nat \ {0}
    BY <2>2
  <2> HIDE DEF contents
  <2> QED
    BY <2>1, <2>3, SealManifestKeeps
<1>2. ASSUME NEW b, NEW d, NEW R \in RecordSets, SealBucketAndRoot(b, d, R) PROVE LayoutInv'
  <2> DEFINE bucket == BucketContent(d, R)
             wire == Wire(<<calls, BucketId(b)>>, bucket)
             root == RootContent({Listed(d, BucketId(b), wire)})
             contents == [r \in {BucketId(b), RootId} |-> IF r = RootId THEN root ELSE bucket]
  <2>1. SealManifest(contents)
    BY <1>2 DEF SealBucketAndRoot
  <2>2. Length(root) \in Nat \ {0} /\ Length(bucket) \in Nat \ {0}
    BY LengthIs, PartIsFinite
  <2> HIDE DEF root, bucket
  <2>3. \A r \in DOMAIN contents : Length(contents[r]) \in Nat \ {0}
    BY <2>2
  <2> HIDE DEF contents
  <2> QED
    BY <2>1, <2>3, SealManifestKeeps
<1>3. ASSUME NEW v, NEW z, NEW k, SealExtentsOfKnown(v, z, k) PROVE LayoutInv'
  <2> DEFINE c == SealedExtents({v, [z EXCEPT !.offset = @ + k]})
             contents == [r \in {ExtentId} |-> c]
  <2>1. SealManifest(contents)
    BY <1>3 DEF SealExtentsOfKnown
  <2>2. Length(c) \in Nat \ {0}
    BY LengthIs
  <2> HIDE DEF c
  <2>3. \A r \in DOMAIN contents : Length(contents[r]) \in Nat \ {0}
    BY <2>2
  <2> HIDE DEF contents
  <2> QED
    BY <2>1, <2>3, SealManifestKeeps
<1> QED
  BY <1>1, <1>2, <1>3 DEF CreateAuthenticatedManifest

(* Whatever a fault does to the store, what was sealed stays sealed.       *)
LEMMA DamageKeeps ==
  ASSUME LayoutInv, Damage
  PROVE  LayoutInv'
<1>1. faults \in Nat /\ SealsHold
  BY DEF LayoutInv
<1>2. faults' = faults + 1 /\ UNCHANGED <<sealed, revisions, packings, calls, manifests>>
  BY DEF Damage, Fault
<1>3. faults' \in Nat /\ faults' # 0
  BY <1>1, <1>2
<1>4. Kept
  BY <1>1, <1>2, <1>3 DEF Kept
<1>5. SealsHold'
  BY <1>1, <1>2 DEF SealsHold
<1>6. StoreHolds'
  BY <1>3 DEF StoreHolds
<1> QED
  BY <1>2, <1>4, <1>5, <1>6, KeepsInv

LEMMA InitHolds == Init => LayoutInv
<1> SUFFICES ASSUME Init PROVE LayoutInv
  OBVIOUS
<1>1. DOMAIN <<>> = {}
  OBVIOUS
<1> QED
  BY <1>1 DEF Init, LayoutInv, SealsHold, StoreHolds

LEMMA CommitKeeps ==
  ASSUME LayoutInv, CommitStep
  PROVE  LayoutInv'
<1>1. PICK R \in RecordSets : \E parent \in revisions \cup {NoRevision} :
        \/ FlatCommitUnchanged(R, parent)
        \/ FlatCommit(R, parent)
        \/ ShardedCommit(R, parent)
        \/ \E before \in SUBSET Grouped(R) : ShardedCommitTooLarge(R, parent, before)
  BY DEF CommitStep
<1>2. PICK parent \in revisions \cup {NoRevision} :
        \/ FlatCommitUnchanged(R, parent)
        \/ FlatCommit(R, parent)
        \/ ShardedCommit(R, parent)
        \/ \E before \in SUBSET Grouped(R) : ShardedCommitTooLarge(R, parent, before)
  BY <1>1
<1>3. CASE FlatCommitUnchanged(R, parent)
  <2>1. parent.layout = "flat" /\ revisions' = revisions \cup {parent}
        /\ UNCHANGED <<objects, sealed, packings, calls, manifests, faults>>
    BY <1>3 DEF FlatCommitUnchanged
  <2>2. NoRevision.layout = "none"
    BY DEF NoRevision
  <2>3. parent \in revisions
    BY <2>1, <2>2
  <2>4. revisions' = revisions
    BY <2>1, <2>3
  <2>5. UNCHANGED vars
    BY <2>1, <2>4 DEF vars
  <2>6. Kept /\ SealsHold' /\ StoreHolds'
    BY <2>5 DEF vars, LayoutInv, Kept, SealsHold, StoreHolds, WireOf
  <2> QED
    BY <2>1, <2>4, <2>6, KeepsInv
<1>4. CASE FlatCommit(R, parent)
  BY <1>4, FlatCommitKeeps
<1>5. CASE ShardedCommit(R, parent)
  BY <1>5, ShardedCommitKeeps
<1>6. ASSUME NEW before, ShardedCommitTooLarge(R, parent, before) PROVE LayoutInv'
  BY <1>6, ShardedCommitTooLargeKeeps
<1> QED
  BY <1>2, <1>3, <1>4, <1>5, <1>6

LEMMA StepKeeps == LayoutInv /\ [Next]_vars => LayoutInv'
<1> SUFFICES ASSUME LayoutInv, [Next]_vars PROVE LayoutInv'
  OBVIOUS
<1>1. CASE CommitStep
  BY <1>1, CommitKeeps
<1>2. CASE PackStep
  <2>1. PICK rev \in revisions : rev.layout = "sharded" /\ \E target \in Targets : \E held \in HeldEnvelopes(rev) :
          PackShards(rev, held, target) \/ PackShardsFails(rev, held, target)
    BY <1>2 DEF PackStep
  <2>2. PICK target, held : PackShards(rev, held, target) \/ PackShardsFails(rev, held, target)
    BY <2>1
  <2> QED
    BY <2>1, <2>2, PackShardsKeeps, PackShardsFailsKeeps
<1>3. CASE CreateAuthenticatedManifest
  BY <1>3, ManifestKeeps
<1>4. CASE Damage
  BY <1>4, DamageKeeps
<1>5. CASE UNCHANGED vars
  <2>1. Kept /\ SealsHold' /\ StoreHolds' /\ revisions' = revisions /\ packings' = packings
    BY <1>5 DEF vars, LayoutInv, Kept, SealsHold, StoreHolds, WireOf
  <2> QED
    BY <2>1, KeepsInv
<1> QED
  BY <1>1, <1>2, <1>3, <1>4, <1>5 DEF Next

(* What revisions, packings and the store hold, in every state.            *)
THEOREM InvHolds == Spec => []LayoutInv
  BY InitHolds, StepKeeps, PTL DEF Spec

(* A restore in any of the three layouts yields the whole of what was      *)
(* committed and nothing else, or throws, whatever the store lost, changed *)
(* or cut short.                                                           *)
THEOREM RestoresAreWhole == Spec => []RestoresWhole
<1>1. LayoutInv => RestoresWhole
  BY InvRestores
<1> QED
  BY <1>1, InvHolds, PTL

(* What a commit or a packing returned can be restored as long as the      *)
(* store lost nothing.                                                     *)
THEOREM CommitsCanBeRestored == Spec => []CommittedRestores
<1>1. LayoutInv => CommittedRestores
  BY InvRestores
<1> QED
  BY <1>1, InvHolds, PTL
=============================================================================
