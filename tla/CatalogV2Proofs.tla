--------------------------- MODULE CatalogV2Proofs ---------------------------
(***************************************************************************)
(* Proofs about catalog-v2: ShardPlanner, which makes revisions, and       *)
(* CatalogRevision, which takes them in, for every set of records, every   *)
(* routing, whatever the coordinator puts together, and every value of the *)
(* limits.                                                                 *)
(***************************************************************************)
EXTENDS CatalogRevision, Facts, SequenceTheorems

(***************************************************************************)
(* Proofs about ShardPlanner.                                              *)
(***************************************************************************)

-----------------------------------------------------------------------------
(* The order of route hashes.                                              *)

HashLess(g, h) == \E k \in 1..MaxDepth : g[k] < h[k] /\ \A j \in 1..(k - 1) : g[j] = h[j]
AtMost(g, h)   == g = h \/ HashLess(g, h)

LEMMA HashIs ==
  ASSUME NEW h \in Hash
  PROVE  /\ \A k \in 1..MaxDepth : h[k] \in Nat /\ 0 <= h[k] /\ h[k] <= Fan - 1 /\ h[k] \in Int
         /\ Len(h) = MaxDepth
         /\ \A g \in Hash : (\A k \in 1..MaxDepth : g[k] = h[k]) => g = h
  BY PrefixAssumption DEF Hash, Digit

LEMMA FirstDifference ==
  ASSUME NEW g \in Hash, NEW h \in Hash, NEW n \in Nat, n <= MaxDepth,
         \E k \in 1..n : g[k] # h[k]
  PROVE  \E k \in 1..n : g[k] # h[k] /\ \A j \in 1..(k - 1) : g[j] = h[j]
<1> DEFINE D == {k \in 1..n : g[k] # h[k]}
<1>1. D \subseteq Nat /\ D # {}
  OBVIOUS
<1>2. \E k \in D : \A m \in D : k <= m
  <2> HIDE DEF D
  <2> QED
    BY <1>1, Least
<1> QED
  BY <1>2

LEMMA HashOrder ==
  /\ \A h \in Hash : ~HashLess(h, h)
  /\ \A f, g, h \in Hash : HashLess(f, g) /\ HashLess(g, h) => HashLess(f, h)
  /\ \A g, h \in Hash : g = h \/ HashLess(g, h) \/ HashLess(h, g)
<1> USE PrefixAssumption
<1>1. ASSUME NEW h \in Hash PROVE ~HashLess(h, h)
  BY HashIs DEF HashLess
<1>2. ASSUME NEW f \in Hash, NEW g \in Hash, NEW h \in Hash, HashLess(f, g), HashLess(g, h)
      PROVE  HashLess(f, h)
  <2>1. PICK k \in 1..MaxDepth : f[k] < g[k] /\ \A j \in 1..(k - 1) : f[j] = g[j]
    BY <1>2 DEF HashLess
  <2>2. PICK l \in 1..MaxDepth : g[l] < h[l] /\ \A j \in 1..(l - 1) : g[j] = h[j]
    BY <1>2 DEF HashLess
  <2>3. /\ f[k] \in Int /\ g[k] \in Int /\ h[k] \in Int
        /\ f[l] \in Int /\ g[l] \in Int /\ h[l] \in Int
    BY HashIs
  <2>4. CASE k < l
    <3>1. f[k] < h[k] /\ \A j \in 1..(k - 1) : f[j] = h[j]
      BY <2>1, <2>2, <2>3, <2>4
    <3> QED
      BY <3>1 DEF HashLess
  <2>5. CASE k = l
    <3>1. f[k] < h[k] /\ \A j \in 1..(k - 1) : f[j] = h[j]
      BY <2>1, <2>2, <2>3, <2>5
    <3> QED
      BY <3>1 DEF HashLess
  <2>6. CASE l < k
    <3>1. f[l] < h[l] /\ \A j \in 1..(l - 1) : f[j] = h[j]
      BY <2>1, <2>2, <2>3, <2>6
    <3> QED
      BY <3>1 DEF HashLess
  <2> QED
    BY <2>4, <2>5, <2>6
<1>3. ASSUME NEW g \in Hash, NEW h \in Hash, g # h PROVE HashLess(g, h) \/ HashLess(h, g)
  <2>1. \E k \in 1..MaxDepth : g[k] # h[k]
    BY <1>3, HashIs
  <2>2. PICK k \in 1..MaxDepth : g[k] # h[k] /\ \A j \in 1..(k - 1) : g[j] = h[j]
    BY <2>1, FirstDifference
  <2>3. g[k] \in Int /\ h[k] \in Int
    BY HashIs
  <2>4. g[k] < h[k] \/ h[k] < g[k]
    BY <2>2, <2>3
  <2>5. \A j \in 1..(k - 1) : h[j] = g[j]
    BY <2>2
  <2> QED
    BY <2>2, <2>4, <2>5 DEF HashLess
<1> QED
  BY <1>1, <1>2, <1>3

-----------------------------------------------------------------------------
(* The part of the space under a prefix is an interval of that order.      *)

LEMMA PrefixIs ==
  ASSUME NEW p \in Prefix
  PROVE  /\ Len(p) \in 0..MaxDepth /\ p \in [1..Len(p) -> Digit]
         /\ \A k \in 1..Len(p) : p[k] \in Int /\ 0 <= p[k] /\ p[k] <= Fan - 1
         /\ \A q \in Prefix : Len(q) = Len(p) /\ (\A k \in 1..Len(p) : q[k] = p[k]) => q = p
<1>1. PICK n \in 0..MaxDepth : p \in [1..n -> Digit]
  BY DEF Prefix
<1>2. Len(p) = n
  BY <1>1, PrefixAssumption
<1>3. \A k \in 1..n : p[k] \in Digit
  BY <1>1
<1>4. \A k \in 1..n : p[k] \in Int /\ 0 <= p[k] /\ p[k] <= Fan - 1
  BY <1>3, PrefixAssumption DEF Digit
<1>5. ASSUME NEW q \in Prefix, Len(q) = Len(p), \A k \in 1..Len(p) : q[k] = p[k] PROVE q = p
  <2>1. PICK m \in 0..MaxDepth : q \in [1..m -> Digit]
    BY DEF Prefix
  <2>2. Len(q) = m
    BY <2>1, PrefixAssumption
  <2> QED
    BY <1>1, <1>2, <1>5, <2>1, <2>2
<1> QED
  BY <1>1, <1>2, <1>4, <1>5

LEMMA PadsAreHashes ==
  ASSUME NEW p \in Prefix
  PROVE  PadStart(p) \in Hash /\ PadEnd(p) \in Hash
<1>1. \A k \in 1..MaxDepth : k <= Len(p) => p[k] \in Digit
  BY PrefixIs, PrefixAssumption
<1>2. 0 \in Digit /\ Fan - 1 \in Digit
  BY PrefixAssumption DEF Digit
<1> QED
  BY <1>1, <1>2 DEF Hash, PadStart, PadEnd

LEMMA EmptyPads ==
  /\ <<>> \in Prefix /\ PadStart(<<>>) \in Hash /\ PadEnd(<<>>) \in Hash
  /\ \A h \in Hash : AtMost(PadStart(<<>>), h) /\ AtMost(h, PadEnd(<<>>))
<1> USE PrefixAssumption
<1>1. <<>> \in Prefix
  <2>1. <<>> \in [1..0 -> Digit] /\ 0 \in 0..MaxDepth
    OBVIOUS
  <2> QED
    BY <2>1 DEF Prefix
<1>2. PadStart(<<>>) \in Hash /\ PadEnd(<<>>) \in Hash
  BY <1>1, PadsAreHashes
<1>3. \A k \in 1..MaxDepth : PadStart(<<>>)[k] = 0 /\ PadEnd(<<>>)[k] = Fan - 1
  BY DEF PadStart, PadEnd
<1>4. \A h \in Hash : ~HashLess(h, PadStart(<<>>)) /\ ~HashLess(PadEnd(<<>>), h)
  BY <1>2, <1>3, HashIs DEF HashLess
<1> QED
  BY <1>1, <1>2, <1>4, HashOrder DEF AtMost

LEMMA CoversIsInterval ==
  ASSUME NEW p \in Prefix, NEW h \in Hash
  PROVE  Covers(p, h) <=> AtMost(PadStart(p), h) /\ AtMost(h, PadEnd(p))
<1> USE PrefixAssumption
<1>1. PadStart(p) \in Hash /\ PadEnd(p) \in Hash /\ Len(p) \in 0..MaxDepth
  BY PadsAreHashes, PrefixIs
<1>2. \A k \in 1..MaxDepth : /\ PadStart(p)[k] = IF k <= Len(p) THEN p[k] ELSE 0
                             /\ PadEnd(p)[k] = IF k <= Len(p) THEN p[k] ELSE Fan - 1
  BY DEF PadStart, PadEnd
<1>3. \A k \in 1..MaxDepth : h[k] \in Int /\ 0 <= h[k] /\ h[k] <= Fan - 1
  BY HashIs
<1>4. ASSUME Covers(p, h) PROVE AtMost(PadStart(p), h) /\ AtMost(h, PadEnd(p))
  <2>1. \A k \in 1..MaxDepth : PadStart(p)[k] <= h[k] /\ h[k] <= PadEnd(p)[k]
    BY <1>1, <1>2, <1>3, <1>4 DEF Covers
  <2>2. ~HashLess(h, PadStart(p)) /\ ~HashLess(PadEnd(p), h)
    BY <1>1, <1>3, <2>1, HashIs DEF HashLess
  <2> QED
    BY <1>1, <2>2, HashOrder DEF AtMost
<1>5. ASSUME ~Covers(p, h), AtMost(PadStart(p), h), AtMost(h, PadEnd(p)) PROVE FALSE
  <2>1. \E k \in 1..Len(p) : PadStart(p)[k] # h[k]
    BY <1>1, <1>2, <1>5 DEF Covers
  <2>2. PICK k \in 1..Len(p) : PadStart(p)[k] # h[k] /\ \A j \in 1..(k - 1) : PadStart(p)[j] = h[j]
    <3> DEFINE n == Len(p)
               g == PadStart(p)
    <3>1. n \in Nat /\ n <= MaxDepth /\ g \in Hash /\ \E k \in 1..n : g[k] # h[k]
      BY <1>1, <2>1
    <3> HIDE DEF n, g
    <3>2. \E k \in 1..n : g[k] # h[k] /\ \A j \in 1..(k - 1) : g[j] = h[j]
      BY <3>1, FirstDifference
    <3> QED
      BY <3>2 DEF n, g
  <2>3. k \in 1..MaxDepth /\ PadStart(p)[k] = PadEnd(p)[k]
        /\ \A j \in 1..(k - 1) : PadStart(p)[j] = PadEnd(p)[j]
    BY <1>1, <1>2
  <2>4. PadStart(p)[k] \in Int /\ h[k] \in Int
    BY <1>1, <2>3, HashIs
  <2>5. CASE h[k] < PadStart(p)[k]
    <3>1. HashLess(h, PadStart(p))
      BY <2>2, <2>3, <2>5 DEF HashLess
    <3> QED
      BY <1>1, <1>5, <3>1, HashOrder DEF AtMost
  <2>6. CASE PadStart(p)[k] < h[k]
    <3>1. HashLess(PadEnd(p), h)
      <4>1. PadEnd(p)[k] < h[k] /\ \A j \in 1..(k - 1) : PadEnd(p)[j] = h[j]
        BY <2>2, <2>3, <2>6
      <4> QED
        BY <2>3, <4>1 DEF HashLess
    <3> QED
      BY <1>1, <1>5, <3>1, HashOrder DEF AtMost
  <2> QED
    BY <2>2, <2>4, <2>5, <2>6
<1> QED
  BY <1>4, <1>5

LEMMA StartsInside ==
  ASSUME NEW p \in Prefix
  PROVE  Covers(p, PadStart(p)) /\ Covers(p, PadEnd(p)) /\ AtMost(PadStart(p), PadEnd(p))
<1>1. Covers(p, PadStart(p)) /\ Covers(p, PadEnd(p))
  BY PrefixIs, PrefixAssumption DEF Covers, PadStart, PadEnd
<1> QED
  BY <1>1, PadsAreHashes, CoversIsInterval

(* AddOne is the next hash.                                                *)
LEMMA AddOneIsNext ==
  ASSUME NEW h \in Hash, NEW g \in Hash, HashLess(h, g)
  PROVE  AddOne(h) \in Hash /\ HashLess(h, AddOne(h)) /\ AtMost(AddOne(h), g)
<1> USE PrefixAssumption
<1> DEFINE Top == Fan - 1
           K == {k \in 1..MaxDepth : h[k] # Top}
           D == {MaxDepth - k : k \in K}
<1>0. \A k \in 1..MaxDepth : /\ h[k] \in Int /\ 0 <= h[k] /\ h[k] <= Top
                             /\ g[k] \in Int /\ 0 <= g[k] /\ g[k] <= Top
  BY HashIs
<1>1. PICK l \in 1..MaxDepth : h[l] < g[l] /\ \A j \in 1..(l - 1) : h[j] = g[j]
  BY DEF HashLess
<1>2. l \in K
  BY <1>0, <1>1
<1>3. \E k \in K : \A m \in K : m <= k
  <2>1. D \subseteq Nat /\ D # {}
    BY <1>2
  <2>2. \E d \in D : \A e \in D : d <= e
    <3> HIDE DEF D
    <3> QED
      BY <2>1, Least
  <2>3. PICK k \in K : \A e \in D : MaxDepth - k <= e
    BY <2>2
  <2>4. \A m \in K : MaxDepth - m \in D /\ m \in Int /\ k \in Int
    OBVIOUS
  <2>5. ASSUME NEW m \in K PROVE m <= k
    <3>1. MaxDepth - k <= MaxDepth - m
      BY <2>3, <2>4
    <3> QED
      BY <2>4, <3>1
  <2> QED
    BY <2>5
<1>4. \E k \in 1..MaxDepth : h[k] # Top /\ \A j \in (k + 1)..MaxDepth : h[j] = Top
  BY <1>3
<1> DEFINE k == CHOOSE k \in 1..MaxDepth : h[k] # Top /\ \A j \in (k + 1)..MaxDepth : h[j] = Top
           n == [j \in 1..MaxDepth |-> IF j < k THEN h[j] ELSE IF j = k THEN h[k] + 1 ELSE 0]
<1>5. k \in 1..MaxDepth /\ h[k] # Top /\ \A j \in (k + 1)..MaxDepth : h[j] = Top
  BY <1>4
<1>6. AddOne(h) = n
  BY <1>5 DEF AddOne
<1> HIDE DEF k
<1>7. n \in Hash
  BY <1>0, <1>5 DEF Hash, Digit
<1>8. HashLess(h, n)
  BY <1>0, <1>5 DEF HashLess
<1>9. AtMost(n, g)
  <2>1. l <= k
    BY <1>2, <1>5
  <2>2. CASE l < k
    BY <1>1, <1>5, <2>2 DEF AtMost, HashLess
  <2>3. CASE l = k
    <3>1. \A j \in 1..(k - 1) : n[j] = g[j]
      BY <1>1, <1>5, <2>3
    <3>2. n[k] <= g[k] /\ n[k] \in Int /\ g[k] \in Int
      BY <1>0, <1>1, <1>5, <2>3
    <3>3. CASE n[k] < g[k]
      BY <1>5, <3>1, <3>3 DEF AtMost, HashLess
    <3>4. CASE n[k] = g[k]
      <4>1. ~HashLess(g, n)
        <5> SUFFICES ASSUME NEW m \in 1..MaxDepth, g[m] < n[m], \A j \in 1..(m - 1) : g[j] = n[j]
                     PROVE  FALSE
          BY DEF HashLess
        <5>1. m > k
          <6>1. m \in Int /\ k \in Int /\ g[m] \in Int
            BY <1>0, <1>5
          <6>2. m # k
            BY <3>2, <3>4, <6>1
          <6>3. ~(m < k)
            <7> HIDE DEF n
            <7>1. m < k => m \in 1..(k - 1)
              BY <6>1
            <7>2. m < k => n[m] = g[m]
              BY <3>1, <7>1
            <7> QED
              BY <6>1, <7>2
          <6> QED
            BY <6>1, <6>2, <6>3
        <5>2. n[m] = 0
          BY <1>5, <5>1
        <5> QED
          BY <1>0, <5>2
      <4> QED
        BY <1>7, <4>1, HashOrder DEF AtMost
    <3> QED
      BY <3>2, <3>3, <3>4
  <2> QED
    BY <1>5, <2>1, <2>2, <2>3
<1> QED
  BY <1>6, <1>7, <1>8, <1>9

-----------------------------------------------------------------------------
(* The two orders the neighbour checks sort by.                            *)

LEMMA HashBefore ==
  ASSUME NEW g \in Hash, NEW h \in Hash
  PROVE  Before(g, h) <=> HashLess(g, h)
<1>1. Len(g) = MaxDepth /\ Len(h) = MaxDepth
  BY HashIs
<1>2. StartsWith(h, g) => g = h
  BY <1>1, HashIs DEF StartsWith, Covers
<1>3. (1..Len(g)) \cap (1..Len(h)) = 1..MaxDepth
  BY <1>1
<1> QED
  BY <1>2, <1>3 DEF Before, HashLess

LEMMA ByStart ==
  ASSUME NEW p \in Prefix, NEW q \in Prefix
  PROVE  BeforeByStart(p, q) <=>
           \/ HashLess(PadStart(p), PadStart(q))
           \/ PadStart(p) = PadStart(q) /\ Len(p) < Len(q)
  BY PadsAreHashes, HashBefore DEF BeforeByStart

LEMMA ByStartOrder ==
  /\ \A p \in Prefix : ~BeforeByStart(p, p)
  /\ \A p, q, r \in Prefix : BeforeByStart(p, q) /\ BeforeByStart(q, r) => BeforeByStart(p, r)
<1>1. \A p \in Prefix : PadStart(p) \in Hash /\ Len(p) \in Int
  BY PadsAreHashes, PrefixIs, PrefixAssumption
<1>2. ASSUME NEW p \in Prefix PROVE ~BeforeByStart(p, p)
  BY <1>1, ByStart, HashOrder
<1>3. ASSUME NEW p \in Prefix, NEW q \in Prefix, NEW r \in Prefix,
             BeforeByStart(p, q), BeforeByStart(q, r)
      PROVE  BeforeByStart(p, r)
  <2>1. CASE PadStart(p) = PadStart(q) /\ PadStart(q) = PadStart(r)
    <3>1. Len(p) < Len(q) /\ Len(q) < Len(r)
      BY <1>1, <1>3, <2>1, ByStart, HashOrder
    <3>2. Len(p) < Len(r)
      BY <1>1, <3>1
    <3> QED
      BY <2>1, <3>2, ByStart
  <2>2. CASE HashLess(PadStart(p), PadStart(q)) \/ HashLess(PadStart(q), PadStart(r))
    <3>1. AtMost(PadStart(p), PadStart(q)) /\ AtMost(PadStart(q), PadStart(r))
      BY <1>3, ByStart DEF AtMost
    <3>2. HashLess(PadStart(p), PadStart(r))
      BY <1>1, <2>2, <3>1, HashOrder DEF AtMost
    <3> QED
      BY <3>2, ByStart
  <2> QED
    BY <1>3, <2>1, <2>2, ByStart
<1> QED
  BY <1>2, <1>3

LEMMA CommonStart ==
  ASSUME NEW p \in Prefix, NEW q \in Prefix, NEW h \in Hash, Covers(p, h), Covers(q, h), Len(p) <= Len(q)
  PROVE  StartsWith(q, p)
<1>1. Len(p) \in Nat /\ Len(q) \in Nat
  BY PrefixIs
<1> QED
  BY <1>1 DEF StartsWith, Covers

LEMMA BeforeOrder ==
  /\ \A p \in Prefix : ~Before(p, p)
  /\ \A p, q, r \in Prefix : Before(p, q) /\ Before(q, r) => Before(p, r)
<1>1. ASSUME NEW p \in Prefix PROVE ~Before(p, p)
  BY PrefixIs DEF Before
<1>2. ASSUME NEW p \in Prefix, NEW q \in Prefix, NEW r \in Prefix, Before(p, q), Before(q, r)
      PROVE  Before(p, r)
  <2>1. /\ Len(p) \in Nat /\ Len(q) \in Nat /\ Len(r) \in Nat
        /\ \A k \in 1..Len(p) : p[k] \in Int
        /\ \A k \in 1..Len(q) : q[k] \in Int
        /\ \A k \in 1..Len(r) : r[k] \in Int
    BY PrefixIs
  <2>2. CASE StartsWith(q, p) /\ StartsWith(r, q)
    <3>1. StartsWith(r, p)
      BY <2>1, <2>2 DEF StartsWith, Covers
    <3>2. Len(p) < Len(q) \/ Len(q) < Len(r)
      <4>1. p # q
        BY <1>1, <1>2
      <4> QED
        BY <2>1, <2>2, <4>1, PrefixIs DEF StartsWith, Covers
    <3>3. p # r
      BY <2>1, <2>2, <3>2 DEF StartsWith
    <3> QED
      BY <3>1, <3>3 DEF Before
  <2>3. ASSUME StartsWith(q, p), NEW k \in (1..Len(q)) \cap (1..Len(r)), q[k] < r[k],
               \A j \in 1..(k - 1) : q[j] = r[j]
        PROVE  Before(p, r)
    <3>1. CASE k <= Len(p)
      <4>1. k \in (1..Len(p)) \cap (1..Len(r)) /\ p[k] < r[k]
        BY <2>1, <2>3, <3>1 DEF StartsWith, Covers
      <4>2. \A j \in 1..(k - 1) : p[j] = r[j]
        BY <2>1, <2>3, <3>1 DEF StartsWith, Covers
      <4> QED
        BY <4>1, <4>2 DEF Before
    <3>2. CASE Len(p) < k
      <4>1. StartsWith(r, p) /\ Len(p) < Len(r)
        BY <2>1, <2>3, <3>2 DEF StartsWith, Covers
      <4> QED
        BY <2>1, <4>1 DEF Before
    <3> QED
      BY <2>1, <3>1, <3>2
  <2>4. ASSUME StartsWith(r, q), NEW k \in (1..Len(p)) \cap (1..Len(q)), p[k] < q[k],
               \A j \in 1..(k - 1) : p[j] = q[j]
        PROVE  Before(p, r)
    <3>1. k \in (1..Len(p)) \cap (1..Len(r)) /\ p[k] < r[k]
      BY <2>1, <2>4 DEF StartsWith, Covers
    <3>2. \A j \in 1..(k - 1) : p[j] = r[j]
      BY <2>1, <2>4 DEF StartsWith, Covers
    <3> QED
      BY <3>1, <3>2 DEF Before
  <2>5. ASSUME NEW k \in (1..Len(p)) \cap (1..Len(q)), p[k] < q[k], \A j \in 1..(k - 1) : p[j] = q[j],
               NEW l \in (1..Len(q)) \cap (1..Len(r)), q[l] < r[l], \A j \in 1..(l - 1) : q[j] = r[j]
        PROVE  Before(p, r)
    <3>1. CASE k <= l
      <4>1. k \in (1..Len(p)) \cap (1..Len(r)) /\ p[k] < r[k]
        <5>1. k < l => q[k] = r[k]
          BY <2>1, <2>5
        <5> QED
          BY <2>1, <2>5, <3>1, <5>1
      <4>2. \A j \in 1..(k - 1) : p[j] = r[j]
        BY <2>1, <2>5, <3>1
      <4> QED
        BY <4>1, <4>2 DEF Before
    <3>2. CASE l < k
      <4>1. l \in (1..Len(p)) \cap (1..Len(r)) /\ p[l] < r[l]
        BY <2>1, <2>5, <3>2
      <4>2. \A j \in 1..(l - 1) : p[j] = r[j]
        BY <2>1, <2>5, <3>2
      <4> QED
        BY <4>1, <4>2 DEF Before
    <3> QED
      BY <3>1, <3>2
  <2>6. \/ StartsWith(q, p)
        \/ \E k \in (1..Len(p)) \cap (1..Len(q)) : p[k] < q[k] /\ \A j \in 1..(k - 1) : p[j] = q[j]
    BY <1>2 DEF Before
  <2>7. \/ StartsWith(r, q)
        \/ \E k \in (1..Len(q)) \cap (1..Len(r)) : q[k] < r[k] /\ \A j \in 1..(k - 1) : q[j] = r[j]
    BY <1>2 DEF Before
  <2> QED
    BY <2>2, <2>3, <2>4, <2>5, <2>6, <2>7
<1> QED
  BY <1>1, <1>2

(* Between a prefix and what starts with it stands only what starts with it.*)
LEMMA BetweenStarts ==
  ASSUME NEW p \in Prefix, NEW q \in Prefix, NEW r \in Prefix,
         StartsWith(q, p), Before(p, r), Before(r, q)
  PROVE  StartsWith(r, p)
<1> SUFFICES ASSUME ~StartsWith(r, p) PROVE FALSE
  OBVIOUS
<1>1. PICK k \in (1..Len(p)) \cap (1..Len(r)) : p[k] < r[k] /\ \A j \in 1..(k - 1) : p[j] = r[j]
  BY DEF Before
<1>2. Len(p) \in Nat /\ Len(q) \in Nat /\ Len(r) \in Nat
  BY PrefixIs
<1>3. k \in (1..Len(q)) \cap (1..Len(r)) /\ q[k] < r[k] /\ \A j \in 1..(k - 1) : q[j] = r[j]
  BY <1>1, <1>2 DEF StartsWith, Covers
<1>4. Before(q, r)
  BY <1>3 DEF Before
<1> QED
  BY <1>4, BeforeOrder

-----------------------------------------------------------------------------
(* First and last prefixes of a finite set, and neighbours.                *)

LEMMA PrefixesAreFinite == IsFiniteSet(Prefix)
<1> DEFINE Pairs == (1..MaxDepth) \X Digit
           graph == [p \in Prefix |-> {<<k, p[k]>> : k \in 1..Len(p)}]
<1>1. IsFiniteSet(SUBSET Pairs)
  <2>1. IsFiniteSet(1..MaxDepth) /\ IsFiniteSet(Digit)
    BY FS_Interval, PrefixAssumption DEF Digit
  <2>2. IsFiniteSet(Pairs)
    BY <2>1, FS_Product
  <2> HIDE DEF Pairs
  <2> QED
    BY <2>2, FS_SUBSET
<1>2. graph \in [Prefix -> SUBSET Pairs]
  <2>1. ASSUME NEW p \in Prefix PROVE {<<k, p[k]>> : k \in 1..Len(p)} \subseteq Pairs
    BY PrefixIs, PrefixAssumption
  <2> QED
    BY <2>1
<1>3. ASSUME NEW p \in Prefix, NEW q \in Prefix, graph[p] = graph[q] PROVE p = q
  <2>1. {<<k, p[k]>> : k \in 1..Len(p)} = {<<k, q[k]>> : k \in 1..Len(q)}
    BY <1>3
  <2>2. ASSUME NEW k \in 1..Len(p) PROVE k \in 1..Len(q) /\ p[k] = q[k]
    <3>1. <<k, p[k]>> \in {<<j, q[j]>> : j \in 1..Len(q)}
      BY <2>1
    <3>2. PICK j \in 1..Len(q) : <<k, p[k]>> = <<j, q[j]>>
      BY <3>1
    <3> QED
      BY <3>2
  <2>3. ASSUME NEW k \in 1..Len(q) PROVE k \in 1..Len(p)
    <3>1. <<k, q[k]>> \in {<<j, p[j]>> : j \in 1..Len(p)}
      BY <2>1
    <3>2. PICK j \in 1..Len(p) : <<k, q[k]>> = <<j, p[j]>>
      BY <3>1
    <3> QED
      BY <3>2
  <2>4. Len(p) \in Nat /\ Len(q) \in Nat
    BY PrefixIs
  <2>5. Len(p) = Len(q)
    BY <2>2, <2>3, <2>4
  <2> QED
    BY <2>2, <2>5, PrefixIs
<1>4. graph \in Injection(Prefix, SUBSET Pairs)
  <2> HIDE DEF graph, Pairs
  <2> QED
    BY <1>2, <1>3 DEF Injection, IsInjective
<1> HIDE DEF graph, Pairs
<1> QED
  BY <1>1, <1>4, FS_Injection

(* A set of prefixes has a first and a last by the order of their starts.  *)
LEMMA FirstByStart ==
  ASSUME NEW Q, Q \subseteq Prefix, Q # {}
  PROVE  \E p \in Q : \A q \in Q : ~BeforeByStart(q, p)
<1> DEFINE Less == {e \in Prefix \X Prefix : BeforeByStart(e[1], e[2])}
<1>1. \A p, q \in Prefix : <<p, q>> \in Less <=> BeforeByStart(p, q)
  OBVIOUS
<1>2. IsFiniteSet(Q)
  BY PrefixesAreFinite, FS_Subset
<1> HIDE DEF Less
<1>3. /\ \A p \in Q : <<p, p>> \notin Less
      /\ \A p, q, r \in Q : <<p, q>> \in Less /\ <<q, r>> \in Less => <<p, r>> \in Less
  BY <1>1, ByStartOrder
<1>4. \E m \in Q : \A x \in Q : <<x, m>> \notin Less
  BY <1>2, <1>3, Minimal
<1> QED
  BY <1>1, <1>4

LEMMA LastByStart ==
  ASSUME NEW Q, Q \subseteq Prefix, Q # {}
  PROVE  \E p \in Q : \A q \in Q : ~BeforeByStart(p, q)
<1> DEFINE Less == {e \in Prefix \X Prefix : BeforeByStart(e[2], e[1])}
<1>1. \A p, q \in Prefix : <<p, q>> \in Less <=> BeforeByStart(q, p)
  OBVIOUS
<1>2. IsFiniteSet(Q)
  BY PrefixesAreFinite, FS_Subset
<1> HIDE DEF Less
<1>3. /\ \A p \in Q : <<p, p>> \notin Less
      /\ \A p, q, r \in Q : <<p, q>> \in Less /\ <<q, r>> \in Less => <<p, r>> \in Less
  BY <1>1, ByStartOrder
<1>4. \E m \in Q : \A x \in Q : <<x, m>> \notin Less
  BY <1>2, <1>3, Minimal
<1> QED
  BY <1>1, <1>4

LEMMA FirstBefore ==
  ASSUME NEW Q, Q \subseteq Prefix, Q # {}
  PROVE  \E p \in Q : \A q \in Q : ~Before(q, p)
<1> DEFINE Less == {e \in Prefix \X Prefix : Before(e[1], e[2])}
<1>1. \A p, q \in Prefix : <<p, q>> \in Less <=> Before(p, q)
  OBVIOUS
<1>2. IsFiniteSet(Q)
  BY PrefixesAreFinite, FS_Subset
<1> HIDE DEF Less
<1>3. /\ \A p \in Q : <<p, p>> \notin Less
      /\ \A p, q, r \in Q : <<p, q>> \in Less /\ <<q, r>> \in Less => <<p, r>> \in Less
  BY <1>1, BeforeOrder
<1>4. \E m \in Q : \A x \in Q : <<x, m>> \notin Less
  BY <1>2, <1>3, Minimal
<1> QED
  BY <1>1, <1>4

-----------------------------------------------------------------------------
(* What the checks accept is a partition.                                  *)

LEMMA NoPrefixOfAnother ==
  ASSUME NEW P \in SUBSET Prefix, PrefixFreeCover(P), NEW p \in P, NEW q \in P, p # q
  PROVE  ~StartsWith(q, p)
<1> SUFFICES ASSUME StartsWith(q, p) PROVE FALSE
  OBVIOUS
<1> DEFINE R == {r \in P : Before(p, r)}
<1>1. R \subseteq Prefix /\ q \in R
  BY DEF Before
<1>2. \E r \in R : \A s \in R : ~Before(s, r)
  <2> HIDE DEF R
  <2> QED
    BY <1>1, FirstBefore
<1>3. PICK r \in R : \A s \in R : ~Before(s, r)
  BY <1>2
<1>4. Neighbours(P, Before, p, r)
  BY <1>3 DEF Neighbours
<1>5. ~StartsWith(r, p)
  BY <1>3, <1>4 DEF PrefixFreeCover
<1>6. r # q /\ ~Before(r, q)
  BY <1>1, <1>3, <1>5, BetweenStarts
<1>7. Before(q, r)
  <2>1. Before(p, r) /\ ~StartsWith(r, p) /\ p \in Prefix /\ q \in Prefix /\ r \in Prefix
    BY <1>3, <1>5
  <2>2. PICK k \in (1..Len(p)) \cap (1..Len(r)) : p[k] < r[k] /\ \A j \in 1..(k - 1) : p[j] = r[j]
    BY <2>1 DEF Before
  <2>3. Len(p) \in Nat /\ Len(q) \in Nat /\ Len(r) \in Nat
    BY <2>1, PrefixIs
  <2>4. k \in (1..Len(q)) \cap (1..Len(r)) /\ q[k] < r[k] /\ \A j \in 1..(k - 1) : q[j] = r[j]
    BY <2>2, <2>3 DEF StartsWith, Covers
  <2> QED
    BY <2>4 DEF Before
<1> QED
  BY <1>1, <1>3, <1>7

LEMMA CoversWhole ==
  ASSUME NEW P \in SUBSET Prefix, PrefixFreeCover(P), NEW h \in Hash
  PROVE  \E p \in P : Covers(p, h)
<1> DEFINE A == {p \in P : AtMost(PadStart(p), h)}
<1>0. \A p \in P : p \in Prefix /\ PadStart(p) \in Hash /\ PadEnd(p) \in Hash
  BY PadsAreHashes
<1>1. A # {}
  <2>1. PICK p \in P : \A q \in P : ~BeforeByStart(q, p)
    BY FirstByStart DEF PrefixFreeCover
  <2>2. PadStart(p) = PadStart(<<>>)
    BY <2>1 DEF PrefixFreeCover
  <2> QED
    BY <2>2, EmptyPads
<1>2. \E p \in A : \A q \in A : ~BeforeByStart(p, q)
  <2>1. A \subseteq Prefix
    OBVIOUS
  <2> HIDE DEF A
  <2> QED
    BY <1>1, <2>1, LastByStart
<1>3. PICK p \in A : \A q \in A : ~BeforeByStart(p, q)
  BY <1>2
<1>4. CASE AtMost(h, PadEnd(p))
  BY <1>0, <1>3, <1>4, CoversIsInterval
<1>5. CASE ~AtMost(h, PadEnd(p))
  <2>1. HashLess(PadEnd(p), h)
    BY <1>0, <1>5, HashOrder DEF AtMost
  <2> DEFINE B == {q \in P : BeforeByStart(p, q)}
  <2>2. B # {}
    <3> SUFFICES ASSUME B = {} PROVE FALSE
      OBVIOUS
    <3>1. \A q \in P : ~BeforeByStart(p, q)
      OBVIOUS
    <3>2. PadEnd(p) = PadEnd(<<>>)
      BY <3>1 DEF PrefixFreeCover
    <3>3. AtMost(h, PadEnd(p))
      BY <3>2, EmptyPads
    <3> QED
      BY <1>5, <3>3
  <2>3. \E q \in B : \A r \in B : ~BeforeByStart(r, q)
    <3>1. B \subseteq Prefix
      OBVIOUS
    <3> HIDE DEF B
    <3> QED
      BY <2>2, <3>1, FirstByStart
  <2>4. PICK q \in B : \A r \in B : ~BeforeByStart(r, q)
    BY <2>3
  <2>5. AddOne(PadEnd(p)) = PadStart(q)
    <3>1. Neighbours(P, BeforeByStart, p, q)
      BY <2>4 DEF Neighbours
    <3> QED
      BY <3>1 DEF PrefixFreeCover
  <2>6. AtMost(PadStart(q), h)
    BY <1>0, <2>1, <2>5, AddOneIsNext
  <2> QED
    BY <1>3, <2>4, <2>6
<1> QED
  BY <1>4, <1>5

LEMMA CoverIsPartition ==
  ASSUME NEW P \in SUBSET Prefix, PrefixFreeCover(P)
  PROVE  Partition(P)
<1>1. ASSUME NEW h \in Hash PROVE \E p \in P : \A q \in P : Covers(q, h) <=> q = p
  <2>1. PICK p \in P : Covers(p, h)
    BY CoversWhole
  <2>2. ASSUME NEW q \in P, Covers(q, h), q # p PROVE FALSE
    <3>1. Len(p) <= Len(q) \/ Len(q) <= Len(p)
      BY PrefixIs
    <3>2. StartsWith(q, p) \/ StartsWith(p, q)
      BY <2>1, <2>2, <3>1, CommonStart
    <3> QED
      BY <2>2, <3>2, NoPrefixOfAnother
  <2> QED
    BY <2>1, <2>2
<1> QED
  BY <1>1 DEF Partition

-----------------------------------------------------------------------------
(* A partition is accepted.                                                *)

LEMMA Disjoint ==
  ASSUME NEW P \in SUBSET Prefix, Partition(P), NEW p \in P, NEW q \in P, NEW h \in Hash,
         Covers(p, h), Covers(q, h)
  PROVE  p = q
  BY DEF Partition

LEMMA StartsDiffer ==
  ASSUME NEW P \in SUBSET Prefix, Partition(P), NEW p \in P, NEW q \in P, p # q
  PROVE  /\ PadStart(p) # PadStart(q)
         /\ BeforeByStart(p, q) <=> HashLess(PadStart(p), PadStart(q))
<1>1. p \in Prefix /\ q \in Prefix /\ PadStart(p) \in Hash /\ PadStart(q) \in Hash
  BY PadsAreHashes
<1>2. PadStart(p) # PadStart(q)
  BY <1>1, StartsInside, Disjoint
<1> QED
  BY <1>1, <1>2, ByStart

(* Of two parts of a partition one ends before the other starts.           *)
LEMMA EndsBefore ==
  ASSUME NEW P \in SUBSET Prefix, Partition(P), NEW p \in P, NEW q \in P,
         HashLess(PadStart(p), PadStart(q))
  PROVE  HashLess(PadEnd(p), PadStart(q))
<1>1. /\ p \in Prefix /\ q \in Prefix /\ PadStart(p) \in Hash /\ PadStart(q) \in Hash
      /\ PadEnd(p) \in Hash
  BY PadsAreHashes
<1>2. ~Covers(p, PadStart(q))
  BY <1>1, StartsInside, Disjoint, HashOrder
<1>3. ~AtMost(PadStart(q), PadEnd(p))
  BY <1>1, <1>2, CoversIsInterval DEF AtMost
<1> QED
  BY <1>1, <1>3, HashOrder DEF AtMost

LEMMA PartitionIsCover ==
  ASSUME NEW P \in SUBSET Prefix, Partition(P)
  PROVE  PrefixFreeCover(P)
<1>0. /\ \A p \in P : p \in Prefix /\ PadStart(p) \in Hash /\ PadEnd(p) \in Hash
      /\ PadStart(<<>>) \in Hash /\ PadEnd(<<>>) \in Hash
  BY PadsAreHashes, EmptyPads
<1>1. P # {}
  BY <1>0 DEF Partition
<1>2. ASSUME NEW p \in P, NEW q \in P, Neighbours(P, Before, p, q), StartsWith(q, p) PROVE FALSE
  <2>1. p # q
    BY <1>2, BeforeOrder DEF Neighbours
  <2>2. Covers(q, PadStart(q)) /\ Covers(p, PadStart(q))
    <3>1. Len(p) \in Nat /\ Len(q) \in 0..MaxDepth
      BY PrefixIs
    <3> QED
      BY <1>2, <3>1, StartsInside, PrefixAssumption DEF StartsWith, Covers, PadStart
  <2> QED
    BY <1>0, <2>1, <2>2, Disjoint
<1>3. ASSUME NEW p \in P, \A q \in P : ~BeforeByStart(q, p) PROVE PadStart(p) = PadStart(<<>>)
  <2>1. PICK q \in P : Covers(q, PadStart(<<>>))
    BY <1>0 DEF Partition
  <2>2. PadStart(q) = PadStart(<<>>)
    BY <1>0, <2>1, CoversIsInterval, EmptyPads, HashOrder DEF AtMost
  <2>3. p = q
    <3> SUFFICES ASSUME p # q PROVE FALSE
      OBVIOUS
    <3>1. HashLess(PadStart(q), PadStart(p))
      BY <1>0, <2>2, StartsDiffer, EmptyPads DEF AtMost
    <3> QED
      BY <1>3, <3>1, StartsDiffer
  <2> QED
    BY <2>2, <2>3
<1>4. ASSUME NEW p \in P, NEW q \in P, Neighbours(P, BeforeByStart, p, q)
      PROVE  AddOne(PadEnd(p)) = PadStart(q)
  <2>1. p # q /\ HashLess(PadStart(p), PadStart(q))
    BY <1>0, <1>4, StartsDiffer, ByStartOrder DEF Neighbours
  <2>2. HashLess(PadEnd(p), PadStart(q))
    BY <2>1, EndsBefore
  <2> DEFINE g == AddOne(PadEnd(p))
  <2>3. g \in Hash /\ HashLess(PadEnd(p), g) /\ AtMost(g, PadStart(q))
    BY <1>0, <2>2, AddOneIsNext
  <2> HIDE DEF g
  <2>4. ASSUME HashLess(g, PadStart(q)) PROVE FALSE
    <3>1. PICK r \in P : Covers(r, g)
      BY <2>3 DEF Partition
    <3>2. AtMost(PadStart(r), g) /\ AtMost(g, PadEnd(r))
      BY <1>0, <2>3, <3>1, CoversIsInterval
    <3>3. r # p
      BY <1>0, <2>3, <3>2, HashOrder DEF AtMost
    <3>4. HashLess(PadStart(r), PadStart(q)) /\ r # q
      BY <1>0, <2>3, <2>4, <3>2, HashOrder DEF AtMost
    <3>5. ~BeforeByStart(p, r)
      BY <1>4, <3>4, StartsDiffer DEF Neighbours
    <3>6. HashLess(PadStart(r), PadStart(p))
      BY <1>0, <3>3, <3>5, StartsDiffer, HashOrder
    <3>7. HashLess(PadEnd(r), PadStart(p))
      BY <3>6, EndsBefore
    <3>8. AtMost(PadStart(p), PadEnd(p))
      BY <1>0, StartsInside
    <3> QED
      BY <1>0, <2>3, <3>2, <3>7, <3>8, HashOrder DEF AtMost
  <2> QED
    BY <2>3, <2>4 DEF AtMost, g
<1>5. ASSUME NEW p \in P, \A q \in P : ~BeforeByStart(p, q) PROVE PadEnd(p) = PadEnd(<<>>)
  <2>1. PICK q \in P : Covers(q, PadEnd(<<>>))
    BY <1>0 DEF Partition
  <2>2. PadEnd(q) = PadEnd(<<>>)
    BY <1>0, <2>1, CoversIsInterval, EmptyPads, HashOrder DEF AtMost
  <2>3. p = q
    <3> SUFFICES ASSUME p # q PROVE FALSE
      OBVIOUS
    <3>1. HashLess(PadStart(q), PadStart(p))
      BY <1>0, <1>5, StartsDiffer, HashOrder
    <3>2. HashLess(PadEnd(q), PadStart(p))
      BY <3>1, EndsBefore
    <3> QED
      BY <1>0, <2>2, <3>2, EmptyPads, HashOrder DEF AtMost
  <2> QED
    BY <2>2, <2>3
<1> QED
  BY <1>1, <1>2, <1>3, <1>4, <1>5 DEF PrefixFreeCover

(* The neighbour checks accept a set of prefixes exactly if it cuts the    *)
(* space of hashes into parts, for any fan-out and depth.                  *)
THEOREM CoverIsExact == CoverExact
  BY CoverIsPartition, PartitionIsCover DEF CoverExact

-----------------------------------------------------------------------------
(* Prefixes and hashes.                                                    *)

(* A prefix is a sequence of at most MaxDepth digits.                      *)
LEMMA PrefixIsSeq ==
  ASSUME NEW p \in Prefix
  PROVE  /\ p \in Seq(Digit)
         /\ Len(p) \in 0..MaxDepth
         /\ p \in [1..Len(p) -> Digit]
<1>1. PICK n \in 0..MaxDepth : p \in [1..n -> Digit]
  BY DEF Prefix
<1>2. n \in Nat
  BY <1>1, PrefixAssumption
<1>3. Len(p) = n /\ p \in Seq(Digit)
  BY <1>1, <1>2
<1> QED
  BY <1>1, <1>3

(* A prefix that is not at full depth has a child for every digit.         *)
LEMMA ChildPrefix ==
  ASSUME NEW p \in Prefix, Len(p) < MaxDepth, NEW d \in Digit
  PROVE  /\ Append(p, d) \in Prefix
         /\ Len(Append(p, d)) = Len(p) + 1
         /\ \A k \in 1..Len(p) : Append(p, d)[k] = p[k]
         /\ Append(p, d)[Len(p) + 1] = d
<1>1. p \in Seq(Digit) /\ Len(p) \in 0..MaxDepth /\ p \in [1..Len(p) -> Digit]
  BY PrefixIsSeq
<1>2. /\ Append(p, d) \in Seq(Digit)
      /\ Len(Append(p, d)) = Len(p) + 1
      /\ \A k \in 1..Len(p) : Append(p, d)[k] = p[k]
      /\ Append(p, d)[Len(p) + 1] = d
  BY <1>1
<1>3. Append(p, d) \in [1..(Len(p) + 1) -> Digit]
  BY <1>2, LenProperties
<1>4. Len(p) + 1 \in 0..MaxDepth
  BY <1>1, PrefixAssumption
<1> QED
  BY <1>2, <1>3, <1>4 DEF Prefix

(* The children of a prefix divide the hashes under it by their next digit.*)
LEMMA ChildCovers ==
  ASSUME NEW p \in Prefix, Len(p) < MaxDepth, NEW d \in Digit, NEW h \in Hash
  PROVE  /\ h[Len(p) + 1] \in Digit
         /\ Covers(Append(p, d), h) <=> Covers(p, h) /\ h[Len(p) + 1] = d
<1>1. Len(p) \in 0..MaxDepth
  BY PrefixIsSeq
<1>2. Len(p) + 1 \in 1..MaxDepth
  BY <1>1, PrefixAssumption
<1>3. /\ Len(Append(p, d)) = Len(p) + 1
      /\ \A k \in 1..Len(p) : Append(p, d)[k] = p[k]
      /\ Append(p, d)[Len(p) + 1] = d
  BY ChildPrefix
<1>4. 1..(Len(p) + 1) = 1..Len(p) \cup {Len(p) + 1}
  BY <1>1, PrefixAssumption
<1> QED
  BY <1>2, <1>3, <1>4 DEF Covers, Hash

(* Every prefix has a hash under it.                                       *)
LEMMA PrefixHasHash ==
  ASSUME NEW p \in Prefix
  PROVE  \E h \in Hash : Covers(p, h)
<1> DEFINE h == [k \in 1..MaxDepth |-> IF k \in 1..Len(p) THEN p[k] ELSE 0]
<1>1. Len(p) \in 0..MaxDepth /\ p \in [1..Len(p) -> Digit]
  BY PrefixIsSeq
<1>2. 0 \in Digit
  BY PrefixAssumption DEF Digit
<1>3. h \in Hash
  BY <1>1, <1>2 DEF Hash
<1>4. Covers(p, h)
  BY <1>1, PrefixAssumption DEF Covers
<1> QED
  BY <1>3, <1>4

(* The size of a leaf is a number.                                         *)
LEMMA BytesIsNat ==
  ASSUME NEW leaf \in Leaf
  PROVE  Bytes(leaf) \in Nat
BY PlannerAssumption DEF Leaf, Bytes

(* The children of a leaf are Fan leaves, each with the records of the     *)
(* leaf whose hashes lie under it.                                         *)
LEMMA ChildrenAreLeaves ==
  ASSUME NEW leaf \in Leaf, Len(leaf.prefix) < MaxDepth
  PROVE  /\ Children(leaf) \subseteq Leaf
         /\ IsFiniteSet(Children(leaf))
         /\ Cardinality(Children(leaf)) = Fan
<1> DEFINE f == [d \in Digit |-> Child(leaf, d)]
<1>1. leaf.prefix \in Prefix /\ leaf.recs \subseteq Records
  BY DEF Leaf
<1>2. \A d \in Digit : Child(leaf, d) \in Leaf
  BY <1>1, ChildPrefix DEF Child, Leaf
<1>3. \A d, e \in Digit : Child(leaf, d) = Child(leaf, e) => d = e
  <2> SUFFICES ASSUME NEW d \in Digit, NEW e \in Digit, Child(leaf, d) = Child(leaf, e)
               PROVE  d = e
    OBVIOUS
  <2>1. Append(leaf.prefix, d) = Append(leaf.prefix, e)
    BY DEF Child
  <2>2. Append(leaf.prefix, d)[Len(leaf.prefix) + 1] = d
        /\ Append(leaf.prefix, e)[Len(leaf.prefix) + 1] = e
    BY <1>1, ChildPrefix
  <2> QED
    BY <2>1, <2>2
<1>4. f \in Bijection(Digit, Children(leaf))
  BY <1>3 DEF Children, Bijection, Injection, Surjection, IsInjective
<1>5. IsFiniteSet(Digit) /\ Cardinality(Digit) = Fan
  <2>1. 0 \in Int /\ Fan - 1 \in Int /\ ~(0 > Fan - 1) /\ (Fan - 1) - 0 + 1 = Fan
    BY PrefixAssumption
  <2> QED
    BY <2>1, FS_Interval DEF Digit
<1>6. ExistsBijection(Digit, Children(leaf))
  BY <1>4 DEF ExistsBijection
<1>7. IsFiniteSet(Children(leaf)) /\ Cardinality(Children(leaf)) = Cardinality(Digit)
  BY <1>5, <1>6, FS_Bijection
<1> QED
  BY <1>2, <1>5, <1>7 DEF Children

-----------------------------------------------------------------------------
(* Init and the steps that move no hash to another leaf.                   *)

LEMMA IInvInit == Init => IInv
<1> SUFFICES ASSUME Init PROVE IInv
  OBVIOUS
<1> DEFINE whole == [prefix |-> <<>>, recs |-> input]
<1>1. <<>> \in Prefix
  <2>1. <<>> \in [1..0 -> Digit]
    OBVIOUS
  <2>2. 0 \in 0..MaxDepth
    BY PrefixAssumption
  <2> QED
    BY <2>1, <2>2 DEF Prefix
<1>2. whole \in Leaf /\ queue = {whole} /\ emitted = {} /\ Leaves = {whole}
  BY <1>1 DEF Init, Leaf, Leaves
<1>3. \A h : Covers(whole.prefix, h)
  BY DEF Covers
<1>4. TypeOK
  BY <1>2, PlannerAssumption DEF Init, TypeOK
<1>5. ExactCover
  BY <1>2, <1>3 DEF ExactCover
<1>6. CountExact
  BY <1>2, FS_Singleton DEF CountExact, Init
<1>7. EmittedFit
  BY <1>2 DEF EmittedFit
<1> QED
  BY <1>4, <1>5, <1>6, <1>7 DEF IInv, PlanDone, Init

LEMMA RefuseStep ==
  ASSUME IInv, Refuse
  PROVE  IInv'
BY DEF IInv, TypeOK, ExactCover, CountExact, EmittedFit, PlanDone, Refuse

(* A leaf that is emitted as it is changes no cover.                       *)
LEMMA KeepLeaves ==
  ASSUME IInv, NEW leaf, Take(leaf),
         queue' = queue \ {leaf}, emitted' = emitted \cup {leaf},
         UNCHANGED <<input, route, coverCount, outcome>>
  PROVE  ExactCover' /\ CountExact'
<1>1. Leaves' = Leaves
  BY DEF Leaves, Take
<1>2. ExactCover'
  BY <1>1 DEF IInv, ExactCover
<1>3. CountExact'
  BY <1>1 DEF IInv, CountExact
<1> QED
  BY <1>2, <1>3

LEMMA EmitEmptyStep ==
  ASSUME IInv, NEW leaf \in queue, EmitEmpty(leaf)
  PROVE  IInv'
<1>1. ExactCover' /\ CountExact'
  BY KeepLeaves DEF EmitEmpty
<1>2. TypeOK'
  BY DEF IInv, TypeOK, EmitEmpty
<1>3. EmittedFit'
  BY DEF IInv, EmittedFit, EmitEmpty, NeedsSplit, Bytes
<1> QED
  BY <1>1, <1>2, <1>3 DEF IInv, PlanDone, EmitEmpty, Take

LEMMA EmitStep ==
  ASSUME IInv, NEW leaf \in queue, Emit(leaf)
  PROVE  IInv'
<1>1. CASE Bytes(leaf) > ShardPlaintextBytes \/ cumulative + Bytes(leaf) > CumulativeBytes
  BY <1>1, RefuseStep DEF Emit
<1>2. CASE ~(Bytes(leaf) > ShardPlaintextBytes \/ cumulative + Bytes(leaf) > CumulativeBytes)
  <2>1. /\ queue' = queue \ {leaf} /\ emitted' = emitted \cup {leaf}
        /\ cumulative' = cumulative + Bytes(leaf)
        /\ UNCHANGED <<input, route, coverCount, outcome>>
        /\ Take(leaf) /\ ~NeedsSplit(leaf)
    BY <1>2 DEF Emit
  <2>2. leaf \in Leaf /\ Bytes(leaf) \in Nat
    BY BytesIsNat DEF IInv, TypeOK
  <2>3. ExactCover' /\ CountExact'
    BY <2>1, KeepLeaves
  <2>4. TypeOK'
    BY <1>2, <2>1, <2>2, PlannerAssumption DEF IInv, TypeOK
  <2>5. EmittedFit'
    BY <1>2, <2>1, <2>2, PlannerAssumption DEF IInv, EmittedFit, NeedsSplit, Bytes
  <2> QED
    BY <2>1, <2>3, <2>4, <2>5 DEF IInv, PlanDone, Take
<1> QED
  BY <1>1, <1>2

-----------------------------------------------------------------------------
(* A split.                                                                *)

(* What a split that is not refused does to the leaves as a whole.         *)
LEMMA SplitLeaves ==
  ASSUME IInv, NEW leaf \in queue, Take(leaf),
         queue' = (queue \ {leaf}) \cup {c \in Children(leaf) : c.recs # {}},
         emitted' = emitted \cup {c \in Children(leaf) : c.recs = {}}
  PROVE  Leaves' = (Leaves \ {leaf}) \cup Children(leaf)
<1>1. leaf \notin emitted
  BY DEF IInv, CountExact, Take
<1> QED
  BY <1>1 DEF Leaves

(* No child was a leaf already: the split leaf alone covers what it covers.*)
LEMMA ChildrenAreNew ==
  ASSUME IInv, NEW leaf \in queue, Take(leaf), Len(leaf.prefix) < MaxDepth
  PROVE  Children(leaf) \cap Leaves = {}
<1> SUFFICES ASSUME NEW d \in Digit, Child(leaf, d) \in Leaves
             PROVE  FALSE
  BY DEF Children
<1>1. leaf \in Leaf /\ leaf \in Leaves /\ leaf.prefix \in Prefix
  BY DEF IInv, TypeOK, Leaf, Leaves
<1>2. Child(leaf, d).prefix = Append(leaf.prefix, d)
  BY DEF Child
<1>3. Append(leaf.prefix, d) \in Prefix /\ Len(Append(leaf.prefix, d)) = Len(leaf.prefix) + 1
  BY <1>1, ChildPrefix
<1>4. PICK h \in Hash : Covers(Append(leaf.prefix, d), h)
  BY <1>3, PrefixHasHash
<1>5. Covers(leaf.prefix, h)
  BY <1>1, <1>4, ChildCovers
<1>6. \E x \in Leaves : \A other \in Leaves : Covers(other.prefix, h) <=> other = x
  BY DEF IInv, ExactCover, Take
<1>7. Child(leaf, d) = leaf
  BY <1>1, <1>2, <1>4, <1>5, <1>6
<1>8. Len(leaf.prefix) \in 0..MaxDepth
  BY <1>1, PrefixIsSeq
<1> QED
  BY <1>2, <1>3, <1>7, <1>8

(* The hashes of the split leaf go each to the child of its next digit.    *)
LEMMA SplitCover ==
  ASSUME IInv, NEW leaf \in queue, Take(leaf), Len(leaf.prefix) < MaxDepth,
         NEW h \in Hash
  PROVE  LET new == (Leaves \ {leaf}) \cup Children(leaf)
         IN  \E y \in new : \A other \in new : Covers(other.prefix, h) <=> other = y
<1> DEFINE p == leaf.prefix
           new == (Leaves \ {leaf}) \cup Children(leaf)
<1>1. leaf \in Leaves /\ p \in Prefix
  BY DEF IInv, TypeOK, Leaf, Leaves
<1>2. PICK x \in Leaves : \A other \in Leaves : Covers(other.prefix, h) <=> other = x
  BY DEF IInv, ExactCover, Take
<1>3. \A d \in Digit : Child(leaf, d).prefix = Append(p, d)
  BY DEF Child
<1>4. h[Len(p) + 1] \in Digit
      /\ \A d \in Digit : Covers(Append(p, d), h) <=> Covers(p, h) /\ h[Len(p) + 1] = d
  <2>1. 0 \in Digit
    BY PrefixAssumption DEF Digit
  <2> QED
    BY <1>1, <2>1, ChildCovers
<1>5. CASE x = leaf
  <2> DEFINE y == Child(leaf, h[Len(p) + 1])
  <2>1. y \in new /\ Covers(y.prefix, h)
    BY <1>1, <1>2, <1>3, <1>4, <1>5 DEF Children
  <2>2. \A other \in Leaves \ {leaf} : ~Covers(other.prefix, h)
    BY <1>2, <1>5
  <2>3. \A d \in Digit : Covers(Child(leaf, d).prefix, h) => Child(leaf, d) = y
    BY <1>3, <1>4
  <2> QED
    BY <2>1, <2>2, <2>3 DEF Children
<1>6. CASE x # leaf
  <2>1. ~Covers(p, h)
    BY <1>1, <1>2, <1>6
  <2>2. \A d \in Digit : ~Covers(Child(leaf, d).prefix, h)
    BY <2>1, <1>3, <1>4
  <2>3. x \in new
    BY <1>6
  <2> QED
    BY <1>2, <2>2, <2>3 DEF Children
<1> QED
  BY <1>5, <1>6

(* Each child holds the records of the input that lie under it.            *)
LEMMA ChildRecords ==
  ASSUME IInv, NEW leaf \in queue, Take(leaf), Len(leaf.prefix) < MaxDepth,
         NEW d \in Digit
  PROVE  Child(leaf, d).recs = {r \in input : Covers(Child(leaf, d).prefix, route[r])}
<1>1. leaf.prefix \in Prefix /\ leaf \in Leaves /\ route \in [input -> Hash]
  BY DEF IInv, TypeOK, Leaf, Leaves
<1>2. leaf.recs = {r \in input : Covers(leaf.prefix, route[r])}
  BY <1>1 DEF IInv, ExactCover, Take
<1>3. \A r \in input : Covers(Append(leaf.prefix, d), route[r])
                         <=> Covers(leaf.prefix, route[r]) /\ route[r][Len(leaf.prefix) + 1] = d
  BY <1>1, ChildCovers
<1> QED
  BY <1>2, <1>3 DEF Child

LEMMA SplitStep ==
  ASSUME IInv, NEW leaf \in queue, Split(leaf)
  PROVE  IInv'
<1>1. CASE Len(leaf.prefix) >= MaxDepth \/ coverCount + Fan - 1 > MaxReferences
  BY <1>1, RefuseStep DEF Split
<1>2. CASE ~(Len(leaf.prefix) >= MaxDepth \/ coverCount + Fan - 1 > MaxReferences)
  <2> DEFINE new == (Leaves \ {leaf}) \cup Children(leaf)
  <2>1. /\ queue' = (queue \ {leaf}) \cup {c \in Children(leaf) : c.recs # {}}
        /\ emitted' = emitted \cup {c \in Children(leaf) : c.recs = {}}
        /\ coverCount' = coverCount + Fan - 1
        /\ UNCHANGED <<input, route, cumulative, outcome>>
        /\ Take(leaf)
    BY <1>2 DEF Split
  <2>2. leaf \in Leaf /\ leaf \in Leaves /\ leaf.prefix \in Prefix
    BY DEF IInv, TypeOK, Leaf, Leaves
  <2>3. Len(leaf.prefix) < MaxDepth
    BY <1>2, <2>2, PrefixIsSeq, PrefixAssumption
  <2>4. /\ Children(leaf) \subseteq Leaf
        /\ IsFiniteSet(Children(leaf))
        /\ Cardinality(Children(leaf)) = Fan
    BY <2>2, <2>3, ChildrenAreLeaves
  <2>5. Leaves' = new
    BY <2>1, SplitLeaves
  <2>6. Children(leaf) \cap Leaves = {}
    BY <2>1, <2>3, ChildrenAreNew
  <2>7. TypeOK'
    <3>1. coverCount' \in 1..MaxReferences
      BY <1>2, <2>1, PlannerAssumption, PrefixAssumption DEF IInv, TypeOK
    <3> QED
      BY <3>1, <2>1, <2>4 DEF IInv, TypeOK
  <2>8. ExactCover'
    <3>1. \A h \in Hash : \E y \in new : \A other \in new : Covers(other.prefix, h) <=> other = y
      BY <2>1, <2>3, SplitCover
    <3>2. \A c \in Children(leaf) : c.recs = {r \in input : Covers(c.prefix, route[r])}
      BY <2>1, <2>3, ChildRecords DEF Children
    <3>3. \A c \in Leaves : c.recs = {r \in input : Covers(c.prefix, route[r])}
      BY <2>1 DEF IInv, ExactCover, Take
    <3>4. \A c \in new : c.recs = {r \in input : Covers(c.prefix, route[r])}
      BY <3>2, <3>3
    <3> HIDE DEF new
    <3> QED
      BY <2>1, <2>5, <3>1, <3>4 DEF ExactCover
  <2>9. CountExact'
    <3>1. IsFiniteSet(Leaves) /\ Cardinality(Leaves) = coverCount /\ queue \cap emitted = {}
      BY <2>1 DEF IInv, CountExact, Take
    <3>2. IsFiniteSet(Leaves \ {leaf}) /\ Cardinality(Leaves \ {leaf}) = coverCount - 1
      BY <2>2, <3>1, FS_RemoveElement
    <3>3. (Leaves \ {leaf}) \cap Children(leaf) = {}
      BY <2>6
    <3>4. IsFiniteSet(new)
          /\ Cardinality(new) = Cardinality(Leaves \ {leaf}) + Cardinality(Children(leaf))
                                - Cardinality((Leaves \ {leaf}) \cap Children(leaf))
      BY <2>4, <3>2, FS_Union
    <3>5. Cardinality((Leaves \ {leaf}) \cap Children(leaf)) = 0
      BY <3>3, FS_EmptySet
    <3>6. queue' \cap emitted' = {}
      BY <2>1, <2>6, <3>1 DEF Leaves
    <3>7. coverCount \in Int /\ Fan \in Int
      BY PrefixAssumption DEF IInv, TypeOK
    <3> HIDE DEF new
    <3>8. Cardinality(new) = coverCount + Fan - 1
      BY <2>4, <3>2, <3>4, <3>5, <3>7
    <3> QED
      BY <2>1, <2>5, <3>4, <3>6, <3>8 DEF CountExact
  <2>10. EmittedFit'
    BY <2>1 DEF IInv, EmittedFit, NeedsSplit, Bytes
  <2> QED
    BY <2>1, <2>7, <2>8, <2>9, <2>10 DEF IInv, PlanDone, Take
<1> QED
  BY <1>1, <1>2

LEMMA IInvStep == IInv /\ [Next]_vars => IInv'
<1> SUFFICES ASSUME IInv, [Next]_vars PROVE IInv'
  OBVIOUS
<1>1. ASSUME NEW leaf \in queue, EmitEmpty(leaf) PROVE IInv'
  BY <1>1, EmitEmptyStep
<1>2. ASSUME NEW leaf \in queue, Emit(leaf) PROVE IInv'
  BY <1>2, EmitStep
<1>3. ASSUME NEW leaf \in queue, Split(leaf) PROVE IInv'
  BY <1>3, SplitStep
<1>4. CASE Finish
  <2>1. Leaves' = Leaves
    BY <1>4 DEF Finish, Leaves
  <2> QED
    BY <1>4, <2>1 DEF Finish, IInv, TypeOK, ExactCover, CountExact, EmittedFit, PlanDone, NeedsSplit, Bytes
<1>5. CASE UNCHANGED vars
  <2>1. Leaves' = Leaves
    BY <1>5 DEF vars, Leaves
  <2> QED
    BY <1>5, <2>1 DEF vars, IInv, TypeOK, ExactCover, CountExact, EmittedFit, PlanDone, NeedsSplit, Bytes
<1> QED
  BY <1>1, <1>2, <1>3, <1>4, <1>5 DEF Next

LEMMA IInvAlways == Spec => []IInv
BY IInvInit, IInvStep, PTL DEF Spec

-----------------------------------------------------------------------------
(* Every variable of the planner keeps its type: in particular coverCount  *)
(* and cumulative never pass the limits partitionLeaves compares them with.*)
THEOREM PlannerTypeCorrect == Spec => []TypeOK
<1>1. IInv => TypeOK
  BY DEF IInv
<1> QED
  BY <1>1, IInvAlways, PTL

(* For every catalog and routing, while partitionLeaves works and in the   *)
(* plan it returns, each route hash lies under exactly one leaf, and that  *)
(* leaf holds the record routed there: none is lost, none twice.           *)
THEOREM EveryHashHasItsLeaf == Spec => []ExactCover
<1>1. IInv => ExactCover
  BY DEF IInv
<1> QED
  BY <1>1, IInvAlways, PTL

(* What was not too large when it was emitted is none the larger in the    *)
(* plan.                                                                   *)
LEMMA EmittedMakesFit == IInv => PlanFits
<1>1. IInv /\ queue = {} => PlanFits
  <2> SUFFICES ASSUME IInv, queue = {}, outcome = "planned" PROVE PlanFits
    BY DEF PlanFits
  <2>1. Leaves = emitted
    BY DEF Leaves
  <2>2. Cardinality(emitted) <= MaxReferences
    BY <2>1 DEF IInv, CountExact, TypeOK
  <2>3. ASSUME NEW leaf \in emitted, leaf.recs # {}
        PROVE  /\ Cardinality(leaf.recs) <= MaxRecordsPerLeaf
               /\ Bytes(leaf) <= IF Cardinality(leaf.recs) = 1 THEN ShardPlaintextBytes
                                                               ELSE ShardTargetBytes
    <3>1. leaf \in Leaf /\ ~NeedsSplit(leaf) /\ Bytes(leaf) <= ShardPlaintextBytes
      BY <2>3 DEF IInv, TypeOK, EmittedFit
    <3>2. Bytes(leaf) \in Nat
      BY <3>1, BytesIsNat
    <3>3. IsFiniteSet(leaf.recs)
      BY <3>1, FS_Subset, PlannerAssumption DEF Leaf
    <3>4. Cardinality(leaf.recs) \in Nat /\ Cardinality(leaf.recs) # 0
      BY <2>3, <3>3, FS_CardinalityType, FS_EmptySet
    <3> QED
      BY <3>1, <3>2, <3>4, PlannerAssumption DEF NeedsSplit
  <2> QED
    BY <2>2, <2>3 DEF PlanFits
<1> QED
  BY <1>1 DEF IInv, PlanDone, PlanFits

(* Every plan has at most MaxReferences leaves, and each of its shards fits*)
(* the record count and the bytes its reader will allow it.                *)
THEOREM PlansFit == Spec => []PlanFits
  BY EmittedMakesFit, IInvAlways, PTL

-----------------------------------------------------------------------------
(* What is planned is accepted.                                            *)

(* The prefixes of an exact cover are a partition.                         *)
LEMMA PlannedIsPartition ==
  ASSUME IInv, outcome = "planned"
  PROVE  Partition({leaf.prefix : leaf \in emitted})
<1> SUFFICES ASSUME NEW h \in Hash
             PROVE  \E p \in {leaf.prefix : leaf \in emitted} :
                      \A q \in {leaf.prefix : leaf \in emitted} : Covers(q, h) <=> q = p
  BY DEF Partition
<1>1. Leaves = emitted
  BY DEF IInv, PlanDone, Leaves
<1>2. PICK leaf \in emitted : \A other \in emitted : Covers(other.prefix, h) <=> other = leaf
  BY <1>1 DEF IInv, ExactCover
<1> QED
  BY <1>2

(* The neighbour checks of a reader accept every plan, and of all sets of  *)
(* prefixes they accept the partitions.                                    *)
THEOREM PlansAreAccepted == Spec => []CoverChecked
<1>1. IInv => CoverChecked
  <2> SUFFICES ASSUME IInv, outcome = "planned"
               PROVE  PrefixFreeCover({leaf.prefix : leaf \in emitted})
    BY CoverIsExact DEF CoverChecked
  <2>1. {leaf.prefix : leaf \in emitted} \subseteq Prefix
    BY DEF IInv, TypeOK, Leaf
  <2> QED
    BY <2>1, PlannedIsPartition, PartitionIsCover
<1> QED
  BY <1>1, IInvAlways, PTL

-----------------------------------------------------------------------------
(* The beginnings of prefixes.                                             *)

LEMMA Beginning ==
  ASSUME NEW p \in Prefix, NEW n \in 0..Len(p)
  PROVE  /\ SubSeq(p, 1, n) \in Prefix /\ Len(SubSeq(p, 1, n)) = n
         /\ StartsWith(p, SubSeq(p, 1, n))
         /\ \A q \in Prefix : StartsWith(p, q) /\ Len(q) = n => q = SubSeq(p, 1, n)
<1> DEFINE b == SubSeq(p, 1, n)
<1>1. Len(p) \in 0..MaxDepth /\ p \in Seq(Digit) /\ n \in Nat /\ n <= Len(p) /\ Len(p) \in Nat
  BY PrefixIsSeq, PrefixAssumption
<1>2. \A i \in 1..n : p[i] \in Digit
  BY <1>1
<1>3. b \in Seq(Digit) /\ Len(b) = n /\ \A i \in 1..n : b[i] = p[i]
  BY <1>1, <1>2, SubSeqProperties
<1> HIDE DEF b
<1>4. b \in [1..n -> Digit] /\ n \in 0..MaxDepth
  BY <1>1, <1>3, PrefixAssumption
<1>5. b \in Prefix
  BY <1>4 DEF Prefix
<1>6. StartsWith(p, b)
  BY <1>1, <1>3 DEF StartsWith, Covers
<1>7. ASSUME NEW q \in Prefix, StartsWith(p, q), Len(q) = n PROVE q = b
  <2>1. \A k \in 1..Len(b) : q[k] = b[k]
    BY <1>3, <1>7 DEF StartsWith, Covers
  <2> QED
    BY <1>3, <1>5, <1>7, <2>1, PrefixIs
<1> QED
  BY <1>3, <1>5, <1>6, <1>7 DEF b

LEMMA StartsOrder ==
  /\ \A p \in Prefix : StartsWith(p, p) /\ StartsWith(p, <<>>)
  /\ \A p, q, r \in Prefix : StartsWith(p, q) /\ StartsWith(q, r) => StartsWith(p, r)
  /\ \A p, q \in Prefix : StartsWith(p, q) /\ StartsWith(q, p) => p = q
  /\ \A p, q \in Prefix : StartsWith(p, q) /\ p # q => Len(q) < Len(p)
  /\ \A p, q \in Prefix : \A h \in Hash : StartsWith(p, q) /\ Covers(p, h) => Covers(q, h)
<1>0. \A p \in Prefix : Len(p) \in Nat
  BY PrefixIs
<1>1. ASSUME NEW p \in Prefix PROVE StartsWith(p, p) /\ StartsWith(p, <<>>)
  BY <1>0 DEF StartsWith, Covers
<1>2. ASSUME NEW p \in Prefix, NEW q \in Prefix, NEW r \in Prefix, StartsWith(p, q), StartsWith(q, r)
      PROVE  StartsWith(p, r)
  BY <1>0, <1>2 DEF StartsWith, Covers
<1>3. ASSUME NEW p \in Prefix, NEW q \in Prefix, StartsWith(p, q), ~(Len(q) < Len(p)) PROVE p = q
  <2>1. Len(p) = Len(q) /\ \A k \in 1..Len(q) : p[k] = q[k]
    BY <1>0, <1>3 DEF StartsWith, Covers
  <2> QED
    BY <2>1, PrefixIs
<1>4. ASSUME NEW p \in Prefix, NEW q \in Prefix, NEW h \in Hash, StartsWith(p, q), Covers(p, h)
      PROVE  Covers(q, h)
  BY <1>0, <1>4 DEF StartsWith, Covers
<1>5. \A p, q \in Prefix : StartsWith(p, q) /\ StartsWith(q, p) => p = q
  BY <1>0, <1>3 DEF StartsWith
<1> QED
  BY <1>1, <1>2, <1>3, <1>4, <1>5

(* Of two prefixes over the same hash one begins the other.                *)
LEMMA OneBegins ==
  ASSUME NEW p \in Prefix, NEW q \in Prefix, NEW h \in Hash, Covers(p, h), Covers(q, h)
  PROVE  StartsWith(p, q) \/ StartsWith(q, p)
<1>1. Len(p) \in Nat /\ Len(q) \in Nat
  BY PrefixIs
<1> QED
  BY <1>1, CommonStart

LEMMA ChildBegins ==
  ASSUME NEW p \in Prefix, Len(p) < MaxDepth, NEW d \in Digit, NEW q \in Prefix
  PROVE  StartsWith(Append(p, d), q) <=> q = Append(p, d) \/ StartsWith(p, q)
<1> DEFINE c == Append(p, d)
<1>1. c \in Prefix /\ Len(c) = Len(p) + 1 /\ \A k \in 1..Len(p) : c[k] = p[k]
  BY ChildPrefix
<1> HIDE DEF c
<1>2. Len(p) \in Nat /\ Len(q) \in Nat
  BY PrefixIs
<1>3. ASSUME StartsWith(c, q), q # c PROVE StartsWith(p, q)
  <2>1. Len(q) < Len(c)
    BY <1>1, <1>3, StartsOrder
  <2>2. Len(q) <= Len(p) /\ \A k \in 1..Len(q) : q[k] = c[k]
    BY <1>1, <1>2, <1>3, <2>1 DEF StartsWith, Covers
  <2> QED
    BY <1>1, <1>2, <2>2 DEF StartsWith, Covers
<1>4. ASSUME StartsWith(p, q) PROVE StartsWith(c, q)
  BY <1>1, <1>2, <1>4 DEF StartsWith, Covers
<1>5. StartsWith(c, c)
  BY <1>1, StartsOrder
<1> QED
  BY <1>3, <1>4, <1>5 DEF c

-----------------------------------------------------------------------------
(* What the plan ought to be.                                              *)

LEMMA InnerIs ==
  ASSUME NEW routes, NEW p \in Prefix
  PROVE  p \in Inner(routes) <=>
           \A q \in Prefix : StartsWith(p, q) => NeedsSplit(LeafAt(routes, q))
<1>1. Len(p) \in Nat
  BY PrefixIs
<1>2. ASSUME \A n \in 0..Len(p) : NeedsSplit(LeafAt(routes, SubSeq(p, 1, n))),
             NEW q \in Prefix, StartsWith(p, q)
      PROVE  NeedsSplit(LeafAt(routes, q))
  <2>1. Len(q) \in 0..Len(p)
    BY <1>1, <1>2, PrefixIs DEF StartsWith
  <2>2. q = SubSeq(p, 1, Len(q))
    BY <1>2, <2>1, Beginning
  <2> QED
    BY <1>2, <2>1, <2>2
<1>3. ASSUME \A q \in Prefix : StartsWith(p, q) => NeedsSplit(LeafAt(routes, q)),
             NEW n \in 0..Len(p)
      PROVE  NeedsSplit(LeafAt(routes, SubSeq(p, 1, n)))
  BY <1>3, Beginning
<1> QED
  BY <1>2, <1>3 DEF Inner

LEMMA InnerClosed ==
  ASSUME NEW routes, NEW p \in Inner(routes), NEW q \in Prefix, StartsWith(p, q)
  PROVE  q \in Inner(routes)
<1>1. p \in Prefix
  BY DEF Inner
<1> QED
  BY <1>1, InnerIs, StartsOrder

LEMMA CoarsestIs ==
  ASSUME NEW routes, NEW p \in Prefix
  PROVE  LeafAt(routes, p) \in Coarsest(routes) <=>
           /\ p \notin Inner(routes)
           /\ \A q \in Prefix : StartsWith(p, q) /\ q # p => q \in Inner(routes)
<1>1. Len(p) \in Nat
  BY PrefixIs
<1> DEFINE Up(x) == x = <<>> \/ SubSeq(x, 1, Len(x) - 1) \in Inner(routes)
<1>2. LeafAt(routes, p) \in Coarsest(routes) <=> p \notin Inner(routes) /\ Up(p)
  <2>1. \A q : LeafAt(routes, p) = LeafAt(routes, q) => p = q
    BY DEF LeafAt
  <2> QED
    BY <2>1 DEF Coarsest
<1>3. CASE Len(p) = 0
  <2>1. p = <<>>
    BY <1>3, EmptyPads, PrefixIs
  <2>2. \A q \in Prefix : StartsWith(p, q) => q = p
    BY <1>3, StartsOrder, PrefixIs
  <2> QED
    BY <1>2, <2>1, <2>2
<1>4. CASE Len(p) # 0
  <2> DEFINE b == SubSeq(p, 1, Len(p) - 1)
  <2>0. Len(p) - 1 \in 0..Len(p)
    BY <1>1, <1>4
  <2>1. b \in Prefix /\ Len(b) = Len(p) - 1 /\ StartsWith(p, b) /\ p # <<>>
    <3>1. p # <<>>
      BY <1>4
    <3> QED
      BY <2>0, <3>1, Beginning
  <2> HIDE DEF b
  <2>2. b # p
    BY <1>1, <2>1
  <2>3. ASSUME b \in Inner(routes), NEW q \in Prefix, StartsWith(p, q), q # p
        PROVE  q \in Inner(routes)
    <3>1. Len(q) <= Len(b) /\ Len(q) \in Nat /\ Len(b) \in Nat
      BY <1>1, <2>1, <2>3, StartsOrder, PrefixIs
    <3>2. StartsWith(b, q)
      BY <1>1, <2>1, <2>3, <3>1 DEF StartsWith, Covers
    <3> QED
      BY <2>3, <3>2, InnerClosed
  <2> QED
    BY <1>2, <2>1, <2>2, <2>3 DEF b
<1> QED
  BY <1>3, <1>4

(* A leaf is what its prefix and the routing make it.                      *)
LEMMA LeafIs ==
  ASSUME IInv, outcome # "CAPACITY", NEW leaf \in Leaves
  PROVE  leaf \in Leaf /\ leaf.prefix \in Prefix /\ leaf = LeafAt(route, leaf.prefix)
<1>1. leaf \in Leaf /\ route \in [input -> Hash]
  BY DEF IInv, TypeOK, Leaves
<1>2. leaf.recs = {r \in DOMAIN route : Covers(leaf.prefix, route[r])}
  BY <1>1 DEF IInv, ExactCover
<1> QED
  BY <1>1, <1>2 DEF Leaf, LeafAt

(* No leaf lies under another.                                             *)
LEMMA LeavesApart ==
  ASSUME IInv, outcome # "CAPACITY", NEW leaf \in Leaves, NEW other \in Leaves,
         StartsWith(leaf.prefix, other.prefix)
  PROVE  leaf = other
<1>1. leaf.prefix \in Prefix /\ other.prefix \in Prefix
  BY LeafIs
<1>2. PICK h \in Hash : Covers(leaf.prefix, h)
  BY <1>1, PrefixHasHash
<1>3. Covers(other.prefix, h)
  BY <1>1, <1>2, StartsOrder
<1> QED
  BY <1>2, <1>3 DEF IInv, ExactCover

(* Every prefix lies above a leaf or under one.                            *)
LEMMA LeafNear ==
  ASSUME IInv, outcome # "CAPACITY", NEW p \in Prefix
  PROVE  \E leaf \in Leaves : StartsWith(leaf.prefix, p) \/ StartsWith(p, leaf.prefix)
<1>1. PICK h \in Hash : Covers(p, h)
  BY PrefixHasHash
<1>2. PICK leaf \in Leaves : Covers(leaf.prefix, h)
  BY DEF IInv, ExactCover
<1> QED
  BY <1>1, <1>2, LeafIs, OneBegins

(* What need not be split is a leaf of the coarsest cover, what must be is *)
(* one of the prefixes it leaves out.                                      *)
LEMMA SmallLeaf ==
  ASSUME ExactInv, outcome # "CAPACITY", NEW leaf \in Leaves, ~NeedsSplit(leaf)
  PROVE  leaf \in Coarsest(route)
<1>1. leaf \in Leaf /\ leaf.prefix \in Prefix /\ leaf = LeafAt(route, leaf.prefix)
  BY LeafIs DEF ExactInv
<1>2. leaf.prefix \notin Inner(route)
  BY <1>1, InnerIs, StartsOrder
<1>3. \A q \in Prefix : StartsWith(leaf.prefix, q) /\ q # leaf.prefix => q \in Inner(route)
  BY DEF ExactInv, SplitOff
<1> QED
  BY <1>1, <1>2, <1>3, CoarsestIs

LEMMA LargeLeaf ==
  ASSUME ExactInv, outcome # "CAPACITY", NEW leaf \in Leaves, NeedsSplit(leaf)
  PROVE  leaf.prefix \in Inner(route) /\ leaf.prefix \notin SplitOff
<1>1. leaf.prefix \in Prefix /\ leaf = LeafAt(route, leaf.prefix)
  BY LeafIs DEF ExactInv
<1>2. ASSUME NEW q \in Prefix, StartsWith(leaf.prefix, q) PROVE NeedsSplit(LeafAt(route, q))
  <2>1. CASE q = leaf.prefix
    BY <1>1, <2>1
  <2>2. CASE q # leaf.prefix
    <3>1. q \in Inner(route)
      BY <1>2, <2>2 DEF ExactInv, SplitOff
    <3> QED
      BY <3>1, InnerIs, StartsOrder
  <2> QED
    BY <2>1, <2>2
<1>3. leaf.prefix \in Inner(route)
  BY <1>1, <1>2, InnerIs
<1>4. ASSUME NEW other \in Leaves, StartsWith(other.prefix, leaf.prefix) PROVE other = leaf
  BY <1>4, LeavesApart DEF ExactInv
<1> QED
  BY <1>3, <1>4 DEF SplitOff

LEMMA FinitePrefixes ==
  ASSUME NEW routes
  PROVE  IsFiniteSet(Inner(routes)) /\ IsFiniteSet(Coarsest(routes))
<1>1. IsFiniteSet(Inner(routes))
  BY PrefixesAreFinite, FS_Subset DEF Inner
<1> DEFINE P == {q \in Prefix \ Inner(routes) :
                   q = <<>> \/ SubSeq(q, 1, Len(q) - 1) \in Inner(routes)}
           f == [p \in P |-> LeafAt(routes, p)]
<1>2. IsFiniteSet(P)
  BY PrefixesAreFinite, FS_Subset
<1>3. Coarsest(routes) = {f[p] : p \in P}
  BY DEF Coarsest
<1> HIDE DEF P, f
<1> QED
  BY <1>1, <1>2, <1>3, ImageIsFinite

LEMMA CoarsestLeaf ==
  ASSUME IInv, NEW leaf \in Coarsest(route)
  PROVE  /\ leaf \in Leaf /\ leaf.prefix \in Prefix /\ leaf = LeafAt(route, leaf.prefix)
         /\ leaf.prefix \notin Inner(route)
<1>1. PICK p \in Prefix \ Inner(route) : leaf = LeafAt(route, p)
  BY DEF Coarsest
<1>2. DOMAIN route \subseteq Records
  BY DEF IInv, TypeOK
<1> QED
  BY <1>1, <1>2 DEF LeafAt, Leaf
(* The sizes of a finite set of leaves or references add up to a number.   *)
LEMMA TotalIs ==
  ASSUME NEW S, IsFiniteSet(S), \A leaf \in S : Bytes(leaf) \in Nat
  PROVE  /\ TotalBytes(S) \in Nat
         /\ TotalBytes(S) = Weight([leaf \in S |-> Bytes(leaf)], {leaf \in S : leaf.recs # {}})
<1> DEFINE T == {l \in S : l.recs # {}}
           w == [leaf \in T |-> Bytes(leaf)]
           v == [leaf \in S |-> Bytes(leaf)]
<1>1. T \subseteq S /\ IsFiniteSet(T)
  BY FS_Subset
<1>2. TotalBytes(S) = SumFunction(w)
  BY DEF TotalBytes
<1>3. DOMAIN w = T /\ (\A x \in T : w[x] \in Nat) /\ (\A x \in T : w[x] = v[x])
  OBVIOUS
<1> HIDE DEF w, v, T
<1>4. SumFunction(w) = Weight(w, T)
  BY <1>1, <1>3, SumIsWeight
<1>5. Weight(w, T) \in Nat
  BY <1>1, <1>3, WeightType
<1>6. Weight(w, T) = Weight(v, T)
  BY <1>3, SameWeight
<1> QED
  BY <1>2, <1>4, <1>5, <1>6 DEF v, T

LEMMA TotalAdds ==
  ASSUME NEW S, IsFiniteSet(S), NEW leaf, leaf \notin S,
         \A x \in S \cup {leaf} : Bytes(x) \in Nat
  PROVE  TotalBytes(S \cup {leaf}) =
           TotalBytes(S) + IF leaf.recs = {} THEN 0 ELSE Bytes(leaf)
<1> DEFINE T == S \cup {leaf}
           full(X) == {x \in X : x.recs # {}}
           w == [x \in T |-> Bytes(x)]
           v == [x \in S |-> Bytes(x)]
<1>1. IsFiniteSet(T)
  BY FS_AddElement
<1>2. TotalBytes(T) = Weight(w, full(T)) /\ TotalBytes(S) = Weight(v, full(S)) /\ TotalBytes(S) \in Nat
  BY <1>1, TotalIs
<1>3. full(S) \subseteq S /\ IsFiniteSet(full(S)) /\ leaf \notin full(S)
  BY FS_Subset
<1>4. full(T) = IF leaf.recs = {} THEN full(S) ELSE full(S) \cup {leaf}
  OBVIOUS
<1>5. (\A x \in T : w[x] \in Nat) /\ (\A x \in S : v[x] = w[x]) /\ w[leaf] = Bytes(leaf)
  OBVIOUS
<1> HIDE DEF w, v
<1>6. Weight(v, full(S)) = Weight(w, full(S))
  BY <1>3, <1>5, SameWeight
<1>7. Weight(w, full(S) \cup {leaf}) = Weight(w, full(S)) + w[leaf]
  BY <1>3, <1>5, WeightAdds
<1> HIDE DEF full, T
<1>8. CASE leaf.recs = {}
  BY <1>2, <1>4, <1>6, <1>8 DEF T
<1>9. CASE leaf.recs # {}
  BY <1>2, <1>4, <1>5, <1>6, <1>7, <1>9 DEF T
<1> QED
  BY <1>8, <1>9

LEMMA TotalIgnores ==
  ASSUME NEW S, NEW T, \A x \in T : x.recs = {}
  PROVE  TotalBytes(S \cup T) = TotalBytes(S)
<1>1. {x \in S \cup T : x.recs # {}} = {x \in S : x.recs # {}}
  OBVIOUS
<1> QED
  BY <1>1 DEF TotalBytes

LEMMA TotalGrows ==
  ASSUME NEW T, IsFiniteSet(T), \A x \in T : Bytes(x) \in Nat, NEW S \in SUBSET T
  PROVE  TotalBytes(S) <= TotalBytes(T)
<1> DEFINE w == [x \in T |-> Bytes(x)]
           v == [x \in S |-> Bytes(x)]
           s == {x \in S : x.recs # {}}
           t == {x \in T : x.recs # {}}
<1>1. IsFiniteSet(S) /\ s \in SUBSET t /\ IsFiniteSet(t)
  BY FS_Subset
<1>2. (\A x \in t : w[x] \in Nat) /\ (\A x \in s : v[x] \in Nat /\ v[x] <= w[x])
  OBVIOUS
<1>3. TotalBytes(T) = Weight(w, t) /\ TotalBytes(S) = Weight(v, s)
  BY <1>1, TotalIs
<1> HIDE DEF w, v, s, t
<1> QED
  BY <1>1, <1>2, <1>3, WeightGrows

-----------------------------------------------------------------------------
(* The strengthened invariant.                                             *)

LEMMA ExactInvInit == Init => ExactInv
<1> SUFFICES ASSUME Init PROVE ExactInv
  OBVIOUS
<1>1. IInv
  BY IInvInit
<1>2. Leaves = {[prefix |-> <<>>, recs |-> input]} /\ emitted = {} /\ coverCount = 1
      /\ cumulative = 0 /\ outcome = "planning"
  BY DEF Init, Leaves
<1>3. SplitOff = {}
  <2> SUFFICES ASSUME NEW p \in Prefix, StartsWith(<<>>, p), p # <<>> PROVE FALSE
    BY <1>2 DEF SplitOff
  <2>1. <<>> \in Prefix
    BY EmptyPads
  <2>2. StartsWith(p, <<>>)
    BY StartsOrder
  <2> QED
    BY <2>1, <2>2, StartsOrder
<1>4. Cardinality({}) = 0
  BY FS_EmptySet
<1>5. TotalBytes({}) = 0
  <2> DEFINE w == [x \in {} |-> Bytes(x)]
  <2>1. IsFiniteSet({})
    BY FS_EmptySet
  <2>2. TotalBytes({}) = Weight(w, {})
    <3>1. \A x \in {} : Bytes(x) \in Nat
      OBVIOUS
    <3>2. {x \in {} : x.recs # {}} = {}
      OBVIOUS
    <3> QED
      BY <2>1, <3>1, <3>2, TotalIs
  <2> QED
    BY <2>2, WeightOfNone
<1>6. coverCount = 1 + (Fan - 1) * Cardinality(SplitOff)
  BY <1>2, <1>3, <1>4, PrefixAssumption
<1> QED
  BY <1>1, <1>2, <1>3, <1>5, <1>6 DEF ExactInv

(* A leaf that is emitted as it is splits no prefix.                       *)
LEMMA EmitKeepsExact ==
  ASSUME ExactInv, IInv', NEW leaf \in queue, Take(leaf), ~NeedsSplit(leaf),
         queue' = queue \ {leaf}, emitted' = emitted \cup {leaf},
         cumulative' = cumulative + IF leaf.recs = {} THEN 0 ELSE Bytes(leaf),
         UNCHANGED <<input, route, coverCount, outcome>>
  PROVE  ExactInv'
<1>0. outcome # "CAPACITY" /\ IInv
  BY DEF Take, ExactInv
<1>1. Leaves' = Leaves
  BY DEF Leaves
<1>2. SplitOff' = SplitOff
  BY <1>1 DEF SplitOff
<1>3. IsFiniteSet(emitted) /\ leaf \notin emitted
  <2>1. emitted \subseteq Leaves /\ IsFiniteSet(Leaves) /\ queue \cap emitted = {}
    BY <1>0 DEF IInv, CountExact, Leaves
  <2> QED
    BY <2>1, FS_Subset
<1>4. \A x \in emitted \cup {leaf} : Bytes(x) \in Nat
  BY <1>0, BytesIsNat DEF IInv, TypeOK
<1>5. TotalBytes(emitted') = TotalBytes(emitted) + IF leaf.recs = {} THEN 0 ELSE Bytes(leaf)
  BY <1>3, <1>4, TotalAdds
<1>6. cumulative' = TotalBytes(emitted')
  BY <1>0, <1>5 DEF ExactInv
<1>7. \A x \in emitted' : ~NeedsSplit(x)
  BY <1>0 DEF ExactInv
<1> QED
  BY <1>0, <1>2, <1>6, <1>7 DEF ExactInv

(* What is refused does not fit.                                           *)
LEMMA RefuseKeepsExact ==
  ASSUME ExactInv, IInv', Refuse, ~Feasible(route)
  PROVE  ExactInv'
BY DEF ExactInv, Refuse

LEMMA ExactEmitStep ==
  ASSUME ExactInv, IInv', NEW leaf \in queue, Emit(leaf)
  PROVE  ExactInv'
<1>0. outcome # "CAPACITY" /\ IInv /\ Take(leaf) /\ ~NeedsSplit(leaf) /\ leaf.recs # {}
  BY DEF Take, ExactInv, Emit
<1> DEFINE large == Bytes(leaf) > ShardPlaintextBytes \/ cumulative + Bytes(leaf) > CumulativeBytes
<1>1. CASE ~large
  <2>1. /\ queue' = queue \ {leaf} /\ emitted' = emitted \cup {leaf}
        /\ cumulative' = cumulative + Bytes(leaf)
        /\ UNCHANGED <<input, route, coverCount, outcome>>
    BY <1>1 DEF Emit
  <2> QED
    BY <1>0, <2>1, EmitKeepsExact
<1>2. CASE large
  <2>1. leaf \in Leaves /\ emitted \subseteq Leaves
    BY DEF Leaves
  <2>2. leaf \in Coarsest(route)
    BY <1>0, <2>1, SmallLeaf
  <2>3. emitted \cup {leaf} \subseteq Coarsest(route)
    BY <1>0, <2>1, <2>2, SmallLeaf DEF ExactInv
  <2>4. \A x \in Coarsest(route) : Bytes(x) \in Nat
    BY <1>0, CoarsestLeaf, BytesIsNat
  <2>5. IsFiniteSet(Coarsest(route))
    BY FinitePrefixes
  <2>6. IsFiniteSet(emitted) /\ leaf \notin emitted
    <3>1. IsFiniteSet(Leaves) /\ queue \cap emitted = {}
      BY <1>0 DEF IInv, CountExact
    <3> QED
      BY <2>1, <3>1, FS_Subset
  <2>7. TotalBytes(emitted \cup {leaf}) = cumulative + Bytes(leaf)
    BY <1>0, <2>3, <2>4, <2>6, TotalAdds DEF ExactInv
  <2>8. TotalBytes(emitted \cup {leaf}) <= TotalBytes(Coarsest(route))
    BY <2>3, <2>4, <2>5, TotalGrows
  <2>9. TotalBytes(Coarsest(route)) \in Nat
    BY <2>4, <2>5, TotalIs
  <2>10. Bytes(leaf) \in Nat /\ cumulative \in Nat
    BY <1>0, <2>2, <2>4 DEF IInv, TypeOK
  <2>11. ~Feasible(route)
    <3>1. CASE Bytes(leaf) > ShardPlaintextBytes
      BY <1>0, <2>2, <2>10, <3>1, PlannerAssumption DEF Feasible
    <3>2. CASE cumulative + Bytes(leaf) > CumulativeBytes
      <4>1. ~(TotalBytes(Coarsest(route)) <= CumulativeBytes)
        BY <2>7, <2>8, <2>9, <2>10, <3>2, PlannerAssumption
      <4> QED
        BY <4>1 DEF Feasible
    <3> QED
      BY <1>2, <3>1, <3>2
  <2>12. Refuse
    BY <1>2 DEF Emit
  <2> QED
    BY <2>11, <2>12, RefuseKeepsExact
<1> QED
  BY <1>1, <1>2

(* A split takes the prefix of the leaf to those that have been split.     *)
LEMMA SplitOffGrows ==
  ASSUME IInv, NEW leaf \in Leaves, outcome # "CAPACITY", Len(leaf.prefix) < MaxDepth,
         Leaves' = (Leaves \ {leaf}) \cup Children(leaf)
  PROVE  SplitOff' = SplitOff \cup {leaf.prefix}
<1> DEFINE q == leaf.prefix
           Above(x, p) == StartsWith(x, p) /\ p # x
<1>1. q \in Prefix /\ Len(q) \in Nat
  BY LeafIs, PrefixIs
<1>2. ASSUME NEW p \in Prefix, NEW d \in Digit
      PROVE  Above(Append(q, d), p) <=> StartsWith(q, p)
  <2>1. StartsWith(Append(q, d), p) <=> p = Append(q, d) \/ StartsWith(q, p)
    BY <1>1, <1>2, ChildBegins
  <2>2. Append(q, d) \in Prefix /\ Len(Append(q, d)) = Len(q) + 1
    BY <1>1, ChildPrefix
  <2>3. StartsWith(q, p) => p # Append(q, d)
    BY <1>1, <2>2 DEF StartsWith
  <2> QED
    BY <2>1, <2>3
<1>3. 0 \in Digit
  BY PrefixAssumption DEF Digit
<1>4. \A p \in Prefix : (\E c \in Children(leaf) : Above(c.prefix, p)) <=> StartsWith(q, p)
  <2>1. /\ \A d \in Digit : Child(leaf, d) \in Children(leaf) /\ Child(leaf, d).prefix = Append(q, d)
        /\ \A c \in Children(leaf) : \E d \in Digit : c.prefix = Append(q, d)
    <3>1. \A d \in Digit : Child(leaf, d) \in Children(leaf)
      BY DEF Children
    <3>2. \A c \in Children(leaf) : \E d \in Digit : c = Child(leaf, d)
      BY DEF Children
    <3>3. \A d \in Digit : Child(leaf, d).prefix = Append(q, d)
      BY DEF Child
    <3> HIDE DEF q, Above
    <3> QED
      BY <3>1, <3>2, <3>3
  <2> HIDE DEF q, Above
  <2>2. \A p \in Prefix : \A d \in Digit : Above(Append(q, d), p) <=> StartsWith(q, p)
    BY <1>2
  <2> TAKE p \in Prefix
  <2>3. ASSUME NEW c \in Children(leaf), Above(c.prefix, p) PROVE StartsWith(q, p)
    BY <2>1, <2>2, <2>3
  <2>4. StartsWith(q, p) => Above(Child(leaf, 0).prefix, p)
    BY <1>3, <2>1, <2>2
  <2> QED
    BY <1>3, <2>1, <2>3, <2>4
<1>5. \A p \in Prefix : StartsWith(q, p) <=> p = q \/ Above(q, p)
  BY <1>1, StartsOrder
<1>6. \A p \in Prefix : (\E x \in Leaves' : Above(x.prefix, p))
                          <=> (\E x \in Leaves : Above(x.prefix, p)) \/ p = q
  <2> TAKE p \in Prefix
  <2>1. (\E x \in Leaves' : Above(x.prefix, p))
          <=> (\E x \in Leaves \ {leaf} : Above(x.prefix, p)) \/ \E c \in Children(leaf) : Above(c.prefix, p)
    OBVIOUS
  <2>2. (\E x \in Leaves : Above(x.prefix, p))
          <=> (\E x \in Leaves \ {leaf} : Above(x.prefix, p)) \/ Above(q, p)
    OBVIOUS
  <2> QED
    BY <1>4, <1>5, <2>1, <2>2
<1> QED
  BY <1>1, <1>6 DEF SplitOff

LEMMA FanAdds ==
  ASSUME NEW n \in Nat, NEW m \in Nat, n + 1 <= m
  PROVE  /\ (Fan - 1) * (n + 1) = (Fan - 1) * n + (Fan - 1)
         /\ (Fan - 1) * (n + 1) <= (Fan - 1) * m
<1> DEFINE k == Fan - 1
<1>1. k \in Nat
  BY PrefixAssumption
<1> HIDE DEF k
<1>2. PICK j \in Nat : m = n + 1 + j
  <2>1. m - (n + 1) \in Nat /\ m = n + 1 + (m - (n + 1))
    OBVIOUS
  <2> QED
    BY <2>1
<1>3. k * (n + 1 + j) = k * (n + 1) + k * j /\ k * j \in Nat /\ k * (n + 1) \in Nat
  BY <1>1
<1>4. k * (n + 1) = k * n + k
  BY <1>1
<1> QED
  BY <1>2, <1>3, <1>4 DEF k

LEMMA ExactSplitStep ==
  ASSUME ExactInv, IInv', NEW leaf \in queue, Split(leaf)
  PROVE  ExactInv'
<1>0. outcome # "CAPACITY" /\ IInv /\ Take(leaf) /\ NeedsSplit(leaf) /\ leaf \in Leaves
  BY DEF Take, ExactInv, Split, Leaves
<1>1. leaf.prefix \in Inner(route) /\ leaf.prefix \notin SplitOff
  BY <1>0, LargeLeaf
<1>2. IsFiniteSet(SplitOff) /\ IsFiniteSet(Inner(route)) /\ Cardinality(SplitOff) \in Nat
      /\ Cardinality(Inner(route)) \in Nat
  BY PrefixesAreFinite, FinitePrefixes, FS_Subset, FS_CardinalityType DEF SplitOff
<1>3. IsFiniteSet(SplitOff \cup {leaf.prefix})
      /\ Cardinality(SplitOff \cup {leaf.prefix}) = Cardinality(SplitOff) + 1
  BY <1>1, <1>2, FS_AddElement
<1>4. SplitOff \cup {leaf.prefix} \subseteq Inner(route)
  BY <1>0, <1>1 DEF ExactInv
<1>5. Cardinality(SplitOff) + 1 <= Cardinality(Inner(route))
  BY <1>2, <1>3, <1>4, FS_Subset
<1>6. /\ (Fan - 1) * (Cardinality(SplitOff) + 1) = (Fan - 1) * Cardinality(SplitOff) + (Fan - 1)
      /\ (Fan - 1) * (Cardinality(SplitOff) + 1) <= (Fan - 1) * Cardinality(Inner(route))
  BY <1>2, <1>5, FanAdds
<1>7. coverCount = 1 + (Fan - 1) * Cardinality(SplitOff) /\ coverCount \in Nat /\ Fan \in Nat
      /\ MaxReferences \in Nat
  BY <1>0, PrefixAssumption, PlannerAssumption DEF ExactInv, IInv, TypeOK
<1>8. Len(leaf.prefix) \in Nat /\ leaf.prefix \in Prefix
  BY <1>0, LeafIs, PrefixIs
<1> DEFINE over == Len(leaf.prefix) >= MaxDepth \/ coverCount + Fan - 1 > MaxReferences
<1>9. CASE over
  <2>1. Refuse
    BY <1>9 DEF Split
  <2>2. ASSUME coverCount + Fan - 1 > MaxReferences
        PROVE  ~(1 + (Fan - 1) * Cardinality(Inner(route)) <= MaxReferences)
    <3> DEFINE a == (Fan - 1) * Cardinality(SplitOff)
               b == (Fan - 1) * Cardinality(Inner(route))
               c == (Fan - 1) * (Cardinality(SplitOff) + 1)
    <3>1. a \in Int /\ b \in Int /\ c \in Int
      BY <1>2, <1>7
    <3>2. c = a + (Fan - 1) /\ c <= b /\ coverCount = 1 + a
      BY <1>6, <1>7
    <3> HIDE DEF a, b, c
    <3>3. ~(1 + b <= MaxReferences)
      BY <1>7, <2>2, <3>1, <3>2
    <3> QED
      BY <3>3 DEF b
  <2>3. ASSUME Len(leaf.prefix) >= MaxDepth
        PROVE  ~(Len(leaf.prefix) < MaxDepth)
    BY <1>8, <2>3, PrefixAssumption
  <2>4. ~Feasible(route)
    BY <1>1, <1>9, <2>2, <2>3 DEF Feasible
  <2> QED
    BY <2>1, <2>4, RefuseKeepsExact
<1>10. CASE ~over
  <2>1. /\ queue' = (queue \ {leaf}) \cup {x \in Children(leaf) : x.recs # {}}
        /\ emitted' = emitted \cup {x \in Children(leaf) : x.recs = {}}
        /\ coverCount' = coverCount + Fan - 1
        /\ UNCHANGED <<input, route, cumulative, outcome>>
    BY <1>10 DEF Split
  <2>2. Leaves' = (Leaves \ {leaf}) \cup Children(leaf)
    BY <1>0, <2>1, SplitLeaves
  <2>3. Len(leaf.prefix) < MaxDepth
    BY <1>8, <1>10, PrefixAssumption
  <2>4. SplitOff' = SplitOff \cup {leaf.prefix}
    BY <1>0, <2>2, <2>3, SplitOffGrows
  <2>5. SplitOff' \subseteq Inner(route')
    BY <1>4, <2>1, <2>4
  <2>6. coverCount' = 1 + (Fan - 1) * Cardinality(SplitOff')
    <3>1. Cardinality(SplitOff') = Cardinality(SplitOff) + 1
      BY <1>3, <2>4
    <3> DEFINE a == (Fan - 1) * Cardinality(SplitOff)
    <3>2. a \in Int
      BY <1>2, <1>7
    <3>3. (Fan - 1) * Cardinality(SplitOff') = a + (Fan - 1) /\ coverCount = 1 + a
      BY <1>6, <1>7, <3>1
    <3> HIDE DEF a
    <3> QED
      BY <1>7, <2>1, <3>2, <3>3
  <2>7. \A x \in emitted' : ~NeedsSplit(x)
    <3>1. ASSUME NEW x, x.recs = {} PROVE ~NeedsSplit(x)
      BY <3>1, FS_EmptySet DEF NeedsSplit
    <3> QED
      BY <1>0, <2>1, <3>1 DEF ExactInv
  <2>8. cumulative' = TotalBytes(emitted')
    <3>1. TotalBytes(emitted \cup {x \in Children(leaf) : x.recs = {}}) = TotalBytes(emitted)
      BY TotalIgnores
    <3> QED
      BY <1>0, <2>1, <3>1 DEF ExactInv
  <2> QED
    BY <1>0, <2>1, <2>5, <2>6, <2>7, <2>8 DEF ExactInv
<1> QED
  BY <1>9, <1>10

LEMMA ExactInvStep == ExactInv /\ [Next]_vars => ExactInv'
<1> SUFFICES ASSUME ExactInv, [Next]_vars PROVE ExactInv'
  OBVIOUS
<1>0. IInv'
  BY IInvStep DEF ExactInv
<1>1. ASSUME NEW leaf \in queue, EmitEmpty(leaf) PROVE ExactInv'
  <2>1. ~NeedsSplit(leaf)
    BY <1>1, FS_EmptySet DEF EmitEmpty, NeedsSplit
  <2>2. cumulative' = cumulative + 0
    BY <1>1, PlannerAssumption DEF EmitEmpty, ExactInv, IInv, TypeOK
  <2> QED
    BY <1>0, <1>1, <2>1, <2>2, EmitKeepsExact DEF EmitEmpty
<1>2. ASSUME NEW leaf \in queue, Emit(leaf) PROVE ExactInv'
  BY <1>0, <1>2, ExactEmitStep
<1>3. ASSUME NEW leaf \in queue, Split(leaf) PROVE ExactInv'
  BY <1>0, <1>3, ExactSplitStep
<1>4. CASE Finish
  <2>1. Leaves' = Leaves
    BY <1>4 DEF Finish, Leaves
  <2>2. SplitOff' = SplitOff
    BY <2>1 DEF SplitOff
  <2> QED
    BY <1>0, <1>4, <2>2 DEF Finish, ExactInv
<1>5. CASE UNCHANGED vars
  <2>1. Leaves' = Leaves
    BY <1>5 DEF vars, Leaves
  <2>2. SplitOff' = SplitOff
    BY <2>1 DEF SplitOff
  <2> QED
    BY <1>0, <1>5, <2>2 DEF vars, ExactInv
<1> QED
  BY <1>1, <1>2, <1>3, <1>4, <1>5 DEF Next

LEMMA ExactInvAlways == Spec => []ExactInv
BY ExactInvInit, ExactInvStep, PTL DEF Spec

(* A cover all of whose leaves are small is the coarsest one: no prefix    *)
(* that need not be split has been.                                        *)
LEMMA PlannedIsCoarsest ==
  ASSUME ExactInv, outcome = "planned"
  PROVE  Feasible(route) /\ emitted = Coarsest(route)
<1>0. outcome # "CAPACITY" /\ IInv /\ Leaves = emitted /\ \A leaf \in emitted : ~NeedsSplit(leaf)
  BY DEF ExactInv, IInv, PlanDone, Leaves
<1>1. emitted \subseteq Coarsest(route)
  BY <1>0, SmallLeaf
<1>2. Inner(route) \subseteq SplitOff
  <2> SUFFICES ASSUME NEW p \in Inner(route) PROVE p \in SplitOff
    OBVIOUS
  <2>1. p \in Prefix
    BY DEF Inner
  <2>2. PICK leaf \in Leaves : StartsWith(leaf.prefix, p) \/ StartsWith(p, leaf.prefix)
    BY <1>0, <2>1, LeafNear
  <2>3. leaf.prefix \in Prefix /\ leaf = LeafAt(route, leaf.prefix) /\ ~NeedsSplit(leaf)
    BY <1>0, LeafIs
  <2>4. ~StartsWith(p, leaf.prefix)
    BY <2>1, <2>3, InnerIs
  <2>5. StartsWith(leaf.prefix, p) /\ p # leaf.prefix
    BY <2>1, <2>2, <2>4, StartsOrder
  <2> QED
    BY <2>1, <2>5 DEF SplitOff
<1>3. Coarsest(route) \subseteq emitted
  <2> SUFFICES ASSUME NEW leaf \in Coarsest(route) PROVE leaf \in emitted
    OBVIOUS
  <2>1. leaf.prefix \in Prefix /\ leaf = LeafAt(route, leaf.prefix) /\ leaf.prefix \notin Inner(route)
    BY <1>0, CoarsestLeaf
  <2>2. \A q \in Prefix : StartsWith(leaf.prefix, q) /\ q # leaf.prefix => q \in Inner(route)
    BY <2>1, CoarsestIs
  <2>3. PICK other \in Leaves : StartsWith(other.prefix, leaf.prefix) \/ StartsWith(leaf.prefix, other.prefix)
    BY <1>0, <2>1, LeafNear
  <2>4. other.prefix \in Prefix /\ other = LeafAt(route, other.prefix) /\ ~NeedsSplit(other)
    BY <1>0, LeafIs
  <2>5. CASE StartsWith(other.prefix, leaf.prefix) /\ leaf.prefix # other.prefix
    <3>1. leaf.prefix \in SplitOff
      BY <2>1, <2>5 DEF SplitOff
    <3> QED
      BY <1>0, <2>1, <3>1 DEF ExactInv
  <2>6. CASE StartsWith(leaf.prefix, other.prefix) /\ leaf.prefix # other.prefix
    <3>1. other.prefix \in Inner(route)
      BY <2>2, <2>4, <2>6
    <3> QED
      BY <2>4, <3>1, InnerIs, StartsOrder
  <2>7. CASE leaf.prefix = other.prefix
    BY <1>0, <2>1, <2>4, <2>7
  <2> QED
    BY <2>3, <2>5, <2>6, <2>7
<1>4. emitted = Coarsest(route)
  BY <1>1, <1>3
<1>5. Inner(route) = SplitOff
  BY <1>0, <1>2 DEF ExactInv
<1>6. \A p \in Inner(route) : Len(p) < MaxDepth
  <2> SUFFICES ASSUME NEW p \in SplitOff PROVE Len(p) < MaxDepth
    BY <1>5
  <2>1. PICK leaf \in Leaves : StartsWith(leaf.prefix, p) /\ p # leaf.prefix
    BY DEF SplitOff
  <2>2. p \in Prefix /\ leaf.prefix \in Prefix
    BY <1>0, LeafIs DEF SplitOff
  <2>3. Len(p) < Len(leaf.prefix) /\ Len(leaf.prefix) \in 0..MaxDepth /\ Len(p) \in 0..MaxDepth
    BY <2>1, <2>2, StartsOrder, PrefixIsSeq
  <2> QED
    BY <2>3, PrefixAssumption
<1>7. 1 + (Fan - 1) * Cardinality(Inner(route)) <= MaxReferences
  <2>1. coverCount = 1 + (Fan - 1) * Cardinality(Inner(route))
    BY <1>0, <1>5 DEF ExactInv
  <2>2. coverCount \in 1..MaxReferences
    BY <1>0 DEF IInv, TypeOK
  <2> QED
    BY <2>1, <2>2, PlannerAssumption
<1>8. \A leaf \in Coarsest(route) : leaf.recs # {} => Bytes(leaf) <= ShardPlaintextBytes
  BY <1>0, <1>4 DEF IInv, EmittedFit
<1>9. TotalBytes(Coarsest(route)) <= CumulativeBytes
  <2>1. cumulative = TotalBytes(Coarsest(route)) /\ cumulative \in 0..CumulativeBytes
    BY <1>0, <1>4 DEF ExactInv, IInv, TypeOK
  <2> QED
    BY <2>1, PlannerAssumption
<1> QED
  BY <1>4, <1>6, <1>7, <1>8, <1>9 DEF Feasible

LEMMA PlannerKeepsInput ==
  ASSUME [Next]_vars
  PROVE  UNCHANGED <<input, route>>
  BY DEF Next, EmitEmpty, Emit, Split, Finish, Refuse, vars

(* partitionLeaves plans the coarsest cover that fits, whatever the order  *)
(* of its worklist, and throws WPP_CATALOG_CAPACITY only when none fits.   *)
THEOREM PlanIsExact == Spec => PlanExact
<1>1. ExactInv /\ outcome = "planned" => Feasible(route) /\ emitted = Coarsest(route)
  BY PlannedIsCoarsest
<1>2. (ExactInv /\ outcome = "planned" => Feasible(route) /\ emitted = Coarsest(route))'
  BY <1>1, PTL
<1>3. ASSUME ExactInv, ExactInv', [Next]_vars
      PROVE  [outcome' # outcome =>
                IF outcome' = "planned" THEN Feasible(route) /\ emitted' = Coarsest(route)
                                        ELSE ~Feasible(route)]_vars
  <2>1. route' = route
    BY <1>3, PlannerKeepsInput
  <2>2. Coarsest(route)' = Coarsest(route) /\ Feasible(route)' = Feasible(route)
    BY <2>1 DEF Coarsest, Feasible, LeafAt, Inner, NeedsSplit, TotalBytes, Bytes
  <2>3. CASE outcome' = "planned"
    BY <1>2, <1>3, <2>2, <2>3
  <2>4. CASE outcome' # outcome /\ outcome' # "planned"
    <3>1. outcome' = "CAPACITY"
      BY <1>3, <2>4 DEF ExactInv, IInv, TypeOK, Next, EmitEmpty, Emit, Split, Finish, Refuse, vars
    <3> QED
      BY <1>3, <2>2, <3>1 DEF ExactInv
  <2> QED
    BY <2>3, <2>4
<1> QED
  BY <1>3, ExactInvAlways, PTL DEF Spec, PlanExact

(***************************************************************************)
(* Proofs about CatalogRevision.                                           *)
(***************************************************************************)

-----------------------------------------------------------------------------
(* What it takes to pass a chain of checks.                                *)

LEMMA StatePasses ==
  ASSUME NEW R
  PROVE  /\ StateCode(R) \in Codes
         /\ StateCode(R) = "accepted" <=>
              /\ ~(Ambiguous(R))
              /\ ~(EntryCount(R) > MaxEntries \/ ObservationCount(R) > MaxObservations)
              /\ ~(Cardinality(SnapshotEpochs(R)) > MaxRequiredEpochs)
              /\ ~(Dangling(R))
              /\ ~(SumFunction([s \in Live(R) |-> WireBytes(s)]) > LiveWitnessWireBytes)
<1> DEFINE checks == <<
      Check(Ambiguous(R), "DUPLICATE"),
      Check(EntryCount(R) > MaxEntries \/ ObservationCount(R) > MaxObservations, "CAPACITY"),
      Check(Cardinality(SnapshotEpochs(R)) > MaxRequiredEpochs, "CAPACITY"),
      Check(Dangling(R), "REFERENCE"),
      Check(SumFunction([s \in Live(R) |-> WireBytes(s)]) > LiveWitnessWireBytes, "CAPACITY")>>
<1>1. DOMAIN checks = 1..5 /\ 5 \in Nat
  OBVIOUS
<1>2. (checks[1].fails <=> Ambiguous(R)) /\ checks[1].code = "DUPLICATE"
  BY DEF Check
<1>3. (checks[2].fails <=> EntryCount(R) > MaxEntries \/ ObservationCount(R) > MaxObservations) /\ checks[2].code = "CAPACITY"
  BY DEF Check
<1>4. (checks[3].fails <=> Cardinality(SnapshotEpochs(R)) > MaxRequiredEpochs) /\ checks[3].code = "CAPACITY"
  BY DEF Check
<1>5. (checks[4].fails <=> Dangling(R)) /\ checks[4].code = "REFERENCE"
  BY DEF Check
<1>6. (checks[5].fails <=> SumFunction([s \in Live(R) |-> WireBytes(s)]) > LiveWitnessWireBytes) /\ checks[5].code = "CAPACITY"
  BY DEF Check
<1>7. StateCode(R) = FirstFailing(checks)
  BY DEF StateCode
<1> HIDE DEF checks
<1>8. \A i \in 1..5 : i = 1 \/ i = 2 \/ i = 3 \/ i = 4 \/ i = 5
  OBVIOUS
<1>9. (\A i \in 1..5 : ~checks[i].fails) <=>
       /\ ~checks[1].fails
       /\ ~checks[2].fails
       /\ ~checks[3].fails
       /\ ~checks[4].fails
       /\ ~checks[5].fails
  BY <1>8
<1>10. \A i \in 1..5 : checks[i].fails => checks[i].code \in Codes \ {"accepted"}
  BY <1>2, <1>3, <1>4, <1>5, <1>6, <1>8 DEF Codes
<1>11. StateCode(R) \in Codes /\ (StateCode(R) = "accepted" <=> \A i \in 1..5 : ~checks[i].fails)
  <2>1. \/ StateCode(R) = "accepted" /\ \A i \in 1..5 : ~checks[i].fails
        \/ \E i \in 1..5 : checks[i].fails /\ StateCode(R) = checks[i].code
    BY <1>1, <1>7, FirstFailingCode
  <2>2. "accepted" \in Codes
    BY DEF Codes
  <2> QED
    BY <2>1, <2>2, <1>10
<1> QED
  BY <1>2, <1>3, <1>4, <1>5, <1>6, <1>9, <1>11

(* What passes preflightCatalogRoot.                                       *)
LEMMA PreflightPasses ==
  /\ PreflightCode \in Codes
  /\ PreflightCode = "accepted" <=>
       /\ ~(~WellFormed)
       /\ ~(~PrefixFreeCover({ref.prefix : ref \in root.refs}))
       /\ ~(FlawIsSize)
       /\ ~(Flawed # {})
       /\ ~(EntrySum # root.entries \/ ObservedSum # root.observations)
       /\ ~(Declared > CumulativeBytes)
<1> DEFINE checks == <<
      Check(~WellFormed, "SCHEMA"),
      Check(~PrefixFreeCover({ref.prefix : ref \in root.refs}), "COVER"),
      Check(FlawIsSize, "CAPACITY"),
      Check(Flawed # {}, "REFERENCE"),
      Check(EntrySum # root.entries \/ ObservedSum # root.observations, "REFERENCE"),
      Check(Declared > CumulativeBytes, "CAPACITY")>>
<1>1. DOMAIN checks = 1..6 /\ 6 \in Nat
  OBVIOUS
<1>2. (checks[1].fails <=> ~WellFormed) /\ checks[1].code = "SCHEMA"
  BY DEF Check
<1>3. (checks[2].fails <=> ~PrefixFreeCover({ref.prefix : ref \in root.refs})) /\ checks[2].code = "COVER"
  BY DEF Check
<1>4. (checks[3].fails <=> FlawIsSize) /\ checks[3].code = "CAPACITY"
  BY DEF Check
<1>5. (checks[4].fails <=> Flawed # {}) /\ checks[4].code = "REFERENCE"
  BY DEF Check
<1>6. (checks[5].fails <=> EntrySum # root.entries \/ ObservedSum # root.observations) /\ checks[5].code = "REFERENCE"
  BY DEF Check
<1>7. (checks[6].fails <=> Declared > CumulativeBytes) /\ checks[6].code = "CAPACITY"
  BY DEF Check
<1>8. PreflightCode = FirstFailing(checks)
  BY DEF PreflightCode
<1> HIDE DEF checks
<1>9. \A i \in 1..6 : i = 1 \/ i = 2 \/ i = 3 \/ i = 4 \/ i = 5 \/ i = 6
  OBVIOUS
<1>10. (\A i \in 1..6 : ~checks[i].fails) <=>
       /\ ~checks[1].fails
       /\ ~checks[2].fails
       /\ ~checks[3].fails
       /\ ~checks[4].fails
       /\ ~checks[5].fails
       /\ ~checks[6].fails
  BY <1>9
<1>11. \A i \in 1..6 : checks[i].fails => checks[i].code \in Codes \ {"accepted"}
  BY <1>2, <1>3, <1>4, <1>5, <1>6, <1>7, <1>9 DEF Codes
<1>12. PreflightCode \in Codes /\ (PreflightCode = "accepted" <=> \A i \in 1..6 : ~checks[i].fails)
  <2>1. \/ PreflightCode = "accepted" /\ \A i \in 1..6 : ~checks[i].fails
        \/ \E i \in 1..6 : checks[i].fails /\ PreflightCode = checks[i].code
    BY <1>1, <1>8, FirstFailingCode
  <2>2. "accepted" \in Codes
    BY DEF Codes
  <2> QED
    BY <2>1, <2>2, <1>11
<1> QED
  BY <1>2, <1>3, <1>4, <1>5, <1>6, <1>7, <1>10, <1>12

LEMMA ShardPasses ==
  ASSUME NEW shard
  PROVE  /\ ShardCode(shard) \in Codes
         /\ ShardCode(shard) = "accepted" <=>
              /\ ~(Cardinality(shard.recs) \notin 1..MaxRecordsPerLeaf)
              /\ ~(Ambiguous(shard.recs))
              /\ ~(\E r \in shard.recs : ~Covers(shard.prefix, HashOf(r)))
              /\ ~(\E other \in read : other.prefix = shard.prefix)
              /\ ~(OverBudget(Cardinality(shard.recs), Bytes(shard)))
              /\ ~(TotalBytes(read \cup {shard}) > CumulativeBytes)
<1> DEFINE checks == <<
      Check(Cardinality(shard.recs) \notin 1..MaxRecordsPerLeaf, "SCHEMA"),
      Check(Ambiguous(shard.recs), "DUPLICATE"),
      Check(\E r \in shard.recs : ~Covers(shard.prefix, HashOf(r)), "REFERENCE"),
      Check(\E other \in read : other.prefix = shard.prefix, "COVER"),
      Check(OverBudget(Cardinality(shard.recs), Bytes(shard)), "CAPACITY"),
      Check(TotalBytes(read \cup {shard}) > CumulativeBytes, "CAPACITY")>>
<1>1. DOMAIN checks = 1..6 /\ 6 \in Nat
  OBVIOUS
<1>2. (checks[1].fails <=> Cardinality(shard.recs) \notin 1..MaxRecordsPerLeaf) /\ checks[1].code = "SCHEMA"
  BY DEF Check
<1>3. (checks[2].fails <=> Ambiguous(shard.recs)) /\ checks[2].code = "DUPLICATE"
  BY DEF Check
<1>4. (checks[3].fails <=> \E r \in shard.recs : ~Covers(shard.prefix, HashOf(r))) /\ checks[3].code = "REFERENCE"
  BY DEF Check
<1>5. (checks[4].fails <=> \E other \in read : other.prefix = shard.prefix) /\ checks[4].code = "COVER"
  BY DEF Check
<1>6. (checks[5].fails <=> OverBudget(Cardinality(shard.recs), Bytes(shard))) /\ checks[5].code = "CAPACITY"
  BY DEF Check
<1>7. (checks[6].fails <=> TotalBytes(read \cup {shard}) > CumulativeBytes) /\ checks[6].code = "CAPACITY"
  BY DEF Check
<1>8. ShardCode(shard) = FirstFailing(checks)
  BY DEF ShardCode
<1> HIDE DEF checks
<1>9. \A i \in 1..6 : i = 1 \/ i = 2 \/ i = 3 \/ i = 4 \/ i = 5 \/ i = 6
  OBVIOUS
<1>10. (\A i \in 1..6 : ~checks[i].fails) <=>
       /\ ~checks[1].fails
       /\ ~checks[2].fails
       /\ ~checks[3].fails
       /\ ~checks[4].fails
       /\ ~checks[5].fails
       /\ ~checks[6].fails
  BY <1>9
<1>11. \A i \in 1..6 : checks[i].fails => checks[i].code \in Codes \ {"accepted"}
  BY <1>2, <1>3, <1>4, <1>5, <1>6, <1>7, <1>9 DEF Codes
<1>12. ShardCode(shard) \in Codes /\ (ShardCode(shard) = "accepted" <=> \A i \in 1..6 : ~checks[i].fails)
  <2>1. \/ ShardCode(shard) = "accepted" /\ \A i \in 1..6 : ~checks[i].fails
        \/ \E i \in 1..6 : checks[i].fails /\ ShardCode(shard) = checks[i].code
    BY <1>1, <1>8, FirstFailingCode
  <2>2. "accepted" \in Codes
    BY DEF Codes
  <2> QED
    BY <2>1, <2>2, <1>11
<1> QED
  BY <1>2, <1>3, <1>4, <1>5, <1>6, <1>7, <1>10, <1>12

LEMMA RevisionPasses ==
  /\ RevisionCode \in Codes
  /\ RevisionCode = "accepted" <=>
       /\ ~(Cardinality(read) # Cardinality(Nonempty))
       /\ ~(MismatchIsCover)
       /\ ~(Mismatched # {})
       /\ ~(SharedRead)
       /\ ~(StateCode(AllRead) # "accepted")
       /\ ~(EntryCount(AllRead) # root.entries)
       /\ ~(ObservationCount(AllRead) # root.observations)
       /\ ~(~(KnownEpochs \subseteq root.required))
       /\ ~(Cardinality(root.required \ KnownEpochs) > 1)
<1> DEFINE checks == <<
      Check(Cardinality(read) # Cardinality(Nonempty), "COVER"),
      Check(MismatchIsCover, "COVER"),
      Check(Mismatched # {}, "REFERENCE"),
      Check(SharedRead, "DUPLICATE"),
      Check(StateCode(AllRead) # "accepted", StateCode(AllRead)),
      Check(EntryCount(AllRead) # root.entries, "REFERENCE"),
      Check(ObservationCount(AllRead) # root.observations, "REFERENCE"),
      Check(~(KnownEpochs \subseteq root.required), "REFERENCE"),
      Check(Cardinality(root.required \ KnownEpochs) > 1, "REFERENCE")>>
<1>1. DOMAIN checks = 1..9 /\ 9 \in Nat
  OBVIOUS
<1>2. (checks[1].fails <=> Cardinality(read) # Cardinality(Nonempty)) /\ checks[1].code = "COVER"
  BY DEF Check
<1>3. (checks[2].fails <=> MismatchIsCover) /\ checks[2].code = "COVER"
  BY DEF Check
<1>4. (checks[3].fails <=> Mismatched # {}) /\ checks[3].code = "REFERENCE"
  BY DEF Check
<1>5. (checks[4].fails <=> SharedRead) /\ checks[4].code = "DUPLICATE"
  BY DEF Check
<1>6. (checks[5].fails <=> StateCode(AllRead) # "accepted") /\ checks[5].code = StateCode(AllRead)
  BY DEF Check
<1>7. (checks[6].fails <=> EntryCount(AllRead) # root.entries) /\ checks[6].code = "REFERENCE"
  BY DEF Check
<1>8. (checks[7].fails <=> ObservationCount(AllRead) # root.observations) /\ checks[7].code = "REFERENCE"
  BY DEF Check
<1>9. (checks[8].fails <=> ~(KnownEpochs \subseteq root.required)) /\ checks[8].code = "REFERENCE"
  BY DEF Check
<1>10. (checks[9].fails <=> Cardinality(root.required \ KnownEpochs) > 1) /\ checks[9].code = "REFERENCE"
  BY DEF Check
<1>11. RevisionCode = FirstFailing(checks)
  BY DEF RevisionCode
<1> HIDE DEF checks
<1>12. \A i \in 1..9 : i = 1 \/ i = 2 \/ i = 3 \/ i = 4 \/ i = 5 \/ i = 6 \/ i = 7 \/ i = 8 \/ i = 9
  OBVIOUS
<1>13. (\A i \in 1..9 : ~checks[i].fails) <=>
       /\ ~checks[1].fails
       /\ ~checks[2].fails
       /\ ~checks[3].fails
       /\ ~checks[4].fails
       /\ ~checks[5].fails
       /\ ~checks[6].fails
       /\ ~checks[7].fails
       /\ ~checks[8].fails
       /\ ~checks[9].fails
  BY <1>12
<1>14. \A i \in 1..9 : checks[i].fails => checks[i].code \in Codes \ {"accepted"}
  BY <1>2, <1>3, <1>4, <1>5, <1>6, <1>7, <1>8, <1>9, <1>10, <1>12, StatePasses DEF Codes
<1>15. RevisionCode \in Codes /\ (RevisionCode = "accepted" <=> \A i \in 1..9 : ~checks[i].fails)
  <2>1. \/ RevisionCode = "accepted" /\ \A i \in 1..9 : ~checks[i].fails
        \/ \E i \in 1..9 : checks[i].fails /\ RevisionCode = checks[i].code
    BY <1>1, <1>11, FirstFailingCode
  <2>2. "accepted" \in Codes
    BY DEF Codes
  <2> QED
    BY <2>1, <2>2, <1>14
<1> QED
  BY <1>2, <1>3, <1>4, <1>5, <1>6, <1>7, <1>8, <1>9, <1>10, <1>13, <1>15

-----------------------------------------------------------------------------
(* Types.                                                                  *)

(* What an earlier revision was cut into.                                  *)
LEMMA PastIs ==
  ASSUME RevisionTypeOK
  PROVE  /\ DOMAIN past \subseteq Records
         /\ \A r \in DOMAIN past : past[r] \in Hash
         /\ Coarsest(past) \subseteq Leaf
<1>1. PICK R \in SUBSET Records : past \in [R -> Hash]
  BY DEF RevisionTypeOK
<1>2. \A p \in Prefix : LeafAt(past, p) \in Leaf
  BY <1>1 DEF LeafAt, Leaf
<1> QED
  BY <1>1, <1>2 DEF Coarsest

LEMMA CountsAreNat ==
  ASSUME NEW R \in SUBSET Records
  PROVE  EntryCount(R) \in Nat /\ ObservationCount(R) \in Nat
<1>1. IsFiniteSet(R \ Observations) /\ IsFiniteSet(R \cap Observations)
  BY FS_Subset, PlannerAssumption
<1> QED
  BY <1>1, FS_CardinalityType DEF EntryCount, ObservationCount

LEMMA ReferIs ==
  ASSUME NEW leaf \in Leaf, NEW epoch \in Epochs
  PROVE  ReferTo(leaf, epoch) \in Reference
<1>1. leaf.prefix \in Prefix /\ leaf.recs \in SUBSET Records
  BY DEF Leaf
<1> QED
  BY <1>1, CountsAreNat, BytesIsNat DEF ReferTo, Reference

LEMMA ShardIs ==
  ASSUME NEW ref \in Reference
  PROVE  /\ ShardOf(ref) \in Leaf /\ Bytes(ref) \in Nat /\ Bytes(ShardOf(ref)) = Bytes(ref)
         /\ ShardOf(ref).prefix = ref.prefix /\ ShardOf(ref).recs = ref.recs
  BY PlannerAssumption DEF ShardOf, Reference, Leaf, Bytes

LEMMA SumsAreNat ==
  ASSUME NEW refs \in SUBSET Reference, IsFiniteSet(refs)
  PROVE  /\ SumOf("bytes", refs) \in Nat /\ SumOf("entries", refs) \in Nat
         /\ SumOf("observations", refs) \in Nat
<1> DEFINE S == {r \in refs : r.recs # {}}
           sum(field) == [ref \in S |-> ref[field]]
<1>1. IsFiniteSet(S) /\ S \subseteq Reference
  BY FS_Subset
<1> HIDE DEF S
<1>2. \A field \in {"bytes", "entries", "observations"} : \A ref \in S : ref[field] \in Nat
  BY <1>1 DEF Reference
<1>3. ASSUME NEW field \in {"bytes", "entries", "observations"}
      PROVE  SumFunction(sum(field)) \in Nat
  <2> DEFINE w == sum(field)
  <2>1. DOMAIN w = S /\ \A x \in S : w[x] \in Nat
    BY <1>2
  <2> HIDE DEF w
  <2>2. SumFunction(w) = Weight(w, S) /\ Weight(w, S) \in Nat
    BY <1>1, <2>1, SumIsWeight, WeightType
  <2> QED
    BY <2>2 DEF w
<1> QED
  BY <1>3 DEF SumOf, S

LEMMA DeclaredIs ==
  ASSUME RevisionTypeOK, IsFiniteSet(root.refs)
  PROVE  Declared \in Nat
  BY SumsAreNat DEF Declared, RevisionTypeOK, Root

(* What a truthful root declares is what its shards add up to.             *)
LEMMA DeclaredTruly ==
  ASSUME TruthfulRoot
  PROVE  /\ Declared = TotalBytes(root.refs)
         /\ EntrySum = SumFunction([ref \in Nonempty |-> EntryCount(ref.recs)])
         /\ ObservedSum = SumFunction([ref \in Nonempty |-> ObservationCount(ref.recs)])
<1>1. \A ref \in Nonempty : /\ ref["bytes"] = Bytes(ref) /\ ref["entries"] = EntryCount(ref.recs)
                             /\ ref["observations"] = ObservationCount(ref.recs)
  BY DEF TruthfulRoot, Truthful
<1>2. {r \in root.refs : r.recs # {}} = Nonempty
  BY DEF Nonempty
<1>3. [ref \in Nonempty |-> ref["bytes"]] = [ref \in Nonempty |-> Bytes(ref)]
  BY <1>1
<1>4. [ref \in Nonempty |-> ref["entries"]] = [ref \in Nonempty |-> EntryCount(ref.recs)]
  BY <1>1
<1>5. [ref \in Nonempty |-> ref["observations"]] = [ref \in Nonempty |-> ObservationCount(ref.recs)]
  BY <1>1
<1>6. Declared = TotalBytes(root.refs)
  BY <1>2, <1>3 DEF Declared, SumOf, TotalBytes
<1>7. EntrySum = SumFunction([ref \in Nonempty |-> EntryCount(ref.recs)])
  BY <1>2, <1>4 DEF EntrySum, SumOf
<1>8. ObservedSum = SumFunction([ref \in Nonempty |-> ObservationCount(ref.recs)])
  BY <1>2, <1>5 DEF ObservedSum, SumOf
<1> QED
  BY <1>6, <1>7, <1>8

-----------------------------------------------------------------------------
(* What the checks look at.                                                *)

LEMMA RootFrame ==
  ASSUME root' = root
  PROVE  /\ PreflightCode' = PreflightCode /\ Nonempty' = Nonempty /\ Declared' = Declared
  BY DEF PreflightCode, WellFormed, FlawIsSize, Flawed, FirstOf, OverBudget, DeclaredCount,
         EntrySum, ObservedSum, Declared, Nonempty

LEMMA ReadFrame ==
  ASSUME root' = root, read' = read
  PROVE  RevisionCode' = RevisionCode
  BY DEF RevisionCode, MismatchIsCover, Mismatched, Uncovered, Differs, ShardsAt, SharedRead,
         AllRead, StateCode, KnownEpochs, FirstOf, Nonempty, Bytes, EntryCount,
         ObservationCount, SnapshotEpochs, Ambiguous, Dangling, Live

LEMMA HashFrame ==
  ASSUME UNCHANGED <<input, route, past>>
  PROVE  \A r : HashOf(r)' = HashOf(r)
  BY DEF HashOf

-----------------------------------------------------------------------------
(* The steps of the planner and the coordinator.                           *)

(* The planner and the reader's checks do not disturb each other.          *)
LEMMA PlanStep ==
  ASSUME RevisionInv, Plan
  PROVE  RevisionInv'
<1>1. IInv'
  BY IInvStep DEF RevisionInv, Plan
<1>2. UNCHANGED <<input, route, past, root, fetched, supplied, slips, phase, copied, total, read, verdict>>
  BY PlannerKeepsInput DEF Plan, coordinator, reader
<1>3. RevisionTypeOK'
  BY <1>1, <1>2 DEF RevisionInv, RevisionTypeOK, IInv
<1>4. PreflightCode' = PreflightCode /\ RevisionCode' = RevisionCode /\ \A r : HashOf(r)' = HashOf(r)
  BY <1>2, RootFrame, ReadFrame, HashFrame
<1> QED
  BY <1>1, <1>2, <1>3, <1>4 DEF RevisionInv

(* Until it is fetched, the root is judged by nobody.                      *)
LEMMA RootStep ==
  ASSUME RevisionInv, phase \in {"planning", "assembled"}, phase' \in {"planning", "assembled"},
         UNCHANGED <<plan, past, copied, total, read, verdict, supplied>>,
         root' \in Root, UNCHANGED fetched, slips' \in 0..MaxSlips, IsFiniteSet(root'.refs)
  PROVE  RevisionInv'
<1>1. UNCHANGED <<input, route, past, copied, total, read, verdict, supplied>> /\ UNCHANGED vars
  BY DEF plan, vars
<1>2. IInv'
  BY <1>1, IInvStep DEF RevisionInv
<1>3. \A r : HashOf(r)' = HashOf(r)
  BY <1>1, HashFrame
<1>4. verdict = "none"
  BY DEF RevisionInv
<1>5. RevisionTypeOK'
  BY <1>1, <1>2 DEF RevisionInv, RevisionTypeOK, IInv
<1> QED
  BY <1>1, <1>2, <1>3, <1>4, <1>5 DEF RevisionInv

LEMMA FinitePlan ==
  ASSUME RevisionInv, outcome = "planned"
  PROVE  IsFiniteSet(emitted) /\ emitted \subseteq Leaf /\ Leaves = emitted
<1>1. IsFiniteSet(Leaves) /\ emitted \subseteq Leaf /\ queue = {}
  BY DEF RevisionInv, IInv, CountExact, TypeOK, PlanDone
<1> QED
  BY <1>1 DEF Leaves

LEMMA EpochsAre ==
  ASSUME NEW R
  PROVE  SnapshotEpochs(R) \subseteq Epochs /\ Active \in Epochs /\ Past \in Epochs
  BY RevisionAssumption DEF SnapshotEpochs

LEMMA AssembleStep ==
  ASSUME RevisionInv, Assemble
  PROVE  RevisionInv'
<1> DEFINE r == [refs |-> {ReferTo(leaf, Active) : leaf \in emitted},
                 required |-> SnapshotEpochs(input) \cup {Active},
                 entries |-> EntryCount(input), observations |-> ObservationCount(input)]
           f == [leaf \in emitted |-> ReferTo(leaf, Active)]
<1>1. phase = "planning" /\ phase' = "assembled" /\ outcome = "planned" /\ root' = r
      /\ UNCHANGED <<plan, past, fetched, supplied, slips, copied, total, read, verdict>>
  BY DEF Assemble
<1>2. IsFiniteSet(emitted) /\ emitted \subseteq Leaf /\ input \in SUBSET Records
  BY <1>1, FinitePlan DEF RevisionInv, IInv, TypeOK
<1>3. IsFiniteSet(r.refs)
  <2>1. IsFiniteSet({f[leaf] : leaf \in emitted})
    BY <1>2, ImageIsFinite
  <2> QED
    BY <2>1
<1>4. r \in Root
  BY <1>2, ReferIs, CountsAreNat, EpochsAre DEF Root
<1> HIDE DEF r
<1> QED
  BY <1>1, <1>3, <1>4, RootStep DEF RevisionInv, RevisionTypeOK

LEMMA SlipIs ==
  ASSUME RevisionTypeOK, Slip
  PROVE  slips' \in 0..MaxSlips
  BY RevisionAssumption DEF RevisionTypeOK, Slip

LEMMA CarryOverStep ==
  ASSUME RevisionInv, NEW ref \in root.refs, NEW leaf \in Coarsest(past),
         NEW epoch \in {Active, Past}, CarryOver(ref, leaf, epoch)
  PROVE  RevisionInv'
<1> DEFINE refs == (root.refs \ {ref}) \cup {ReferTo(leaf, epoch)}
           r == [root EXCEPT !.refs = refs]
<1>1. phase = "assembled" /\ root' = r /\ Slip /\ UNCHANGED <<plan, past, fetched, supplied, reader>>
  BY DEF CarryOver
<1>2. root \in Root /\ IsFiniteSet(root.refs) /\ RevisionTypeOK
  BY DEF RevisionInv, RevisionTypeOK
<1>3. ReferTo(leaf, epoch) \in Reference
  BY <1>2, PastIs, ReferIs, EpochsAre
<1>4. IsFiniteSet(refs) /\ refs \subseteq Reference
  BY <1>2, <1>3, FS_RemoveElement, FS_AddElement DEF Root
<1> HIDE DEF refs
<1>5. r \in Root /\ r.refs = refs
  BY <1>2, <1>4 DEF Root
<1> HIDE DEF r
<1> QED
  BY <1>1, <1>2, <1>4, <1>5, RootStep, SlipIs DEF reader

LEMMA MisepochStep ==
  ASSUME RevisionInv, NEW epoch \in Epochs, Misepoch(epoch)
  PROVE  RevisionInv'
<1> DEFINE r == [root EXCEPT !.required = IF epoch \in @ THEN @ \ {epoch} ELSE @ \cup {epoch}]
<1>1. phase = "assembled" /\ root' = r /\ Slip /\ UNCHANGED <<plan, past, fetched, supplied, reader>>
  BY DEF Misepoch
<1>2. root \in Root /\ IsFiniteSet(root.refs) /\ RevisionTypeOK
  BY DEF RevisionInv, RevisionTypeOK
<1>3. r \in Root /\ r.refs = root.refs
  BY <1>2 DEF Root
<1> HIDE DEF r
<1> QED
  BY <1>1, <1>2, <1>3, RootStep, SlipIs DEF reader

LEMMA MisdeclareIs ==
  ASSUME RevisionInv, NEW ref \in Nonempty, NEW told \in Misdeclarations(ref), Misdeclare(ref, told)
  PROVE  /\ phase = "assembled" /\ Slip /\ UNCHANGED <<plan, past, fetched, supplied, reader>>
         /\ root' \in Root /\ IsFiniteSet(root'.refs)
         /\ root'.refs = (root.refs \ {ref}) \cup {told}
         /\ told.prefix = ref.prefix /\ told.recs = ref.recs
<1> DEFINE refs == (root.refs \ {ref}) \cup {told}
           r == [root EXCEPT !.refs = refs, !.entries = SumOf("entries", refs),
                             !.observations = SumOf("observations", refs)]
<1>1. phase = "assembled" /\ root' = r /\ Slip /\ UNCHANGED <<plan, past, fetched, supplied, reader>>
  BY DEF Misdeclare
<1>2. root \in Root /\ IsFiniteSet(root.refs) /\ ref \in Reference
  BY DEF RevisionInv, RevisionTypeOK, Nonempty, Root
<1>3. told \in Reference /\ told.prefix = ref.prefix /\ told.recs = ref.recs
  BY <1>2 DEF Misdeclarations, Reference
<1>4. IsFiniteSet(refs) /\ refs \subseteq Reference
  BY <1>2, <1>3, FS_RemoveElement, FS_AddElement DEF Root
<1> HIDE DEF refs
<1>5. SumOf("entries", refs) \in Nat /\ SumOf("observations", refs) \in Nat
  BY <1>4, SumsAreNat
<1>6. r \in Root /\ r.refs = refs
  BY <1>2, <1>4, <1>5 DEF Root
<1> HIDE DEF r
<1> QED
  BY <1>1, <1>3, <1>4, <1>6 DEF refs

LEMMA MisdeclareStep ==
  ASSUME RevisionInv, NEW ref \in Nonempty, NEW told \in Misdeclarations(ref), Misdeclare(ref, told)
  PROVE  RevisionInv'
  BY MisdeclareIs, RootStep, SlipIs DEF reader, RevisionInv

(* Downloads only add to what is handed over.                              *)
LEMMA DownloadStep ==
  ASSUME RevisionInv, phase = "fetching", NEW ref \in Nonempty,
         fetched' = fetched \cup {ref}, slips' \in 0..MaxSlips,
         NEW more \in Seq(Leaf), supplied' = supplied \o more,
         UNCHANGED <<plan, past, root, reader>>
  PROVE  RevisionInv'
<1>1. UNCHANGED <<input, route, past, root, phase, copied, total, read, verdict>> /\ UNCHANGED vars
  BY DEF plan, vars, reader
<1>2. IInv'
  BY <1>1, IInvStep DEF RevisionInv
<1>3. PreflightCode' = PreflightCode /\ RevisionCode' = RevisionCode /\ \A r : HashOf(r)' = HashOf(r)
  BY <1>1, RootFrame, ReadFrame, HashFrame
<1>4. /\ supplied' \in Seq(Leaf) /\ Len(supplied) <= Len(supplied') /\ Len(supplied) \in Nat
      /\ Len(supplied') \in Nat /\ \A i \in 1..Len(supplied) : supplied'[i] = supplied[i]
  BY DEF RevisionInv, RevisionTypeOK
<1>5. read \subseteq {supplied'[i] : i \in 1..Len(supplied')} /\ copied \in 0..Len(supplied')
  BY <1>4 DEF RevisionInv, RevisionTypeOK
<1>6. fetched' \subseteq root.refs
  BY DEF RevisionInv, RevisionTypeOK, Nonempty
<1>7. RevisionTypeOK'
  BY <1>1, <1>2, <1>4, <1>5, <1>6 DEF RevisionInv, RevisionTypeOK, IInv
<1> QED
  BY <1>1, <1>2, <1>3, <1>7 DEF RevisionInv

LEMMA FetchStep ==
  ASSUME RevisionInv, NEW ref \in Nonempty, Fetch(ref)
  PROVE  RevisionInv'
<1>1. ShardOf(ref) \in Leaf
  BY ShardIs DEF RevisionInv, RevisionTypeOK, Root, Nonempty
<1>2. <<ShardOf(ref)>> \in Seq(Leaf)
  BY <1>1
<1>3. supplied' = supplied \o <<ShardOf(ref)>>
  <2> DEFINE shard == ShardOf(ref)
  <2>1. shard \in Leaf /\ supplied \in Seq(Leaf) /\ supplied' = Append(supplied, shard)
    BY <1>1 DEF Fetch, RevisionInv, RevisionTypeOK
  <2> HIDE DEF shard
  <2>2. Append(supplied, shard) = supplied \o <<shard>>
    BY <2>1
  <2> QED
    BY <2>1, <2>2 DEF shard
<1>4. slips' \in 0..MaxSlips
  BY DEF Fetch, RevisionInv, RevisionTypeOK
<1> QED
  BY <1>2, <1>3, <1>4, DownloadStep DEF Fetch

LEMMA MisfetchStep ==
  ASSUME RevisionInv, NEW ref \in Nonempty, Misfetch(ref)
  PROVE  RevisionInv'
<1>1. ShardOf(ref) \in Leaf /\ ref.prefix \in Prefix /\ supplied \in Seq(Leaf)
  BY ShardIs DEF RevisionInv, RevisionTypeOK, Root, Nonempty, Reference
<1>2. \E more \in Seq(Leaf) : supplied' = supplied \o more
  <2>1. CASE UNCHANGED supplied
    <3>1. supplied' = supplied \o <<>> /\ <<>> \in Seq(Leaf)
      BY <1>1, <2>1
    <3> QED
      BY <3>1
  <2>2. CASE supplied' = supplied \o <<ShardOf(ref), ShardOf(ref)>>
    <3>1. <<ShardOf(ref), ShardOf(ref)>> \in Seq(Leaf)
      BY <1>1
    <3> QED
      BY <2>2, <3>1
  <2>3. ASSUME NEW leaf \in {l \in emitted \cup Coarsest(past) : l.recs # {}},
               NEW prefix \in {ref.prefix, leaf.prefix},
               supplied' = Append(supplied, [leaf EXCEPT !.prefix = prefix])
        PROVE  \E more \in Seq(Leaf) : supplied' = supplied \o more
    <3>1. leaf \in Leaf
      BY PastIs DEF RevisionInv, IInv, TypeOK
    <3>2. [leaf EXCEPT !.prefix = prefix] \in Leaf
      BY <1>1, <3>1 DEF Leaf
    <3> DEFINE shard == [leaf EXCEPT !.prefix = prefix]
    <3> HIDE DEF shard
    <3>3. <<shard>> \in Seq(Leaf) /\ Append(supplied, shard) = supplied \o <<shard>>
      BY <1>1, <3>2 DEF shard
    <3> QED
      BY <2>3, <3>3 DEF shard
  <2> QED
    BY <2>1, <2>2, <2>3 DEF Misfetch
<1>3. slips' \in 0..MaxSlips
  BY SlipIs DEF Misfetch, RevisionInv
<1> QED
  BY <1>2, <1>3, DownloadStep DEF Misfetch

-----------------------------------------------------------------------------
(* The steps of the reader.                                                *)

(* An acceptance is only reached through the last chain of checks.         *)
LEMMA JudgeStep ==
  ASSUME RevisionInv, phase # "planning", NEW code \in Codes, Judge(code),
         code = "accepted" => PreflightCode = "accepted" /\ RevisionCode = "accepted",
         UNCHANGED <<plan, past, coordinator>>
  PROVE  RevisionInv'
<1>1. UNCHANGED <<input, route, past, root, fetched, supplied, slips, read>> /\ UNCHANGED vars
      /\ phase' = "done" /\ verdict' = code /\ copied' = 0 /\ total' = 0
  BY DEF plan, vars, coordinator, Judge
<1>2. IInv'
  BY <1>1, IInvStep DEF RevisionInv
<1>3. PreflightCode' = PreflightCode /\ RevisionCode' = RevisionCode /\ \A r : HashOf(r)' = HashOf(r)
  BY <1>1, RootFrame, ReadFrame, HashFrame
<1>4. Len(supplied) \in Nat
  BY DEF RevisionInv, RevisionTypeOK
<1>5. RevisionTypeOK'
  BY <1>1, <1>2, <1>4, PlannerAssumption DEF RevisionInv, RevisionTypeOK, IInv
<1> QED
  BY <1>1, <1>2, <1>3, <1>5 DEF RevisionInv

(* A reader that goes on knows a little more.                              *)
LEMMA ReadOn ==
  ASSUME RevisionInv, phase # "done", phase' \in {"fetching", "copying", "reading"},
         PreflightCode = "accepted", UNCHANGED <<plan, past, coordinator, verdict>>,
         copied' \in 0..Len(supplied), total' \in 0..CumulativeBytes,
         read' \subseteq {supplied[i] : i \in 1..Len(supplied)}, IsFiniteSet(read'),
         \A shard \in read' : \A r \in shard.recs : Covers(shard.prefix, HashOf(r))
  PROVE  RevisionInv'
<1>1. UNCHANGED <<input, route, past, root, fetched, supplied, slips, verdict>> /\ UNCHANGED vars
  BY DEF plan, vars, coordinator
<1>2. IInv'
  BY <1>1, IInvStep DEF RevisionInv
<1>3. PreflightCode' = PreflightCode /\ \A r : HashOf(r)' = HashOf(r)
  BY <1>1, RootFrame, HashFrame
<1>4. verdict = "none"
  BY DEF RevisionInv
<1>5. RevisionTypeOK'
  BY <1>1, <1>2 DEF RevisionInv, RevisionTypeOK, IInv
<1> QED
  BY <1>1, <1>2, <1>3, <1>4, <1>5 DEF RevisionInv

LEMMA CodesOfReader ==
  {"COVER", "REFERENCE", "CAPACITY"} \subseteq Codes \ {"accepted"}
  BY DEF Codes

LEMMA PreflightStep ==
  ASSUME RevisionInv, Preflight
  PROVE  RevisionInv'
<1>1. CASE PreflightCode = "accepted"
  <2>1. phase = "assembled" /\ phase' = "fetching" /\ UNCHANGED <<plan, past, coordinator, copied, total, read, verdict>>
    BY <1>1 DEF Preflight
  <2> QED
    BY <1>1, <2>1, ReadOn DEF RevisionInv, RevisionTypeOK
<1>2. CASE PreflightCode # "accepted"
  BY <1>2, PreflightPasses, JudgeStep DEF Preflight
<1> QED
  BY <1>1, <1>2

LEMMA DeliverStep ==
  ASSUME RevisionInv, Deliver
  PROVE  RevisionInv'
<1>1. CASE Len(supplied) > MaxReferences \/ Len(supplied) # Cardinality(Nonempty)
  <2>1. Judge("CAPACITY") \/ Judge("COVER")
    BY <1>1 DEF Deliver
  <2> QED
    BY <2>1, CodesOfReader, JudgeStep DEF Deliver
<1>2. CASE ~(Len(supplied) > MaxReferences) /\ Len(supplied) = Cardinality(Nonempty)
  <2>1. phase = "fetching" /\ phase' = "copying"
        /\ UNCHANGED <<plan, past, coordinator, copied, total, read, verdict>>
    BY <1>2 DEF Deliver
  <2> QED
    BY <2>1, ReadOn DEF RevisionInv, RevisionTypeOK
<1> QED
  BY <1>1, <1>2

LEMMA CopyStep ==
  ASSUME RevisionInv, Copy
  PROVE  RevisionInv'
<1> DEFINE size   == Bytes(supplied[copied + 1])
           budget == IF Declared < CumulativeBytes THEN Declared ELSE CumulativeBytes
<1>1. CASE size > ShardPlaintextBytes \/ total + size > budget
  BY <1>1, CodesOfReader, JudgeStep DEF Copy
<1>2. CASE ~(size > ShardPlaintextBytes \/ total + size > budget)
  <2>1. /\ phase = "copying" /\ copied < Len(supplied)
        /\ copied' = copied + 1 /\ total' = total + size /\ UNCHANGED <<phase, read, verdict>>
        /\ UNCHANGED <<plan, past, coordinator>>
    BY <1>2 DEF Copy
  <2>2. copied \in 0..Len(supplied) /\ Len(supplied) \in Nat /\ supplied \in Seq(Leaf)
        /\ total \in 0..CumulativeBytes
    BY DEF RevisionInv, RevisionTypeOK
  <2>3. supplied[copied + 1] \in Leaf
    BY <2>1, <2>2
  <2>4. size \in Nat /\ Declared \in Nat /\ CumulativeBytes \in Nat
    BY <2>3, BytesIsNat, DeclaredIs, PlannerAssumption DEF RevisionInv
  <2> HIDE DEF size
  <2>5. copied' \in 0..Len(supplied) /\ total' \in 0..CumulativeBytes
    BY <1>2, <2>1, <2>2, <2>4
  <2> QED
    BY <2>1, <2>5, ReadOn DEF RevisionInv, RevisionTypeOK
<1> QED
  BY <1>1, <1>2

LEMMA CopiedStep ==
  ASSUME RevisionInv, Copied
  PROVE  RevisionInv'
<1>1. CASE total # Declared
  BY <1>1, CodesOfReader, JudgeStep DEF Copied
<1>2. CASE total = Declared
  <2>1. phase = "copying" /\ phase' = "reading"
        /\ UNCHANGED <<plan, past, coordinator, copied, total, read, verdict>>
    BY <1>2 DEF Copied
  <2> QED
    BY <2>1, ReadOn DEF RevisionInv, RevisionTypeOK
<1> QED
  BY <1>1, <1>2

LEMMA ReadStep ==
  ASSUME RevisionInv, Read
  PROVE  RevisionInv'
<1> DEFINE shard == supplied[Cardinality(read) + 1]
<1>1. phase = "reading" /\ Cardinality(read) < Len(supplied) /\ UNCHANGED <<plan, past, coordinator>>
  BY DEF Read
<1>2. CASE ShardCode(shard) = "accepted"
  <2>1. read' = read \cup {shard} /\ UNCHANGED <<phase, copied, total, verdict>>
    BY <1>2 DEF Read
  <2>2. IsFiniteSet(read) /\ Cardinality(read) \in Nat /\ supplied \in Seq(Leaf)
    BY FS_CardinalityType DEF RevisionInv, RevisionTypeOK
  <2>3. Cardinality(read) + 1 \in 1..Len(supplied)
    BY <1>1, <2>2
  <2>4. IsFiniteSet(read') /\ read' \subseteq {supplied[i] : i \in 1..Len(supplied)}
    BY <2>1, <2>2, <2>3, FS_AddElement DEF RevisionInv, RevisionTypeOK
  <2>5. \A r \in shard.recs : Covers(shard.prefix, HashOf(r))
    BY <1>2, ShardPasses
  <2> HIDE DEF shard
  <2>6. \A s \in read' : \A r \in s.recs : Covers(s.prefix, HashOf(r))
    BY <2>1, <2>5 DEF RevisionInv
  <2> QED
    BY <1>1, <2>1, <2>4, <2>6, ReadOn DEF RevisionInv, RevisionTypeOK
<1>3. CASE ShardCode(shard) # "accepted"
  BY <1>1, <1>3, ShardPasses, JudgeStep DEF Read
<1> QED
  BY <1>2, <1>3

LEMMA ConcludeStep ==
  ASSUME RevisionInv, Conclude
  PROVE  RevisionInv'
<1>1. phase = "reading" /\ PreflightCode = "accepted"
  BY DEF Conclude, RevisionInv
<1> QED
  BY <1>1, RevisionPasses, JudgeStep DEF Conclude

LEMMA RevisionInvInit == RevisionInit => RevisionInv
<1> SUFFICES ASSUME RevisionInit PROVE RevisionInv
  OBVIOUS
<1>1. IInv
  BY IInvInit DEF RevisionInit
<1>2. past \in UNION {[R -> Hash] : R \in SUBSET Records}
  <2>1. PICK hash \in [{Identity(r) : r \in Records} -> Hash], P \in SUBSET Records :
          past = [r \in P |-> hash[Identity(r)]]
    BY DEF RevisionInit
  <2>2. past \in [P -> Hash]
    BY <2>1
  <2> QED
    BY <2>2
<1>3. root = NoRoot /\ fetched = {} /\ supplied = <<>> /\ slips = 0 /\ phase = "planning"
      /\ copied = 0 /\ total = 0 /\ read = {} /\ verdict = "none"
  BY DEF RevisionInit
<1>4. NoRoot \in Root /\ NoRoot.refs = {}
  BY DEF NoRoot, Root
<1>5. supplied \in Seq(Leaf) /\ Len(supplied) = 0
  BY <1>3
<1>6. 0 \in 0..MaxSlips /\ 0 \in 0..CumulativeBytes
  BY RevisionAssumption, PlannerAssumption
<1>7. RevisionTypeOK
  BY <1>1, <1>2, <1>3, <1>4, <1>5, <1>6 DEF RevisionTypeOK, IInv
<1> QED
  BY <1>1, <1>3, <1>4, <1>7, FS_EmptySet DEF RevisionInv

LEMMA RevisionInvStep == RevisionInv /\ [RevisionNext]_revision => RevisionInv'
<1> SUFFICES ASSUME RevisionInv, [RevisionNext]_revision PROVE RevisionInv'
  OBVIOUS
<1>1. CASE Plan
  BY <1>1, PlanStep
<1>2. CASE Coordinate
  BY <1>2, AssembleStep, CarryOverStep, MisepochStep, MisdeclareStep, FetchStep, MisfetchStep DEF Coordinate
<1>3. CASE Validate
  BY <1>3, PreflightStep, DeliverStep, CopyStep, CopiedStep, ReadStep, ConcludeStep DEF Validate
<1>4. CASE UNCHANGED revision
  <2>1. UNCHANGED <<past, coordinator, reader>> /\ UNCHANGED vars
    BY <1>4 DEF revision, plan
  <2>2. IInv'
    BY <2>1, IInvStep DEF RevisionInv
  <2>3. UNCHANGED <<input, route, past, root, fetched, supplied, slips, phase, copied, total, read, verdict>>
    BY <2>1 DEF vars, coordinator, reader
  <2>4. PreflightCode' = PreflightCode /\ RevisionCode' = RevisionCode /\ \A r : HashOf(r)' = HashOf(r)
    BY <2>3, RootFrame, ReadFrame, HashFrame
  <2>5. RevisionTypeOK'
    BY <2>2, <2>3 DEF RevisionInv, RevisionTypeOK, IInv
  <2> QED
    BY <2>2, <2>3, <2>4, <2>5 DEF RevisionInv
<1> QED
  BY <1>1, <1>2, <1>3, <1>4 DEF RevisionNext

LEMMA RevisionInvAlways == RevisionSpec => []RevisionInv
  BY RevisionInvInit, RevisionInvStep, PTL DEF RevisionSpec

-----------------------------------------------------------------------------
(* What an acceptance means.                                               *)

(* The shards of a well-formed root are as many as its references.         *)
LEMMA ShardsOfRoot ==
  ASSUME IsFiniteSet(root.refs), WellFormed
  PROVE  /\ IsFiniteSet(Nonempty)
         /\ IsFiniteSet({ShardOf(ref) : ref \in Nonempty})
         /\ Cardinality({ShardOf(ref) : ref \in Nonempty}) = Cardinality(Nonempty)
<1> DEFINE T == {ShardOf(ref) : ref \in Nonempty}
           f == [ref \in Nonempty |-> ShardOf(ref)]
<1>1. IsFiniteSet(Nonempty)
  BY FS_Subset DEF Nonempty
<1>2. \A p, q \in Nonempty : ShardOf(p) = ShardOf(q) => p = q
  BY DEF WellFormed, Nonempty, ShardOf
<1>3. f \in Bijection(Nonempty, T)
  BY <1>2 DEF Bijection, Injection, Surjection, IsInjective
<1>4. IsFiniteSet(T) /\ Cardinality(T) = Cardinality(Nonempty)
  BY <1>1, <1>3, FS_Bijection DEF ExistsBijection
<1> QED
  BY <1>1, <1>4

(* For every root and every set of shards, in whatever order they come and *)
(* whatever else comes with them: validateCatalogRevision accepts nothing  *)
(* but the shard of every reference.                                       *)
THEOREM OnlyTheRevisionIsAccepted == RevisionSpec => []AcceptedAsRooted
<1>1. RevisionInv => AcceptedAsRooted
  <2> SUFFICES ASSUME RevisionInv, verdict = "accepted"
               PROVE  read = {ShardOf(ref) : ref \in Nonempty} /\ TruthfulRoot
    BY DEF AcceptedAsRooted
  <2> DEFINE T == {ShardOf(ref) : ref \in Nonempty}
  <2>1. WellFormed /\ IsFiniteSet(root.refs) /\ IsFiniteSet(read) /\ root.refs \subseteq Reference
    BY PreflightPasses DEF RevisionInv, RevisionTypeOK, Root
  <2>2. Cardinality(read) = Cardinality(Nonempty) /\ Mismatched = {}
    BY RevisionPasses DEF RevisionInv
  <2>3. read \subseteq Leaf
    BY DEF RevisionInv, RevisionTypeOK
  <2>4. ASSUME NEW ref \in Nonempty PROVE ShardOf(ref) \in read /\ Truthful(ref)
    <3>1. ref \notin Uncovered /\ ~Differs(ref) /\ ref \in root.refs /\ ref.recs # {}
      BY <2>2 DEF Mismatched, Nonempty
    <3>2. PICK shard \in ShardsAt(ref) : TRUE
      BY <3>1 DEF Uncovered
    <3>3. /\ shard \in read /\ shard.prefix = ref.prefix /\ shard.recs = ref.recs
          /\ EntryCount(shard.recs) = ref.entries /\ ObservationCount(shard.recs) = ref.observations
          /\ Bytes(shard) = ref.bytes
      BY <3>1 DEF ShardsAt, Differs
    <3>4. shard = ShardOf(ref)
      BY <2>3, <3>3 DEF Leaf, ShardOf
    <3>5. Truthful(ref)
      BY <3>3 DEF Truthful, Bytes
    <3> QED
      BY <3>3, <3>4, <3>5
  <2>5. T \subseteq read /\ Cardinality(T) = Cardinality(read)
    BY <2>1, <2>2, <2>4, ShardsOfRoot
  <2> HIDE DEF T
  <2>6. T = read
    BY <2>1, <2>5, FS_Subset
  <2> QED
    BY <2>4, <2>6 DEF T, TruthfulRoot
<1> QED
  BY <1>1, RevisionInvAlways, PTL

(* And for every root and every set of shards: what is accepted is a       *)
(* catalog, its references a partition of the hash space, each record      *)
(* under its own, its records in order and its epochs listed.              *)
THEOREM WhatIsAcceptedIsACatalog == RevisionSpec => []AcceptedIsCatalog
<1>1. RevisionInv => AcceptedIsCatalog
  <2> SUFFICES ASSUME RevisionInv, verdict = "accepted"
               PROVE  /\ Partition({ref.prefix : ref \in root.refs})
                      /\ \A shard \in read : \A r \in shard.recs : Covers(shard.prefix, HashOf(r))
                      /\ StateCode(AllRead) = "accepted"
                      /\ EntryCount(AllRead) = root.entries
                      /\ ObservationCount(AllRead) = root.observations
                      /\ KnownEpochs \subseteq root.required
    BY DEF AcceptedIsCatalog, KnownEpochs
  <2>1. PrefixFreeCover({ref.prefix : ref \in root.refs})
    BY PreflightPasses DEF RevisionInv
  <2>2. {ref.prefix : ref \in root.refs} \in SUBSET Prefix
    BY DEF RevisionInv, RevisionTypeOK, Root, Reference
  <2> QED
    BY <2>1, <2>2, CoverIsPartition, RevisionPasses DEF RevisionInv
<1> QED
  BY <1>1, RevisionInvAlways, PTL

(* The copies never pass the cumulative budget, and only what was copied   *)
(* is parsed.                                                              *)
THEOREM RevisionTypeCorrect == RevisionSpec => []RevisionTypeOK
<1>1. RevisionInv => RevisionTypeOK
  BY DEF RevisionInv
<1> QED
  BY <1>1, RevisionInvAlways, PTL

-----------------------------------------------------------------------------
(* Sizes of shards, in whatever order they are handed over.                *)

LEMMA ShardsTotal ==
  ASSUME RevisionTypeOK, IsFiniteSet(root.refs), WellFormed, TruthfulRoot
  PROVE  /\ Nonempty \subseteq Reference /\ {ShardOf(ref) : ref \in Nonempty} \subseteq Leaf
         /\ TotalBytes({ShardOf(ref) : ref \in Nonempty}) = Declared
         /\ Weight([leaf \in {ShardOf(ref) : ref \in Nonempty} |-> Bytes(leaf)],
                   {ShardOf(ref) : ref \in Nonempty}) = Declared
<1> DEFINE T == {ShardOf(ref) : ref \in Nonempty}
           f == [ref \in Nonempty |-> ShardOf(ref)]
           w == [leaf \in T |-> Bytes(leaf)]
           v == [ref \in root.refs |-> Bytes(ref)]
<1>1. root.refs \subseteq Reference /\ Nonempty \subseteq root.refs /\ Nonempty \subseteq Reference
  BY DEF RevisionTypeOK, Root, Nonempty
<1>2. \A ref \in Nonempty : ShardOf(ref) \in Leaf /\ ShardOf(ref).recs # {}
        /\ Bytes(ShardOf(ref)) = Bytes(ref) /\ Bytes(ref) \in Nat
  BY <1>1, ShardIs DEF Nonempty
<1>3. T \subseteq Leaf
  BY <1>2
<1>4. IsFiniteSet(T) /\ IsFiniteSet(Nonempty)
  BY ShardsOfRoot
<1>5. {leaf \in T : leaf.recs # {}} = T
  BY <1>2
<1>6. TotalBytes(T) = Weight(w, T)
  <2>1. \A leaf \in T : Bytes(leaf) \in Nat
    BY <1>3, BytesIsNat
  <2> QED
    BY <1>4, <1>5, <2>1, TotalIs
<1>7. Declared = Weight(v, Nonempty)
  <2>1. \A ref \in root.refs : Bytes(ref) \in Nat
    BY <1>1, ShardIs
  <2> QED
    BY <2>1, TotalIs, DeclaredTruly DEF Nonempty
<1>8. \A p, q \in Nonempty : f[p] = f[q] => p = q
  BY <1>1 DEF WellFormed, ShardOf
<1>9. \A ref \in Nonempty : v[ref] \in Nat /\ v[ref] = w[f[ref]]
  BY <1>1, <1>2
<1>10. T = {f[ref] : ref \in Nonempty}
  OBVIOUS
<1> HIDE DEF f, w, v, T
<1>11. Weight(w, T) = Weight(v, Nonempty)
  BY <1>4, <1>8, <1>9, <1>10, WeightImage
<1> QED
  BY <1>1, <1>3, <1>6, <1>7, <1>11 DEF T, w

(* When all have arrived, each has arrived once, and the first n of them   *)
(* are no more than what the root declares.                                *)
LEMMA ArrivedIs ==
  ASSUME RevisionTypeOK, IsFiniteSet(root.refs), WellFormed, TruthfulRoot, AllArrived
  PROVE  /\ \A i, j \in 1..Len(supplied) : supplied[i].prefix = supplied[j].prefix => i = j
         /\ \A n \in 0..Len(supplied) :
              SumFunction([i \in 1..n |-> Bytes(supplied[i])]) <= Declared
         /\ SumFunction([i \in 1..Len(supplied) |-> Bytes(supplied[i])]) = Declared
<1> DEFINE T == {ShardOf(ref) : ref \in Nonempty}
           N == Len(supplied)
           w == [leaf \in T |-> Bytes(leaf)]
           b(n) == [i \in 1..n |-> Bytes(supplied[i])]
<1>1. N \in Nat /\ supplied \in Seq(Leaf) /\ IsFiniteSet(1..N) /\ Cardinality(1..N) = N
  BY Upto DEF RevisionTypeOK
<1>2. IsFiniteSet(T) /\ Cardinality(T) = N /\ T = {supplied[i] : i \in 1..N}
  BY ShardsOfRoot DEF AllArrived
<1>3. T \subseteq Leaf /\ Weight(w, T) = Declared
  BY ShardsTotal
<1>4. \A i, j \in 1..N : supplied[i] = supplied[j] => i = j
  <2> DEFINE f == [i \in 1..N |-> supplied[i]]
  <2>1. f \in Surjection(1..N, T)
    BY <1>2 DEF Surjection
  <2> HIDE DEF f, T
  <2>2. f \in Injection(1..N, T)
    BY <1>1, <1>2, <2>1, FS_SurjSameCardinalityImpliesInj
  <2>3. \A i, j \in 1..N : f[i] = f[j] => i = j
    BY <2>2 DEF Injection, IsInjective
  <2> QED
    BY <2>3 DEF f
<1>5. \A s, t \in T : s.prefix = t.prefix => s = t
  BY ShardsTotal, ShardIs DEF WellFormed, Nonempty
<1>6. \A i, j \in 1..N : supplied[i].prefix = supplied[j].prefix => i = j
  BY <1>2, <1>4, <1>5
<1>7. \A i \in 1..N : supplied[i] \in T /\ Bytes(supplied[i]) \in Nat
  BY <1>2, <1>3, BytesIsNat
<1>8. \A n \in 0..N : SumFunction(b(n)) = Weight(b(n), 1..n)
  <2> TAKE n \in 0..N
  <2> DEFINE a == b(n)
  <2>1. n \in Nat /\ n <= N
    BY <1>1
  <2>2. DOMAIN a = 1..n /\ \A i \in 1..n : a[i] \in Nat
    BY <1>1, <1>7, <2>1
  <2>3. IsFiniteSet(1..n)
    BY <2>1, Upto
  <2> HIDE DEF a
  <2>4. SumFunction(a) = Weight(a, 1..n)
    BY <2>2, <2>3, SumIsWeight
  <2> QED
    BY <2>4 DEF a
<1>9. Weight(b(N), 1..N) = Weight(w, T)
  <2> DEFINE a == b(N)
             I == 1..N
  <2>1. \A i \in I : a[i] \in Nat /\ a[i] = w[supplied[i]]
    BY <1>7
  <2>2. IsFiniteSet(I) /\ (\A i, j \in I : supplied[i] = supplied[j] => i = j)
        /\ T = {supplied[i] : i \in I}
    BY <1>1, <1>2, <1>4
  <2> HIDE DEF a, w, T, I, N
  <2>3. Weight(w, {supplied[i] : i \in I}) = Weight(a, I)
    BY <2>1, <2>2, WeightImage
  <2> QED
    BY <2>2, <2>3 DEF a, I
<1>10. \A n \in 0..N : Weight(b(n), 1..n) <= Weight(b(N), 1..N)
  <2> TAKE n \in 0..N
  <2>1. 1..n \subseteq 1..N
    BY <1>1
  <2>2. \A i \in 1..N : b(N)[i] \in Nat
    BY <1>7
  <2>3. \A i \in 1..n : b(n)[i] \in Nat /\ b(n)[i] <= b(N)[i]
    BY <1>7, <2>1
  <2> HIDE DEF b
  <2> QED
    BY <1>1, <2>1, <2>2, <2>3, WeightGrows
<1>11. N \in 0..N
  BY <1>1
<1> HIDE DEF b, w, T
<1>12. \A n \in 0..N : SumFunction(b(n)) <= Declared
  BY <1>3, <1>8, <1>9, <1>10
<1>13. SumFunction(b(N)) = Declared
  BY <1>3, <1>8, <1>9, <1>11
<1> QED
  BY <1>6, <1>12, <1>13 DEF b

(* One copy more adds its length.                                          *)
LEMMA CopiedAdds ==
  ASSUME RevisionTypeOK, NEW n \in Nat, n < Len(supplied)
  PROVE  SumFunction([i \in 1..(n + 1) |-> Bytes(supplied[i])]) =
           SumFunction([i \in 1..n |-> Bytes(supplied[i])]) + Bytes(supplied[n + 1])
<1> DEFINE v == [i \in 1..n |-> Bytes(supplied[i])]
           w == [i \in 1..(n + 1) |-> Bytes(supplied[i])]
<1>1. supplied \in Seq(Leaf) /\ Len(supplied) \in Nat
  BY DEF RevisionTypeOK
<1>2. \A i \in 1..(n + 1) : Bytes(supplied[i]) \in Nat
  <2>1. \A i \in 1..(n + 1) : supplied[i] \in Leaf
    BY <1>1
  <2> QED
    BY <2>1, BytesIsNat
<1>3. DOMAIN v = 1..n /\ DOMAIN w = 1..(n + 1) /\ w[n + 1] = Bytes(supplied[n + 1])
      /\ (\A i \in 1..n : v[i] \in Nat /\ v[i] = w[i]) /\ (\A i \in 1..(n + 1) : w[i] \in Nat)
  BY <1>2
<1>4. 1..(n + 1) = (1..n) \cup {n + 1} /\ n + 1 \notin 1..n
  OBVIOUS
<1>5. IsFiniteSet(1..n) /\ IsFiniteSet(1..(n + 1))
  BY Upto
<1> HIDE DEF v, w
<1>6. SumFunction(v) = Weight(v, 1..n) /\ SumFunction(w) = Weight(w, 1..(n + 1))
  BY <1>3, <1>5, SumIsWeight
<1>7. Weight(v, 1..n) = Weight(w, 1..n)
  BY <1>3, SameWeight
<1>8. Weight(w, 1..(n + 1)) = Weight(w, 1..n) + w[n + 1]
  BY <1>3, <1>4, <1>5, WeightAdds
<1> QED
  BY <1>3, <1>6, <1>7, <1>8 DEF v, w

-----------------------------------------------------------------------------
(* What a root that passes the preflight refers to.                        *)

LEMMA RefsFit ==
  ASSUME RevisionTypeOK, IsFiniteSet(root.refs), PreflightCode = "accepted"
  PROVE  /\ WellFormed /\ Partition({ref.prefix : ref \in root.refs})
         /\ Declared <= CumulativeBytes
         /\ EntrySum = root.entries /\ ObservedSum = root.observations
         /\ \A ref \in Nonempty : ref.epoch \in root.required
<1>1. WellFormed /\ PrefixFreeCover({ref.prefix : ref \in root.refs}) /\ Flawed = {}
      /\ EntrySum = root.entries /\ ObservedSum = root.observations /\ ~(Declared > CumulativeBytes)
  BY PreflightPasses
<1>2. {ref.prefix : ref \in root.refs} \in SUBSET Prefix
  BY DEF RevisionTypeOK, Root, Reference
<1>3. Partition({ref.prefix : ref \in root.refs})
  BY <1>1, <1>2, CoverIsPartition
<1>4. Declared <= CumulativeBytes
  BY <1>1, DeclaredIs, PlannerAssumption
<1> QED
  BY <1>1, <1>3, <1>4 DEF Flawed

(* The two counts of a set of records make its size.                       *)
LEMMA CountsAreSize ==
  ASSUME NEW R \in SUBSET Records
  PROVE  EntryCount(R) + ObservationCount(R) = Cardinality(R)
<1> DEFINE A == R \ Observations
           B == R \cap Observations
<1>1. IsFiniteSet(A) /\ IsFiniteSet(B) /\ A \cup B = R /\ A \cap B = {}
  BY FS_Subset, PlannerAssumption
<1> HIDE DEF A, B
<1>2. Cardinality(A \cup B) = Cardinality(A) + Cardinality(B) - Cardinality(A \cap B)
  BY <1>1, FS_Union
<1>3. Cardinality(A \cap B) = 0 /\ Cardinality(A) \in Nat /\ Cardinality(B) \in Nat
  BY <1>1, FS_EmptySet, FS_CardinalityType
<1> DEFINE a == Cardinality(A)
           b == Cardinality(B)
<1>4. Cardinality(R) = a + b
  <2>1. Cardinality(R) = a + b - 0 /\ a \in Nat /\ b \in Nat
    BY <1>1, <1>2, <1>3
  <2> HIDE DEF a, b
  <2> QED
    BY <2>1
<1> QED
  BY <1>4 DEF EntryCount, ObservationCount, A, B

(* And if what it declares is true, its shards are of the right size.      *)
LEMMA TrueRefsFit ==
  ASSUME RevisionTypeOK, IsFiniteSet(root.refs), PreflightCode = "accepted", TruthfulRoot,
         NEW ref \in Nonempty
  PROVE  /\ ref \in root.refs /\ ref \in Reference /\ ref.recs # {}
         /\ ~OverBudget(Cardinality(ref.recs), Bytes(ref))
         /\ Cardinality(ref.recs) \in 1..MaxRecordsPerLeaf
         /\ Bytes(ref) \in Nat /\ Bytes(ref) <= ShardPlaintextBytes
<1>1. WellFormed /\ Flawed = {}
  BY PreflightPasses
<1>2. ref \in root.refs /\ ref \in Reference /\ ref.recs # {} /\ ref.recs \in SUBSET Records
  BY DEF Nonempty, RevisionTypeOK, Root, Reference
<1>3. DeclaredCount(ref) = Cardinality(ref.recs) /\ ref.bytes = Bytes(ref)
  BY <1>2, CountsAreSize DEF TruthfulRoot, Truthful, DeclaredCount
<1>4. ~OverBudget(DeclaredCount(ref), ref.bytes)
  BY <1>1 DEF Flawed
<1>5. DeclaredCount(ref) \in 1..MaxRecordsPerLeaf /\ ref.bytes \in 1..ShardPlaintextBytes
  BY <1>1 DEF WellFormed
<1>6. ref.bytes \in Nat /\ ref.bytes <= ShardPlaintextBytes
  BY <1>5, PlannerAssumption
<1> QED
  BY <1>2, <1>3, <1>4, <1>5, <1>6

(* A root that passes has no more shards than the reader takes.            *)
LEMMA FewNonempty ==
  ASSUME IsFiniteSet(root.refs), PreflightCode = "accepted"
  PROVE  Cardinality(Nonempty) \in Nat /\ ~(Cardinality(Nonempty) > MaxReferences)
<1>1. Cardinality(root.refs) \in 1..MaxReferences
  BY PreflightPasses DEF WellFormed
<1>2. IsFiniteSet(Nonempty) /\ Cardinality(Nonempty) <= Cardinality(root.refs)
  BY FS_Subset DEF Nonempty
<1>3. Cardinality(Nonempty) \in Nat
  BY <1>2, FS_CardinalityType
<1> QED
  BY <1>1, <1>2, <1>3, PlannerAssumption

LEMMA HashIsHash ==
  ASSUME RevisionTypeOK, NEW r \in input \cup DOMAIN past
  PROVE  HashOf(r) \in Hash
  BY PastIs DEF RevisionTypeOK, TypeOK, HashOf

(* No record is under two references.                                      *)
LEMMA RefsApart ==
  ASSUME RevisionTypeOK, Placed, WellFormed, Partition({ref.prefix : ref \in root.refs}),
         NEW p \in root.refs, NEW q \in root.refs, NEW r, r \in p.recs, r \in q.recs
  PROVE  p = q
<1>1. HashOf(r) \in Hash /\ Covers(p.prefix, HashOf(r)) /\ Covers(q.prefix, HashOf(r))
  BY HashIsHash DEF Placed
<1>2. p.prefix = q.prefix
  BY <1>1 DEF Partition
<1> QED
  BY <1>2 DEF WellFormed

(* So the counts of the shards add up to those of all records.             *)
LEMMA CountsAddUp ==
  ASSUME RevisionTypeOK, IsFiniteSet(root.refs), TruthfulRoot,
         \A p, q \in root.refs : p # q => p.recs \cap q.recs = {}
  PROVE  LET R == UNION {ref.recs : ref \in Nonempty}
         IN  EntrySum = EntryCount(R) /\ ObservedSum = ObservationCount(R)
<1> DEFINE R == UNION {ref.recs : ref \in Nonempty}
           e == [ref \in Nonempty |-> EntryCount(ref.recs)]
           o == [ref \in Nonempty |-> ObservationCount(ref.recs)]
           E == [ref \in Nonempty |-> ref.recs \ Observations]
           O == [ref \in Nonempty |-> ref.recs \cap Observations]
<1>1. IsFiniteSet(Nonempty) /\ Nonempty \subseteq root.refs
  BY FS_Subset DEF Nonempty
<1>2. \A ref \in Nonempty : ref.recs \subseteq Records
  BY <1>1 DEF RevisionTypeOK, Root, Reference
<1>3. \A ref \in Nonempty : IsFiniteSet(E[ref]) /\ IsFiniteSet(O[ref])
        /\ e[ref] = Cardinality(E[ref]) /\ o[ref] = Cardinality(O[ref])
  <2> TAKE ref \in Nonempty
  <2>1. IsFiniteSet(ref.recs \ Observations) /\ IsFiniteSet(ref.recs \cap Observations)
    BY <1>2, PlannerAssumption, FS_Subset
  <2> QED
    BY <2>1 DEF EntryCount, ObservationCount
<1>4. \A p, q \in Nonempty : p # q => E[p] \cap E[q] = {} /\ O[p] \cap O[q] = {}
  BY <1>1
<1>5. UNION {E[ref] : ref \in Nonempty} = R \ Observations
  OBVIOUS
<1>6. UNION {O[ref] : ref \in Nonempty} = R \cap Observations
  OBVIOUS
<1>7. DOMAIN e = Nonempty /\ DOMAIN o = Nonempty
  OBVIOUS
<1>8. EntrySum = SumFunction(e) /\ ObservedSum = SumFunction(o)
  BY DeclaredTruly
<1>9. EntryCount(R) = Cardinality(R \ Observations) /\ ObservationCount(R) = Cardinality(R \cap Observations)
  BY DEF EntryCount, ObservationCount
<1> HIDE DEF e, o, E, O, R
<1>10. \A ref \in Nonempty : e[ref] \in Nat /\ o[ref] \in Nat
  BY <1>3, FS_CardinalityType
<1>11. SumFunction(e) = Weight(e, Nonempty) /\ SumFunction(o) = Weight(o, Nonempty)
  BY <1>1, <1>7, <1>10, SumIsWeight
<1>12. Cardinality(UNION {E[ref] : ref \in Nonempty}) = Weight(e, Nonempty)
  <2>1. \A ref \in Nonempty : IsFiniteSet(E[ref]) /\ e[ref] = Cardinality(E[ref])
    BY <1>3
  <2>2. \A p, q \in Nonempty : p # q => E[p] \cap E[q] = {}
    BY <1>4
  <2> QED
    BY <1>1, <2>1, <2>2, PartsAddUp
<1>13. Cardinality(UNION {O[ref] : ref \in Nonempty}) = Weight(o, Nonempty)
  <2>1. \A ref \in Nonempty : IsFiniteSet(O[ref]) /\ o[ref] = Cardinality(O[ref])
    BY <1>3
  <2>2. \A p, q \in Nonempty : p # q => O[p] \cap O[q] = {}
    BY <1>4
  <2> QED
    BY <1>1, <2>1, <2>2, PartsAddUp
<1> QED
  BY <1>5, <1>6, <1>8, <1>9, <1>11, <1>12, <1>13 DEF R

-----------------------------------------------------------------------------
(* The checks of the reader when all shards have arrived.                  *)

LEMMA CopyPasses ==
  ASSUME ArrivalInv, phase = "copying", copied < Len(supplied), AllArrived, TruthfulRoot
  PROVE  LET size   == Bytes(supplied[copied + 1])
             budget == IF Declared < CumulativeBytes THEN Declared ELSE CumulativeBytes
         IN  ~(size > ShardPlaintextBytes \/ total + size > budget)
<1> DEFINE size   == Bytes(supplied[copied + 1])
           budget == IF Declared < CumulativeBytes THEN Declared ELSE CumulativeBytes
<1>1. RevisionTypeOK /\ IsFiniteSet(root.refs) /\ PreflightCode = "accepted"
      /\ total = SumFunction([i \in 1..copied |-> Bytes(supplied[i])])
  BY DEF ArrivalInv, RevisionInv, ReaderInOrder
<1>2. copied \in Nat /\ Len(supplied) \in Nat /\ copied + 1 \in 1..Len(supplied)
      /\ copied + 1 \in 0..Len(supplied) /\ total \in Nat
  BY <1>1, PlannerAssumption DEF RevisionTypeOK
<1>3. PICK ref \in Nonempty : supplied[copied + 1] = ShardOf(ref)
  BY <1>2 DEF AllArrived
<1>4. size = Bytes(ref) /\ size \in Nat /\ size <= ShardPlaintextBytes
  BY <1>1, <1>3, TrueRefsFit, ShardIs
<1>5. total + size = SumFunction([i \in 1..(copied + 1) |-> Bytes(supplied[i])])
  BY <1>1, <1>2, CopiedAdds
<1>6. WellFormed /\ Declared <= CumulativeBytes /\ Declared \in Nat
  BY <1>1, RefsFit, DeclaredIs
<1>7. total + size <= Declared
  BY <1>1, <1>2, <1>5, <1>6, ArrivedIs
<1> HIDE DEF size
<1>8. budget = Declared
  BY <1>6, PlannerAssumption
<1> QED
  BY <1>2, <1>4, <1>6, <1>7, <1>8, PlannerAssumption DEF size

LEMMA TotalPasses ==
  ASSUME ArrivalInv, phase = "copying", copied = Len(supplied), AllArrived, TruthfulRoot
  PROVE  total = Declared
<1>1. RevisionTypeOK /\ IsFiniteSet(root.refs) /\ PreflightCode = "accepted"
      /\ total = SumFunction([i \in 1..copied |-> Bytes(supplied[i])])
  BY DEF ArrivalInv, RevisionInv, ReaderInOrder
<1> QED
  BY <1>1, RefsFit, ArrivedIs

LEMMA ReadPasses ==
  ASSUME ArrivalInv, phase = "reading", Cardinality(read) < Len(supplied), AllArrived, TruthfulRoot
  PROVE  ShardCode(supplied[Cardinality(read) + 1]) = "accepted" \/ ContentRefused
<1> DEFINE n == Cardinality(read)
           T == {ShardOf(ref) : ref \in Nonempty}
           R == UNION {ref.recs : ref \in Nonempty}
<1>1. RevisionTypeOK /\ IsFiniteSet(root.refs) /\ PreflightCode = "accepted" /\ IsFiniteSet(read)
      /\ read = {supplied[i] : i \in 1..n} /\ Placed
  BY DEF ArrivalInv, RevisionInv, ReaderInOrder
<1>2. n \in Nat /\ Len(supplied) \in Nat /\ n + 1 \in 1..Len(supplied)
  BY <1>1, FS_CardinalityType DEF RevisionTypeOK
<1>3. PICK shard \in T : shard = supplied[n + 1]
  BY <1>2 DEF AllArrived
<1>4. PICK ref \in Nonempty : shard = ShardOf(ref)
  BY <1>3
<1>5. ref \in root.refs /\ ref \in Reference /\ shard.prefix = ref.prefix /\ shard.recs = ref.recs
      /\ ~OverBudget(Cardinality(ref.recs), Bytes(ref))
      /\ Cardinality(ref.recs) \in 1..MaxRecordsPerLeaf /\ Bytes(shard) = Bytes(ref)
  BY <1>1, <1>4, TrueRefsFit, ShardIs
<1>6. WellFormed /\ Declared <= CumulativeBytes /\ Declared \in Nat
  BY <1>1, RefsFit, DeclaredIs
<1>7. ~(Cardinality(shard.recs) \notin 1..MaxRecordsPerLeaf) 
      /\ ~OverBudget(Cardinality(shard.recs), Bytes(shard))
  BY <1>5
<1>8. ~(\E r \in shard.recs : ~Covers(shard.prefix, HashOf(r)))
  BY <1>1, <1>5 DEF Placed
<1>9. ~(\E other \in read : other.prefix = shard.prefix)
  <2> SUFFICES ASSUME NEW i \in 1..n, supplied[i].prefix = shard.prefix PROVE FALSE
    BY <1>1
  <2>1. i \in 1..Len(supplied) /\ i # n + 1
    BY <1>2
  <2> QED
    BY <1>1, <1>2, <1>3, <1>6, <2>1, ArrivedIs
<1>10. ~(TotalBytes(read \cup {shard}) > CumulativeBytes)
  <2>1. IsFiniteSet(T) /\ T \subseteq Leaf /\ TotalBytes(T) = Declared
    BY <1>1, <1>6, ShardsTotal, ShardsOfRoot
  <2>2. read \subseteq T
    <3>1. \A i \in 1..n : i \in 1..Len(supplied)
      BY <1>2
    <3>2. \A i \in 1..n : supplied[i] \in T
      BY <3>1 DEF AllArrived
    <3> HIDE DEF T, n
    <3> QED
      BY <1>1, <3>2
  <2>3. read \cup {shard} \in SUBSET T /\ \A leaf \in T : Bytes(leaf) \in Nat
    BY <1>3, <2>1, <2>2, BytesIsNat
  <2>4. IsFiniteSet(read \cup {shard}) /\ \A leaf \in read \cup {shard} : Bytes(leaf) \in Nat
    BY <1>1, <2>3, FS_AddElement
  <2> HIDE DEF T
  <2>5. TotalBytes(read \cup {shard}) <= TotalBytes(T)
    BY <2>1, <2>3, TotalGrows
  <2>6. TotalBytes(read \cup {shard}) \in Nat
    BY <2>4, TotalIs
  <2> QED
    BY <1>6, <2>1, <2>5, <2>6, PlannerAssumption
<1>11. CASE Ambiguous(shard.recs)
  <2>1. shard.recs \subseteq R
    BY <1>4, <1>5
  <2>2. Ambiguous(R)
    BY <1>11, <2>1 DEF Ambiguous
  <2> HIDE DEF R
  <2>3. StateCode(R) # "accepted"
    BY <2>2, StatePasses
  <2> QED
    BY <2>3 DEF ContentRefused, R
<1>12. CASE ~Ambiguous(shard.recs)
  <2>1. ShardCode(shard) = "accepted"
    BY <1>7, <1>8, <1>9, <1>10, <1>12, ShardPasses
  <2> QED
    BY <1>3, <2>1
<1> QED
  BY <1>11, <1>12

LEMMA ConcludePasses ==
  ASSUME ArrivalInv, phase = "reading", Cardinality(read) = Len(supplied), AllArrived, TruthfulRoot
  PROVE  RevisionCode = "accepted" \/ ContentRefused
<1> DEFINE T == {ShardOf(ref) : ref \in Nonempty}
           R == UNION {ref.recs : ref \in Nonempty}
<1>1. RevisionTypeOK /\ IsFiniteSet(root.refs) /\ PreflightCode = "accepted" /\ Placed
      /\ read = {supplied[i] : i \in 1..Cardinality(read)}
  BY DEF ArrivalInv, RevisionInv, ReaderInOrder
<1>2. read = T /\ Len(supplied) = Cardinality(Nonempty)
  BY <1>1 DEF AllArrived
<1>3. WellFormed /\ Partition({ref.prefix : ref \in root.refs})
      /\ EntrySum = root.entries /\ ObservedSum = root.observations
  BY <1>1, RefsFit
<1>4. \A ref \in Nonempty : ref \in root.refs /\ ref \in Reference /\ ref.recs # {}
        /\ ref.epoch \in root.required
        /\ ShardOf(ref).prefix = ref.prefix /\ ShardOf(ref).recs = ref.recs
        /\ Bytes(ShardOf(ref)) = Bytes(ref) /\ Truthful(ref)
  BY <1>1, RefsFit, TrueRefsFit, ShardIs DEF TruthfulRoot
<1>5. AllRead = R
  <2>1. AllRead = UNION {shard.recs : shard \in T}
    BY <1>2 DEF AllRead
  <2> QED
    BY <1>4, <2>1
<1>6. Cardinality(read) = Cardinality(Nonempty)
  BY <1>2
<1>7. ASSUME NEW ref \in root.refs PROVE ref \notin Mismatched
  <2>1. \A shard \in ShardsAt(ref) : ref \in Nonempty /\ shard = ShardOf(ref)
    <3> SUFFICES ASSUME NEW shard \in T, shard.prefix = ref.prefix
                 PROVE  ref \in Nonempty /\ shard = ShardOf(ref)
      BY <1>2 DEF ShardsAt
    <3>1. PICK other \in Nonempty : shard = ShardOf(other)
      OBVIOUS
    <3>2. other = ref
      BY <1>3, <1>4, <3>1 DEF WellFormed
    <3> QED
      BY <3>1, <3>2
  <2>2. ref \in Nonempty => ShardOf(ref) \in ShardsAt(ref)
    BY <1>2, <1>4 DEF ShardsAt
  <2>3. ref \notin Uncovered
    BY <1>4, <2>1, <2>2 DEF Uncovered, Nonempty
  <2>4. ~(ref \in Nonempty /\ Differs(ref))
    BY <1>4, <2>1 DEF Differs, Truthful
  <2> QED
    BY <2>3, <2>4 DEF Mismatched
<1>8. Mismatched = {} /\ ~MismatchIsCover
  <2>1. Mismatched \subseteq root.refs
    BY DEF Mismatched, Uncovered, Nonempty
  <2>2. Mismatched = {}
    BY <1>7, <2>1
  <2> QED
    BY <2>2 DEF MismatchIsCover
<1>9. \A p, q \in root.refs : p # q => p.recs \cap q.recs = {}
  BY <1>1, <1>3, RefsApart
<1>10. EntryCount(AllRead) = root.entries /\ ObservationCount(AllRead) = root.observations
  BY <1>1, <1>3, <1>5, <1>9, CountsAddUp
<1>11. KnownEpochs = SnapshotEpochs(R) \cup {ref.epoch : ref \in Nonempty}
  BY <1>5 DEF KnownEpochs
<1>12. {ref.epoch : ref \in Nonempty} \subseteq root.required
  BY <1>4
<1>13. CASE SharedRead
  <2>1. PICK a \in T, b \in T : a # b /\ \E r \in a.recs, q \in b.recs : Identity(r) = Identity(q)
    BY <1>2, <1>13 DEF SharedRead
  <2>2. PICK r \in a.recs, q \in b.recs : Identity(r) = Identity(q)
    BY <2>1
  <2>3. PICK x \in Nonempty, y \in Nonempty : a = ShardOf(x) /\ b = ShardOf(y)
    OBVIOUS
  <2>4. x # y /\ r \in x.recs /\ q \in y.recs
    BY <1>4, <2>1, <2>2, <2>3
  <2>5. r # q
    BY <1>4, <1>9, <2>4
  <2>6. Ambiguous(R)
    BY <2>2, <2>4, <2>5 DEF Ambiguous
  <2> HIDE DEF R
  <2>7. StateCode(R) # "accepted"
    BY <2>6, StatePasses
  <2> QED
    BY <2>7 DEF ContentRefused, R
<1>14. CASE ~SharedRead
  <2>1. ASSUME ~ContentRefused PROVE RevisionCode = "accepted"
    <3>1. /\ StateCode(R) = "accepted" /\ SnapshotEpochs(R) \subseteq root.required
          /\ ~(Cardinality(root.required \ (SnapshotEpochs(R) \cup {ref.epoch : ref \in Nonempty})) > 1)
      BY <2>1 DEF ContentRefused
    <3>2. KnownEpochs \subseteq root.required /\ ~(Cardinality(root.required \ KnownEpochs) > 1)
      BY <1>11, <1>12, <3>1
    <3>3. StateCode(AllRead) = "accepted"
      BY <1>5, <3>1
    <3> QED
      BY <1>6, <1>8, <1>10, <1>14, <3>2, <3>3, RevisionPasses
  <2> QED
    BY <2>1
<1> QED
  BY <1>13, <1>14

-----------------------------------------------------------------------------
(* Every step keeps the order of the reader and the place of the records.  *)

(* Where the references come from: the plan, or an earlier revision.       *)
LEMMA LeavesPlaced ==
  ASSUME ArrivalInv
  PROVE  /\ outcome = "planned" =>
              \A leaf \in emitted : \A r \in leaf.recs :
                r \in input \cup DOMAIN past /\ Covers(leaf.prefix, HashOf(r))
         /\ \A leaf \in Coarsest(past) : \A r \in leaf.recs :
              r \in input \cup DOMAIN past /\ Covers(leaf.prefix, HashOf(r))
<1>1. ASSUME outcome = "planned", NEW leaf \in emitted, NEW r \in leaf.recs
      PROVE  r \in input \cup DOMAIN past /\ Covers(leaf.prefix, HashOf(r))
  <2>1. leaf \in Leaves /\ ExactCover
    BY DEF Leaves, ArrivalInv, RevisionInv, IInv
  <2>2. leaf.recs = {q \in input : Covers(leaf.prefix, route[q])}
    BY <1>1, <2>1 DEF ExactCover
  <2> QED
    BY <1>1, <2>2 DEF HashOf
<1>2. ASSUME NEW leaf \in Coarsest(past), NEW r \in leaf.recs
      PROVE  r \in input \cup DOMAIN past /\ Covers(leaf.prefix, HashOf(r))
  <2>1. PICK p \in Prefix : leaf = LeafAt(past, p)
    BY DEF Coarsest
  <2>2. r \in DOMAIN past /\ Covers(leaf.prefix, past[r])
    BY <2>1 DEF LeafAt
  <2>3. HashOf(r) = past[r]
    BY <2>2 DEF ArrivalInv, Placed, HashOf
  <2> QED
    BY <2>2, <2>3
<1> QED
  BY <1>1, <1>2

LEMMA ArrivalFrame ==
  ASSUME root' = root, supplied' = supplied
  PROVE  /\ AllArrived' = AllArrived /\ ContentRefused' = ContentRefused /\ Nonempty' = Nonempty
         /\ TruthfulRoot' = TruthfulRoot
  BY DEF AllArrived, ContentRefused, TruthfulRoot, Truthful, Bytes, Nonempty, StateCode, SnapshotEpochs, EntryCount,
         ObservationCount, Ambiguous, Dangling, Live

LEMMA PlacedFrame ==
  ASSUME Placed, UNCHANGED <<input, route, past, root>>
  PROVE  Placed'
<1>1. \A r : HashOf(r)' = HashOf(r)
  BY HashFrame
<1> QED
  BY <1>1 DEF Placed

(* The planner does not disturb the reader.                                *)
LEMMA IdleKeepsOrder ==
  ASSUME ArrivalInv, RevisionInv',
         UNCHANGED <<input, route, past, root, fetched, supplied, phase, copied, total, read, verdict>>
  PROVE  ArrivalInv'
<1>1. PreflightCode' = PreflightCode /\ AllArrived' = AllArrived /\ TruthfulRoot' = TruthfulRoot
      /\ ContentRefused' = ContentRefused /\ Nonempty' = Nonempty
  BY RootFrame, ArrivalFrame
<1>2. ReaderInOrder'
  BY <1>1 DEF ArrivalInv, ReaderInOrder
<1> QED
  BY <1>1, <1>2, PlacedFrame DEF ArrivalInv

LEMMA RootKeepsOrder ==
  ASSUME ArrivalInv, RevisionInv', phase \in {"planning", "assembled"}, phase' = "assembled",
         UNCHANGED <<input, route, past, copied, total, read>>,
         \A ref \in root'.refs : \A r \in ref.recs :
           r \in input \cup DOMAIN past /\ Covers(ref.prefix, HashOf(r))
  PROVE  ArrivalInv'
<1>1. \A r : HashOf(r)' = HashOf(r)
  BY HashFrame
<1>2. Placed'
  BY <1>1 DEF ArrivalInv, Placed
<1>3. ReaderInOrder'
  BY DEF ArrivalInv, ReaderInOrder
<1> QED
  BY <1>2, <1>3 DEF ArrivalInv

LEMMA CoordinatorKeepsOrder ==
  ASSUME ArrivalInv, RevisionInv', Coordinate
  PROVE  ArrivalInv'
<1>1. CASE Assemble
  <2>1. /\ phase = "planning" /\ phase' = "assembled" /\ outcome = "planned"
        /\ root'.refs = {ReferTo(leaf, Active) : leaf \in emitted}
        /\ UNCHANGED <<plan, past, copied, total, read>>
    BY <1>1 DEF Assemble
  <2>2. \A ref \in root'.refs : \A r \in ref.recs :
          r \in input \cup DOMAIN past /\ Covers(ref.prefix, HashOf(r))
    BY <2>1, LeavesPlaced DEF ReferTo
  <2> QED
    BY <2>1, <2>2, RootKeepsOrder DEF plan, vars
<1>2. ASSUME NEW ref \in root.refs, NEW leaf \in Coarsest(past), NEW epoch \in {Active, Past},
             CarryOver(ref, leaf, epoch)
      PROVE  ArrivalInv'
  <2>1. phase = "assembled" /\ UNCHANGED <<plan, past, reader>>
        /\ root' = [root EXCEPT !.refs = (@ \ {ref}) \cup {ReferTo(leaf, epoch)}]
    BY <1>2 DEF CarryOver
  <2>2. root \in Root
    BY DEF ArrivalInv, RevisionInv, RevisionTypeOK
  <2>3. root'.refs = (root.refs \ {ref}) \cup {ReferTo(leaf, epoch)}
    BY <2>1, <2>2 DEF Root
  <2>4. \A q \in root'.refs : \A r \in q.recs :
          r \in input \cup DOMAIN past /\ Covers(q.prefix, HashOf(r))
    BY <2>3, LeavesPlaced DEF ReferTo, ArrivalInv, Placed
  <2> QED
    BY <2>1, <2>4, RootKeepsOrder DEF plan, vars, reader
<1>3. ASSUME NEW epoch \in Epochs, Misepoch(epoch)
      PROVE  ArrivalInv'
  <2>1. phase = "assembled" /\ UNCHANGED <<plan, past, reader>>
        /\ root' = [root EXCEPT !.required = IF epoch \in @ THEN @ \ {epoch} ELSE @ \cup {epoch}]
    BY <1>3 DEF Misepoch
  <2>2. root \in Root
    BY DEF ArrivalInv, RevisionInv, RevisionTypeOK
  <2>3. root'.refs = root.refs
    BY <2>1, <2>2 DEF Root
  <2> QED
    BY <2>1, <2>3, RootKeepsOrder DEF plan, vars, reader, ArrivalInv, Placed
<1>4. ASSUME NEW ref \in Nonempty, NEW told \in Misdeclarations(ref), Misdeclare(ref, told)
      PROVE  ArrivalInv'
  <2>1. phase = "assembled" /\ UNCHANGED <<plan, past, reader>>
        /\ root'.refs = (root.refs \ {ref}) \cup {told}
        /\ told.prefix = ref.prefix /\ told.recs = ref.recs
    BY <1>4, MisdeclareIs DEF ArrivalInv
  <2>2. \A q \in root'.refs : \A r \in q.recs :
          r \in input \cup DOMAIN past /\ Covers(q.prefix, HashOf(r))
    BY <2>1 DEF ArrivalInv, Placed, Nonempty
  <2> QED
    BY <2>1, <2>2, RootKeepsOrder DEF plan, vars, reader
<1>5. ASSUME NEW ref \in Nonempty, Fetch(ref) \/ Misfetch(ref)
      PROVE  ArrivalInv'
  <2>1. phase = "fetching" /\ UNCHANGED <<plan, past, root, reader>>
    BY <1>5 DEF Fetch, Misfetch
  <2>2. UNCHANGED <<input, route, past, root, phase, copied, total, read>>
    BY <2>1 DEF plan, vars, reader
  <2>3. ReaderInOrder'
    BY <2>1, <2>2 DEF ArrivalInv, ReaderInOrder
  <2> QED
    BY <2>1, <2>2, <2>3, PlacedFrame DEF ArrivalInv
<1> QED
  BY <1>1, <1>2, <1>3, <1>4, <1>5 DEF Coordinate

(* A verdict, and why it is not a refusal of shards that are all there.    *)
LEMMA JudgedInOrder ==
  ASSUME ArrivalInv, RevisionInv', NEW code, Judge(code), UNCHANGED <<plan, past, coordinator>>,
         \/ PreflightCode # "accepted" /\ code = PreflightCode /\ fetched = {}
         \/ /\ PreflightCode = "accepted" /\ fetched = Nonempty
            /\ AllArrived /\ TruthfulRoot => code = "accepted" \/ ContentRefused
  PROVE  ArrivalInv'
<1>1. UNCHANGED <<input, route, past, root, fetched, supplied, read>>
      /\ phase' = "done" /\ verdict' = code
  BY DEF Judge, plan, vars, coordinator
<1>2. PreflightCode' = PreflightCode /\ AllArrived' = AllArrived /\ TruthfulRoot' = TruthfulRoot
      /\ ContentRefused' = ContentRefused /\ Nonempty' = Nonempty
  BY <1>1, RootFrame, ArrivalFrame
<1>3. ReaderInOrder'
  BY <1>1 DEF ReaderInOrder
<1> QED
  BY <1>1, <1>2, <1>3, PlacedFrame DEF ArrivalInv

LEMMA ReaderKeepsOrder ==
  ASSUME ArrivalInv, RevisionInv', Validate
  PROVE  ArrivalInv'
<1>1. RevisionTypeOK /\ IsFiniteSet(read) /\ ReaderInOrder /\ Placed
      /\ (phase \in {"fetching", "copying", "reading"} => PreflightCode = "accepted")
      /\ (phase \in {"copying", "reading"} =>
            fetched = Nonempty /\ Len(supplied) = Cardinality(Nonempty))
  BY DEF ArrivalInv, RevisionInv, ReaderInOrder
<1>2. UNCHANGED <<plan, past, coordinator>> /\ UNCHANGED <<input, route, past, root, fetched, supplied>>
  BY DEF Validate, Preflight, Deliver, Copy, Copied, Read, Conclude, plan, vars, coordinator
<1>3. Nonempty' = Nonempty /\ Placed'
  BY <1>1, <1>2, RootFrame, PlacedFrame
<1>4. CASE Preflight
  <2>1. CASE PreflightCode = "accepted"
    <3>1. phase = "assembled" /\ phase' = "fetching" /\ UNCHANGED <<copied, total, read>>
      BY <1>4, <2>1 DEF Preflight
    <3>2. ReaderInOrder'
      BY <1>1, <3>1 DEF ReaderInOrder
    <3> QED
      BY <1>3, <3>1, <3>2 DEF ArrivalInv
  <2>2. CASE PreflightCode # "accepted"
    <3>1. phase = "assembled" /\ Judge(PreflightCode) /\ fetched = {}
      BY <1>4, <2>2 DEF Preflight, ArrivalInv, RevisionInv
    <3> QED
      BY <1>2, <2>2, <3>1, JudgedInOrder
  <2> QED
    BY <2>1, <2>2
<1>5. CASE Deliver
  <2>1. phase = "fetching" /\ fetched = Nonempty
    BY <1>5 DEF Deliver
  <2>2. CASE Len(supplied) > MaxReferences \/ Len(supplied) # Cardinality(Nonempty)
    <3>1. PICK code \in {"CAPACITY", "COVER"} : Judge(code)
      BY <1>5, <2>2 DEF Deliver
    <3>2. ~AllArrived
      BY <1>1, <2>1, <2>2, FewNonempty DEF AllArrived, ArrivalInv, RevisionInv
    <3> QED
      BY <1>1, <1>2, <2>1, <3>1, <3>2, JudgedInOrder
  <2>3. CASE ~(Len(supplied) > MaxReferences) /\ Len(supplied) = Cardinality(Nonempty)
    <3>1. phase' = "copying" /\ UNCHANGED <<copied, total, read>> /\ copied = 0 /\ total = 0 /\ read = {}
      BY <1>1, <1>5, <2>1, <2>3 DEF Deliver, ReaderInOrder
    <3>2. total = SumFunction([i \in 1..copied |-> Bytes(supplied[i])])
      <4> DEFINE e == [i \in 1..copied |-> Bytes(supplied[i])]
      <4>1. 1..copied = {} /\ DOMAIN e = 1..copied /\ \A i \in DOMAIN e : e[i] \in Nat
        BY <3>1
      <4> HIDE DEF e
      <4>2. SumFunction(e) = Weight(e, {})
        BY <4>1, FS_EmptySet, SumIsWeight
      <4> QED
        BY <3>1, <4>2, WeightOfNone DEF e
    <3>3. ReaderInOrder'
      BY <1>2, <1>3, <2>1, <2>3, <3>1, <3>2 DEF ReaderInOrder, Bytes
    <3> QED
      BY <1>3, <3>1, <3>3 DEF ArrivalInv
  <2> QED
    BY <2>2, <2>3
<1>6. CASE Copy
  <2> DEFINE size   == Bytes(supplied[copied + 1])
             budget == IF Declared < CumulativeBytes THEN Declared ELSE CumulativeBytes
             over   == size > ShardPlaintextBytes \/ total + size > budget
  <2>1. phase = "copying" /\ copied < Len(supplied)
    BY <1>6 DEF Copy
  <2>2. CASE over
    <3>1. Judge("CAPACITY")
      BY <1>6, <2>2 DEF Copy
    <3>2. ~(AllArrived /\ TruthfulRoot)
      BY <2>1, <2>2, CopyPasses
    <3> QED
      BY <1>1, <1>2, <2>1, <3>1, <3>2, JudgedInOrder
  <2>3. CASE ~over
    <3>1. copied' = copied + 1 /\ total' = total + size /\ UNCHANGED <<phase, read, verdict>>
      BY <1>6, <2>3 DEF Copy
    <3>2. copied \in Nat
      BY <1>1 DEF RevisionTypeOK
    <3>3. total' = SumFunction([i \in 1..copied' |-> Bytes(supplied[i])])
      BY <1>1, <2>1, <3>1, <3>2, CopiedAdds DEF ReaderInOrder
    <3>4. ReaderInOrder'
      BY <1>1, <1>2, <1>3, <2>1, <3>1, <3>3 DEF ReaderInOrder, Bytes
    <3> QED
      BY <1>3, <2>1, <3>1, <3>4 DEF ArrivalInv
  <2> QED
    BY <2>2, <2>3
<1>7. CASE Copied
  <2>1. phase = "copying" /\ copied = Len(supplied)
    BY <1>7 DEF Copied
  <2>2. CASE total # Declared
    <3>1. Judge("REFERENCE") /\ ~(AllArrived /\ TruthfulRoot)
      BY <1>7, <2>1, <2>2, TotalPasses DEF Copied
    <3> QED
      BY <1>1, <1>2, <2>1, <3>1, JudgedInOrder
  <2>3. CASE total = Declared
    <3>1. phase' = "reading" /\ UNCHANGED read /\ read = {}
      BY <1>1, <1>7, <2>1, <2>3 DEF Copied, ReaderInOrder
    <3>2. 1..Cardinality(read) = {}
      BY <3>1, FS_EmptySet
    <3>3. ReaderInOrder'
      BY <1>1, <1>2, <1>3, <2>1, <3>1, <3>2 DEF ReaderInOrder
    <3> QED
      BY <1>3, <3>1, <3>3 DEF ArrivalInv
  <2> QED
    BY <2>2, <2>3
<1>8. CASE Read
  <2> DEFINE n     == Cardinality(read)
             shard == supplied[n + 1]
  <2>1. phase = "reading" /\ n < Len(supplied) /\ n \in Nat
        /\ read = {supplied[i] : i \in 1..n}
    BY <1>1, <1>8, FS_CardinalityType DEF Read, ReaderInOrder
  <2>2. CASE ShardCode(shard) = "accepted"
    <3>1. read' = read \cup {shard} /\ UNCHANGED <<phase, copied, total, verdict>>
      BY <1>8, <2>2 DEF Read
    <3>2. shard \notin read
      BY <2>2, ShardPasses
    <3> HIDE DEF n
    <3>3. Cardinality(read') = n + 1
      BY <1>1, <3>1, <3>2, FS_AddElement DEF n
    <3>4. 1..(n + 1) = (1..n) \cup {n + 1}
      BY <2>1
    <3>5. read' = {supplied[i] : i \in 1..(n + 1)}
      BY <2>1, <3>1, <3>4
    <3>6. ReaderInOrder'
      BY <1>1, <1>2, <1>3, <2>1, <3>1, <3>3, <3>5 DEF ReaderInOrder
    <3> QED
      BY <1>3, <2>1, <3>1, <3>6 DEF ArrivalInv
  <2>3. CASE ShardCode(shard) # "accepted"
    <3>1. Judge(ShardCode(shard))
      BY <1>8, <2>3 DEF Read
    <3>2. AllArrived /\ TruthfulRoot => ContentRefused
      BY <2>1, <2>3, ReadPasses
    <3> QED
      BY <1>1, <1>2, <2>1, <3>1, <3>2, JudgedInOrder
  <2> QED
    BY <2>2, <2>3
<1>9. CASE Conclude
  <2>1. phase = "reading" /\ Cardinality(read) = Len(supplied) /\ Judge(RevisionCode)
    BY <1>9 DEF Conclude
  <2>2. AllArrived /\ TruthfulRoot => RevisionCode = "accepted" \/ ContentRefused
    BY <2>1, ConcludePasses
  <2> QED
    BY <1>1, <1>2, <2>1, <2>2, JudgedInOrder
<1> QED
  BY <1>4, <1>5, <1>6, <1>7, <1>8, <1>9 DEF Validate

LEMMA ArrivalInvInit == RevisionInit => ArrivalInv
<1> SUFFICES ASSUME RevisionInit PROVE ArrivalInv
  OBVIOUS
<1>1. RevisionInv
  BY RevisionInvInit
<1>2. root = NoRoot /\ phase = "planning" /\ copied = 0 /\ total = 0 /\ read = {}
  BY DEF RevisionInit
<1>3. \A r \in input \cap DOMAIN past : route[r] = past[r]
  <2>1. PICK hash \in [{Identity(r) : r \in Records} -> Hash], R \in SUBSET Records, P \in SUBSET Records :
          input = R /\ route = [r \in R |-> hash[Identity(r)]] /\ past = [r \in P |-> hash[Identity(r)]]
    BY DEF RevisionInit
  <2> QED
    BY <2>1
<1>4. Placed
  BY <1>2, <1>3 DEF Placed, NoRoot
<1>5. ReaderInOrder
  BY <1>2 DEF ReaderInOrder
<1> QED
  BY <1>1, <1>2, <1>4, <1>5 DEF ArrivalInv

LEMMA ArrivalInvStep == ArrivalInv /\ [RevisionNext]_revision => ArrivalInv'
<1> SUFFICES ASSUME ArrivalInv, [RevisionNext]_revision PROVE ArrivalInv'
  OBVIOUS
<1>1. RevisionInv'
  BY RevisionInvStep DEF ArrivalInv
<1>2. CASE Plan
  BY <1>1, <1>2, PlannerKeepsInput, IdleKeepsOrder DEF Plan, coordinator, reader
<1>3. CASE UNCHANGED revision
  BY <1>1, <1>3, IdleKeepsOrder DEF revision, plan, vars, coordinator, reader
<1> QED
  BY <1>1, <1>2, <1>3, CoordinatorKeepsOrder, ReaderKeepsOrder DEF RevisionNext

LEMMA ArrivalInvAlways == RevisionSpec => []ArrivalInv
  BY ArrivalInvInit, ArrivalInvStep, PTL DEF RevisionSpec

(* For every root a coordinator puts together that declares what is true,  *)
(* and every order the shards come in: if the root passes                  *)
(* preflightCatalogRoot and its shards arrive, validateCatalogRevision has *)
(* nothing against the sizes, the counts, the prefixes, the epochs of the  *)
(* shards or the number of them.  Only a count or a length that is not the *)
(* shard's can be found out after the downloads.                           *)
THEOREM PreflightIsEnough == RevisionSpec => []PreflightSparesDownloads
<1>1. ArrivalInv => PreflightSparesDownloads
  BY DEF ArrivalInv, RevisionInv, PreflightSparesDownloads
<1> QED
  BY <1>1, ArrivalInvAlways, PTL

-----------------------------------------------------------------------------
(* From the planner to the reader without a mistake.                       *)

LEMMA StateFrame ==
  ASSUME input' = input
  PROVE  /\ StateCode(input)' = StateCode(input)
         /\ SnapshotEpochs(input)' = SnapshotEpochs(input)
         /\ EntryCount(input)' = EntryCount(input)
         /\ ObservationCount(input)' = ObservationCount(input)
  BY DEF StateCode, SnapshotEpochs, EntryCount, ObservationCount, Ambiguous, Dangling, Live

(* A planner that is done stays so.                                        *)
LEMMA PlannedStays ==
  ASSUME IInv, outcome = "planned", [Next]_vars
  PROVE  UNCHANGED vars
<1>1. CASE Next
  BY <1>1 DEF Next, EmitEmpty, Emit, Split, Finish, Take
<1> QED
  BY <1>1

(* Where nothing the coordinator answers for changes, it stays right.      *)
LEMMA MeetingFrame ==
  ASSUME MeetingInv, ArrivalInv', ExactInv',
         UNCHANGED <<input, root, fetched, supplied, slips>>,
         phase' # "planning" => phase # "planning",
         outcome = "planned" => UNCHANGED <<outcome, emitted>>
  PROVE  MeetingInv'
<1>1. ASSUME phase' # "planning", slips' = 0
      PROVE  /\ (outcome = "planned")'
             /\ (root.refs = {ReferTo(leaf, Active) : leaf \in emitted})'
             /\ (root.required = SnapshotEpochs(input) \cup {Active})'
             /\ (root.entries = EntryCount(input) /\ root.observations = ObservationCount(input))'
  BY <1>1, StateFrame DEF MeetingInv, ReferTo, EntryCount, ObservationCount, Bytes
<1>2. ASSUME slips' = 0
      PROVE  /\ ({supplied[i] : i \in 1..Len(supplied)} = {ShardOf(ref) : ref \in fetched})'
             /\ (Len(supplied) = Cardinality(fetched))'
  BY <1>2 DEF MeetingInv, ShardOf
<1>3. (StateCode(input) = "accepted")'
  BY StateFrame DEF MeetingInv
<1> QED
  BY <1>1, <1>2, <1>3 DEF MeetingInv

LEMMA MeetingInvInit == RevisionInit => MeetingInv
<1> SUFFICES ASSUME RevisionInit PROVE MeetingInv
  OBVIOUS
<1>1. ArrivalInv /\ ExactInv
  BY ArrivalInvInit, ExactInvInit DEF RevisionInit
<1>2. StateCode(input) = "accepted"
  <2>1. PICK hash \in [{Identity(r) : r \in Records} -> Hash], R \in SUBSET Records, P \in SUBSET Records :
          StateCode(R) = "accepted" /\ input = R
    BY DEF RevisionInit
  <2> QED
    BY <2>1
<1>3. phase = "planning" /\ fetched = {} /\ supplied = <<>>
  BY DEF RevisionInit
<1>4. {supplied[i] : i \in 1..Len(supplied)} = {ShardOf(ref) : ref \in fetched}
      /\ Len(supplied) = Cardinality(fetched)
  BY <1>3, FS_EmptySet
<1> QED
  BY <1>1, <1>2, <1>3, <1>4 DEF MeetingInv

LEMMA AssembleMeets ==
  ASSUME MeetingInv, ArrivalInv', ExactInv', Assemble
  PROVE  MeetingInv'
<1> DEFINE r == [refs |-> {ReferTo(leaf, Active) : leaf \in emitted},
                 required |-> SnapshotEpochs(input) \cup {Active},
                 entries |-> EntryCount(input), observations |-> ObservationCount(input)]
<1>1. outcome = "planned" /\ root' = r /\ UNCHANGED <<plan, fetched, supplied, slips>>
  BY DEF Assemble
<1>2. UNCHANGED <<input, outcome, emitted, fetched, supplied, slips>>
  BY <1>1 DEF plan, vars
<1>3. /\ root'.refs = {ReferTo(leaf, Active) : leaf \in emitted}
      /\ root'.required = SnapshotEpochs(input) \cup {Active}
      /\ root'.entries = EntryCount(input) /\ root'.observations = ObservationCount(input)
  BY <1>1
<1>4. /\ (outcome = "planned")'
      /\ (root.refs = {ReferTo(leaf, Active) : leaf \in emitted})'
      /\ (root.required = SnapshotEpochs(input) \cup {Active})'
      /\ (root.entries = EntryCount(input) /\ root.observations = ObservationCount(input))'
  BY <1>1, <1>2, <1>3, StateFrame DEF ReferTo, EntryCount, ObservationCount, Bytes
<1>5. ASSUME slips' = 0
      PROVE  /\ ({supplied[i] : i \in 1..Len(supplied)} = {ShardOf(ref) : ref \in fetched})'
             /\ (Len(supplied) = Cardinality(fetched))'
  BY <1>2, <1>5 DEF MeetingInv, ShardOf
<1>6. (StateCode(input) = "accepted")'
  BY <1>2, StateFrame DEF MeetingInv
<1> QED
  BY <1>4, <1>5, <1>6 DEF MeetingInv

LEMMA FetchMeets ==
  ASSUME MeetingInv, ArrivalInv', ExactInv', NEW ref \in Nonempty, Fetch(ref)
  PROVE  MeetingInv'
<1>1. phase = "fetching" /\ ref \notin fetched /\ fetched' = fetched \cup {ref}
      /\ supplied' = Append(supplied, ShardOf(ref)) /\ UNCHANGED <<plan, root, slips, phase>>
  BY DEF Fetch, reader
<1>2. UNCHANGED <<input, outcome, emitted, root, slips, phase>>
  BY <1>1 DEF plan, vars
<1>3. (StateCode(input) = "accepted")'
  BY <1>2, StateFrame DEF MeetingInv
<1>4. ASSUME slips' = 0
      PROVE  /\ (outcome = "planned")'
             /\ (root.refs = {ReferTo(leaf, Active) : leaf \in emitted})'
             /\ (root.required = SnapshotEpochs(input) \cup {Active})'
             /\ (root.entries = EntryCount(input) /\ root.observations = ObservationCount(input))'
  BY <1>1, <1>2, <1>4, StateFrame DEF MeetingInv, ReferTo, EntryCount, ObservationCount, Bytes
<1>5. ASSUME slips' = 0
      PROVE  /\ ({supplied[i] : i \in 1..Len(supplied)} = {ShardOf(q) : q \in fetched})'
             /\ (Len(supplied) = Cardinality(fetched))'
  <2> DEFINE shard == ShardOf(ref)
             n     == Len(supplied)
  <2>1. /\ {supplied[i] : i \in 1..n} = {ShardOf(q) : q \in fetched}
        /\ n = Cardinality(fetched)
    BY <1>2, <1>5 DEF MeetingInv
  <2>2. supplied \in Seq(Leaf) /\ n \in Nat /\ IsFiniteSet(fetched)
    BY FS_Subset DEF MeetingInv, ArrivalInv, RevisionInv, RevisionTypeOK
  <2>3. Cardinality(fetched') = n + 1
    BY <1>1, <2>1, <2>2, FS_AddElement
  <2> HIDE DEF shard
  <2>4. Len(supplied') = n + 1 /\ supplied'[n + 1] = shard
        /\ \A i \in 1..n : supplied'[i] = supplied[i]
    BY <1>1, <2>2 DEF shard
  <2>5. 1..(n + 1) = (1..n) \cup {n + 1}
    BY <2>2
  <2> HIDE DEF n
  <2>6. {supplied'[i] : i \in 1..(n + 1)} = {supplied[i] : i \in 1..n} \cup {shard}
    BY <2>4, <2>5
  <2>7. {ShardOf(q) : q \in fetched'} = {ShardOf(q) : q \in fetched} \cup {shard}
    BY <1>1 DEF shard
  <2>8. \A q : ShardOf(q)' = ShardOf(q')
    BY DEF ShardOf
  <2> QED
    BY <2>1, <2>3, <2>4, <2>6, <2>7 DEF ShardOf
<1> QED
  BY <1>1, <1>2, <1>3, <1>4, <1>5 DEF MeetingInv

(* A mistake is one too many.                                              *)
LEMMA SlipMeets ==
  ASSUME MeetingInv, ArrivalInv', ExactInv', Slip, input' = input
  PROVE  MeetingInv'
<1>1. slips \in Nat /\ slips' = slips + 1
  BY RevisionAssumption DEF MeetingInv, ArrivalInv, RevisionInv, RevisionTypeOK, Slip
<1>2. slips' # 0
  BY <1>1
<1>3. (StateCode(input) = "accepted")'
  BY StateFrame DEF MeetingInv
<1> QED
  BY <1>2, <1>3 DEF MeetingInv

LEMMA MeetingInvStep == MeetingInv /\ [RevisionNext]_revision => MeetingInv'
<1> SUFFICES ASSUME MeetingInv, [RevisionNext]_revision PROVE MeetingInv'
  OBVIOUS
<1>1. ArrivalInv'
  BY ArrivalInvStep DEF MeetingInv
<1>2. [Next]_vars
  BY DEF RevisionNext, revision, plan, Plan, Coordinate, Validate, Assemble, CarryOver, Misepoch,
         Misdeclare, Fetch, Misfetch, Preflight, Deliver, Copy, Copied, Read, Conclude
<1>3. ExactInv' /\ input' = input
  BY <1>2, ExactInvStep, PlannerKeepsInput DEF MeetingInv
<1>4. outcome = "planned" => UNCHANGED <<outcome, emitted>>
  <2>1. IInv
    BY DEF MeetingInv, ExactInv
  <2> QED
    BY <1>2, <2>1, PlannedStays DEF vars
<1>5. CASE Plan \/ UNCHANGED revision
  <2>1. UNCHANGED <<root, fetched, supplied, slips, phase>>
    BY <1>5 DEF Plan, revision, coordinator, reader
  <2> QED
    BY <1>1, <1>3, <1>4, <2>1, MeetingFrame
<1>6. CASE Validate
  <2>1. UNCHANGED <<root, fetched, supplied, slips>> /\ phase # "planning"
    BY <1>6 DEF Validate, Preflight, Deliver, Copy, Copied, Read, Conclude, coordinator
  <2> QED
    BY <1>1, <1>3, <1>4, <2>1, MeetingFrame
<1>7. CASE Coordinate
  <2>1. ASSUME NEW ref \in root.refs, NEW leaf \in Coarsest(past), NEW epoch \in {Active, Past},
               CarryOver(ref, leaf, epoch)
        PROVE  MeetingInv'
    BY <1>1, <1>3, <2>1, SlipMeets DEF CarryOver
  <2>2. ASSUME NEW epoch \in Epochs, Misepoch(epoch)
        PROVE  MeetingInv'
    BY <1>1, <1>3, <2>2, SlipMeets DEF Misepoch
  <2>3. ASSUME NEW ref \in Nonempty, Misfetch(ref)
        PROVE  MeetingInv'
    BY <1>1, <1>3, <2>3, SlipMeets DEF Misfetch
  <2>4. ASSUME NEW ref \in Nonempty, NEW told \in Misdeclarations(ref), Misdeclare(ref, told)
        PROVE  MeetingInv'
    BY <1>1, <1>3, <2>4, SlipMeets DEF Misdeclare
  <2> QED
    BY <1>1, <1>3, <1>7, <2>1, <2>2, <2>3, <2>4, AssembleMeets, FetchMeets DEF Coordinate
<1> QED
  BY <1>5, <1>6, <1>7 DEF RevisionNext

LEMMA MeetingInvAlways == RevisionSpec => []MeetingInv
  BY MeetingInvInit, MeetingInvStep, PTL DEF RevisionSpec

(* The root made of a plan refers to its leaves, and to nothing else.      *)
LEMMA RootOfPlan ==
  ASSUME MeetingInv, phase # "planning", slips = 0
  PROVE  /\ IsFiniteSet(emitted) /\ emitted \subseteq Leaf /\ Leaves = emitted
         /\ \A p, q \in emitted : p.prefix = q.prefix => p = q
         /\ \A ref \in root.refs : \E leaf \in emitted :
              ref = ReferTo(leaf, Active) /\ ref.prefix = leaf.prefix /\ ref.recs = leaf.recs
              /\ ref.epoch = Active /\ Bytes(ref) = Bytes(leaf) /\ Truthful(ref)
         /\ {ref.prefix : ref \in root.refs} = {leaf.prefix : leaf \in emitted}
         /\ Cardinality(root.refs) = Cardinality(emitted)
<1>1. outcome = "planned" /\ root.refs = {ReferTo(leaf, Active) : leaf \in emitted} /\ RevisionInv /\ IInv
  BY DEF MeetingInv, ArrivalInv, ExactInv
<1>2. IsFiniteSet(emitted) /\ emitted \subseteq Leaf /\ Leaves = emitted
  BY <1>1, FinitePlan
<1>3. \A p, q \in emitted : p.prefix = q.prefix => p = q
  <2>1. \A leaf \in emitted : leaf = LeafAt(route, leaf.prefix)
    BY <1>1, <1>2, LeafIs
  <2> QED
    BY <2>1
<1>4. \A leaf \in emitted : ReferTo(leaf, Active).prefix = leaf.prefix
        /\ ReferTo(leaf, Active).recs = leaf.recs /\ ReferTo(leaf, Active).epoch = Active
        /\ Bytes(ReferTo(leaf, Active)) = Bytes(leaf) /\ Truthful(ReferTo(leaf, Active))
  BY DEF ReferTo, Bytes, Truthful
<1>5. Cardinality(root.refs) = Cardinality(emitted)
  <2> DEFINE f == [leaf \in emitted |-> ReferTo(leaf, Active)]
  <2>1. \A p, q \in emitted : f[p] = f[q] => p = q
    BY <1>3, <1>4
  <2>2. f \in Bijection(emitted, root.refs)
    BY <1>1, <2>1 DEF Bijection, Injection, Surjection, IsInjective
  <2> QED
    BY <1>2, <2>2, FS_Bijection DEF ExistsBijection
<1> QED
  BY <1>1, <1>2, <1>3, <1>4, <1>5

(* It declares what the plan adds up to.                                   *)
LEMMA DeclaresThePlan ==
  ASSUME MeetingInv, phase # "planning", slips = 0
  PROVE  Declared = cumulative
<1> DEFINE S == {leaf \in emitted : leaf.recs # {}}
           f == [leaf \in emitted |-> ReferTo(leaf, Active)]
           v == [leaf \in emitted |-> Bytes(leaf)]
           w == [ref \in root.refs |-> Bytes(ref)]
<1>1. IsFiniteSet(emitted) /\ emitted \subseteq Leaf
      /\ \A p, q \in emitted : p.prefix = q.prefix => p = q
  BY RootOfPlan
<1>2. outcome = "planned" /\ root.refs = {ReferTo(leaf, Active) : leaf \in emitted}
      /\ root \in Root /\ IsFiniteSet(root.refs)
      /\ cumulative = TotalBytes(emitted)
  BY DEF MeetingInv, ArrivalInv, RevisionInv, RevisionTypeOK, ExactInv
<1>3. \A leaf \in emitted : Bytes(leaf) \in Nat
  BY <1>1, BytesIsNat
<1>4. \A ref \in root.refs : Bytes(ref) \in Nat
  BY <1>2, ShardIs DEF Root
<1>5. TotalBytes(emitted) = Weight(v, S)
  BY <1>1, <1>3, TotalIs
<1>6. Declared = Weight(w, Nonempty)
  <2>1. TruthfulRoot
    BY RootOfPlan DEF TruthfulRoot, Nonempty
  <2> QED
    BY <1>2, <1>4, <2>1, TotalIs, DeclaredTruly DEF Nonempty
<1>7. Nonempty = {f[leaf] : leaf \in S}
  BY <1>2 DEF Nonempty, ReferTo
<1>8. \A p, q \in S : f[p] = f[q] => p = q
  BY <1>1 DEF ReferTo
<1>9. \A leaf \in S : v[leaf] \in Nat /\ v[leaf] = w[f[leaf]]
  BY <1>2, <1>3 DEF ReferTo, Bytes
<1>10. IsFiniteSet(S)
  BY <1>1, FS_Subset
<1> HIDE DEF S, f, v, w
<1>11. Weight(w, {f[leaf] : leaf \in S}) = Weight(v, S)
  BY <1>8, <1>9, <1>10, WeightImage
<1> QED
  BY <1>2, <1>5, <1>6, <1>7, <1>11

(* Every record of the catalog is in one of its shards.                    *)
LEMMA HoldsTheCatalog ==
  ASSUME MeetingInv, phase # "planning", slips = 0
  PROVE  UNION {ref.recs : ref \in Nonempty} = input
<1>1. Leaves = emitted /\ outcome = "planned" /\ IInv
      /\ root.refs = {ReferTo(leaf, Active) : leaf \in emitted}
  BY RootOfPlan DEF MeetingInv, ExactInv
<1>2. \A leaf \in emitted : leaf.recs = {r \in input : Covers(leaf.prefix, route[r])}
  BY <1>1 DEF IInv, ExactCover
<1>3. ASSUME NEW r \in input PROVE \E ref \in Nonempty : r \in ref.recs
  <2>1. route[r] \in Hash
    BY <1>1 DEF IInv, TypeOK
  <2>2. PICK leaf \in emitted : Covers(leaf.prefix, route[r])
    BY <1>1, <2>1 DEF IInv, ExactCover
  <2>3. r \in leaf.recs
    BY <1>2, <2>2
  <2>4. ReferTo(leaf, Active) \in root.refs /\ ReferTo(leaf, Active).recs = leaf.recs
    BY <1>1 DEF ReferTo
  <2>5. ReferTo(leaf, Active) \in Nonempty
    BY <2>3, <2>4 DEF Nonempty
  <2> QED
    BY <2>3, <2>4, <2>5
<1>4. ASSUME NEW ref \in Nonempty, NEW r \in ref.recs PROVE r \in input
  <2>1. PICK leaf \in emitted : ref = ReferTo(leaf, Active)
    BY <1>1 DEF Nonempty
  <2> QED
    BY <1>2, <2>1 DEF ReferTo
<1> QED
  BY <1>3, <1>4

(* So preflightCatalogRoot lets it pass.                                   *)
LEMMA PlanPassesPreflight ==
  ASSUME MeetingInv, phase # "planning", slips = 0,
         Cardinality(SnapshotEpochs(input) \cup {Active}) <= MaxRequiredEpochs
  PROVE  PreflightCode = "accepted"
<1>1. /\ IsFiniteSet(emitted) /\ emitted \subseteq Leaf /\ Leaves = emitted
      /\ \A p, q \in emitted : p.prefix = q.prefix => p = q
      /\ {ref.prefix : ref \in root.refs} = {leaf.prefix : leaf \in emitted}
      /\ Cardinality(root.refs) = Cardinality(emitted)
  BY RootOfPlan
<1>2. \A ref \in root.refs : \E leaf \in emitted :
        ref = ReferTo(leaf, Active) /\ ref.prefix = leaf.prefix /\ ref.recs = leaf.recs
        /\ ref.epoch = Active /\ Bytes(ref) = Bytes(leaf) /\ Truthful(ref)
  BY RootOfPlan
<1>3. /\ outcome = "planned" /\ IInv /\ RevisionTypeOK /\ IsFiniteSet(root.refs) /\ Placed
      /\ root.required = SnapshotEpochs(input) \cup {Active}
      /\ root.entries = EntryCount(input) /\ root.observations = ObservationCount(input)
  BY DEF MeetingInv, ArrivalInv, RevisionInv, ExactInv
<1>4. /\ Cardinality(emitted) <= MaxReferences
      /\ \A leaf \in emitted : leaf.recs # {} =>
           /\ Cardinality(leaf.recs) <= MaxRecordsPerLeaf
           /\ Bytes(leaf) <= IF Cardinality(leaf.recs) = 1 THEN ShardPlaintextBytes
                                                           ELSE ShardTargetBytes
  BY <1>3, EmittedMakesFit DEF PlanFits
<1>5. Cardinality(root.refs) \in 1..MaxReferences
  <2>1. Cardinality(emitted) = coverCount
    BY <1>1, <1>3 DEF IInv, CountExact
  <2> QED
    BY <1>1, <1>3, <2>1 DEF IInv, TypeOK
<1>6. \A p, q \in root.refs : p.prefix = q.prefix => p = q
  <2> SUFFICES ASSUME NEW p \in root.refs, NEW q \in root.refs, p.prefix = q.prefix PROVE p = q
    OBVIOUS
  <2>1. PICK a \in emitted : p = ReferTo(a, Active) /\ p.prefix = a.prefix
    BY <1>2
  <2>2. PICK b \in emitted : q = ReferTo(b, Active) /\ q.prefix = b.prefix
    BY <1>2
  <2> QED
    BY <1>1, <2>1, <2>2
<1>14. \A ref \in Nonempty : DeclaredCount(ref) = Cardinality(ref.recs) /\ ref.bytes = Bytes(ref)
  <2> TAKE ref \in Nonempty
  <2>1. Truthful(ref) /\ ref.recs \in SUBSET Records
    BY <1>2, <1>3 DEF Nonempty, RevisionTypeOK, Root, Reference
  <2> QED
    BY <2>1, CountsAreSize DEF Truthful, DeclaredCount
<1>15. TruthfulRoot
  BY <1>2 DEF TruthfulRoot, Nonempty
<1>7. WellFormed
  <2>1. ASSUME NEW ref \in Nonempty
        PROVE  DeclaredCount(ref) \in 1..MaxRecordsPerLeaf /\ ref.bytes \in 1..ShardPlaintextBytes
    <3>1. PICK leaf \in emitted : ref.recs = leaf.recs /\ Bytes(ref) = Bytes(leaf)
      BY <1>2 DEF Nonempty
    <3>2. DeclaredCount(ref) = Cardinality(leaf.recs) /\ ref.bytes = Bytes(leaf)
      BY <1>14, <3>1
    <3>3. leaf.recs # {} /\ leaf.recs \in SUBSET Records /\ leaf.prefix \in Prefix
      BY <1>1, <3>1 DEF Nonempty, Leaf
    <3>4. IsFiniteSet(leaf.recs)
      BY <3>3, FS_Subset, PlannerAssumption
    <3>5. Cardinality(leaf.recs) \in Nat /\ Cardinality(leaf.recs) # 0
      BY <3>3, <3>4, FS_EmptySet, FS_CardinalityType
    <3>6. Bytes(leaf) \in Nat \ {0}
      BY <3>3, PlannerAssumption DEF Bytes
    <3>7. Cardinality(leaf.recs) <= MaxRecordsPerLeaf /\ Bytes(leaf) <= ShardPlaintextBytes
      BY <1>4, <3>3, <3>6, PlannerAssumption
    <3> QED
      BY <3>2, <3>5, <3>6, <3>7, PlannerAssumption
  <2>2. root.entries <= MaxEntries /\ root.observations <= MaxObservations
    <3>1. ~(EntryCount(input) > MaxEntries \/ ObservationCount(input) > MaxObservations)
      BY StatePasses DEF MeetingInv
    <3>2. EntryCount(input) \in Nat /\ ObservationCount(input) \in Nat
      BY <1>3, CountsAreNat DEF IInv, TypeOK
    <3> QED
      BY <1>3, <3>1, <3>2, RevisionAssumption
  <2> QED
    BY <1>3, <1>5, <1>6, <2>1, <2>2 DEF WellFormed
<1>8. Partition({ref.prefix : ref \in root.refs})
  BY <1>1, <1>3, PlannedIsPartition
<1>9. PrefixFreeCover({ref.prefix : ref \in root.refs})
  <2>1. {ref.prefix : ref \in root.refs} \in SUBSET Prefix
    BY <1>3 DEF RevisionTypeOK, Root, Reference
  <2> QED
    BY <1>8, <2>1, PartitionIsCover
<1>10. Flawed = {}
  <2> SUFFICES ASSUME NEW ref \in Nonempty
               PROVE  /\ ~OverBudget(DeclaredCount(ref), ref.bytes)
                      /\ ref.epoch \in root.required
    BY DEF Flawed
  <2>1. PICK leaf \in emitted : ref.recs = leaf.recs /\ ref.epoch = Active /\ Bytes(ref) = Bytes(leaf)
    BY <1>2 DEF Nonempty
  <2>2. leaf.recs # {} /\ Bytes(leaf) \in Nat
    BY <1>1, <2>1, BytesIsNat DEF Nonempty
  <2>3. Bytes(ref) <= IF Cardinality(ref.recs) = 1 THEN ShardPlaintextBytes ELSE ShardTargetBytes
    BY <1>4, <2>1, <2>2
  <2>4. ~OverBudget(DeclaredCount(ref), ref.bytes)
    BY <1>14, <2>1, <2>2, <2>3, PlannerAssumption DEF OverBudget
  <2> QED
    BY <1>3, <2>1, <2>4
<1>11. ~FlawIsSize
  BY <1>10 DEF FlawIsSize
<1>12. EntrySum = root.entries /\ ObservedSum = root.observations
  <2>1. \A p, q \in root.refs : p # q => p.recs \cap q.recs = {}
    BY <1>3, <1>7, <1>8, RefsApart
  <2> QED
    BY <1>3, <1>15, <2>1, CountsAddUp, HoldsTheCatalog
<1>13. ~(Declared > CumulativeBytes)
  BY <1>3, DeclaresThePlan, PlannerAssumption DEF IInv, TypeOK
<1> QED
  BY <1>7, <1>9, <1>10, <1>11, <1>12, <1>13, PreflightPasses

(* For every catalog, routing and value of the limits, in whatever order   *)
(* the shards come: what planCatalogShards plans, sealed, fetched and put  *)
(* together without a mistake, passes preflightCatalogRoot and             *)
(* validateCatalogRevision, if the root has room for the writer's epoch.   *)
THEOREM WhatIsPlannedIsAccepted == RevisionSpec => []WriterMeetsReader
<1>1. MeetingInv => WriterMeetsReader
  <2> SUFFICES ASSUME MeetingInv, phase = "done", slips = 0,
                      Cardinality(SnapshotEpochs(input) \cup {Active}) <= MaxRequiredEpochs
               PROVE  verdict = "accepted"
    BY DEF WriterMeetsReader
  <2>1. PreflightCode = "accepted"
    BY PlanPassesPreflight
  <2>2. fetched = Nonempty /\ (AllArrived /\ TruthfulRoot => verdict = "accepted" \/ ContentRefused)
    BY <2>1 DEF MeetingInv, ArrivalInv
  <2>3. AllArrived
    BY <2>2 DEF MeetingInv, AllArrived
  <2>6. TruthfulRoot
    BY RootOfPlan DEF TruthfulRoot, Nonempty
  <2>4. UNION {ref.recs : ref \in Nonempty} = input /\ StateCode(input) = "accepted"
        /\ root.required = SnapshotEpochs(input) \cup {Active}
    BY HoldsTheCatalog DEF MeetingInv
  <2>5. ~ContentRefused
    <3> DEFINE K == SnapshotEpochs(input) \cup {ref.epoch : ref \in Nonempty}
               D == root.required \ K
    <3>1. D \subseteq {Active}
      BY <2>4
    <3>2. IsFiniteSet({Active}) /\ Cardinality({Active}) = 1
      BY FS_Singleton
    <3> HIDE DEF D
    <3>3. Cardinality(D) \in Nat /\ Cardinality(D) <= 1
      <4>1. IsFiniteSet(D) /\ Cardinality(D) <= 1
        BY <3>1, <3>2, FS_Subset
      <4> QED
        BY <4>1, FS_CardinalityType
    <3>4. ~(Cardinality(D) > 1)
      BY <3>3
    <3> QED
      BY <2>4, <3>4 DEF ContentRefused, D
  <2> QED
    BY <2>2, <2>3, <2>5, <2>6
<1> QED
  BY <1>1, MeetingInvAlways, PTL
=============================================================================
