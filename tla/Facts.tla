------------------------------- MODULE Facts -------------------------------
(***************************************************************************)
(* Facts about finite sets, numbers, sums and chains of checks that the    *)
(* proofs of several modules need.                                         *)
(***************************************************************************)
EXTENDS Checks, Integers, FiniteSets, Functions, FiniteSetTheorems, WellFoundedInduction, TLAPS

(* The library's theorem that finite sets are well ordered by inclusion is *)
(* first-order, and gives least elements without an induction scheme: of   *)
(* a finite set under a strict order, and of a set of numbers.             *)
LEMMA Minimal ==
  ASSUME NEW S, IsFiniteSet(S), S # {}, NEW Less,
         \A x \in S : <<x, x>> \notin Less,
         \A x, y, z \in S : <<x, y>> \in Less /\ <<y, z>> \in Less => <<x, z>> \in Less
  PROVE  \E m \in S : \A x \in S : <<x, m>> \notin Less
<1> DEFINE below == [m \in S |-> {x \in S : <<x, m>> \in Less}]
           T == {below[m] : m \in S}
<1>1. \A m \in S : below[m] \in FiniteSubsetsOf(S)
  <2> TAKE m \in S
  <2>1. below[m] \subseteq S
    OBVIOUS
  <2> HIDE DEF below
  <2>2. IsFiniteSet(below[m])
    BY <2>1, FS_Subset
  <2> QED
    BY <2>1, <2>2 DEF FiniteSubsetsOf
<1>2. \E t \in T : \A u \in T : <<u, t>> \notin StrictSubsetOrdering(S)
  <2>1. T \subseteq FiniteSubsetsOf(S) /\ T # {}
    <3> HIDE DEF below
    <3> QED
      BY <1>1
  <2> HIDE DEF T
  <2> QED
    BY <2>1, WFMin, FS_StrictSubsetOrderingWellFounded
<1>3. \E m \in S : \A x \in S : <<below[x], below[m]>> \notin StrictSubsetOrdering(S)
  <2> HIDE DEF below
  <2> QED
    BY <1>2
<1>4. PICK m \in S : \A x \in S : <<below[x], below[m]>> \notin StrictSubsetOrdering(S)
  BY <1>3
<1>5. ASSUME NEW x \in S, <<x, m>> \in Less PROVE FALSE
  <2>1. below[x] \subseteq below[m] /\ x \in below[m] /\ x \notin below[x]
    BY <1>5
  <2>2. below[x] \in SUBSET S /\ below[m] \in SUBSET S
    OBVIOUS
  <2> HIDE DEF below
  <2>3. <<below[x], below[m]>> \in StrictSubsetOrdering(S)
    BY <2>1, <2>2 DEF StrictSubsetOrdering
  <2> QED
    BY <1>4, <2>3
<1> QED
  BY <1>5

LEMMA Least ==
  ASSUME NEW S, S \subseteq Nat, S # {}
  PROVE  \E n \in S : \A m \in S : n <= m
<1> DEFINE T == {0..n : n \in S}
<1>1. T \subseteq FiniteSubsetsOf(Nat) /\ T # {}
  <2>1. \A n \in Nat : 0..n \in FiniteSubsetsOf(Nat)
    BY FS_Interval DEF FiniteSubsetsOf
  <2> QED
    BY <2>1
<1>2. \E t \in T : \A u \in T : <<u, t>> \notin StrictSubsetOrdering(Nat)
  <2> HIDE DEF T
  <2> QED
    BY <1>1, WFMin, FS_StrictSubsetOrderingWellFounded
<1>3. PICK n \in S : \A m \in S : <<0..m, 0..n>> \notin StrictSubsetOrdering(Nat)
  BY <1>2
<1>4. ASSUME NEW m \in S PROVE n <= m
  <2> SUFFICES ASSUME m < n PROVE FALSE
    OBVIOUS
  <2>1. 0..m \in SUBSET Nat /\ 0..n \in SUBSET Nat /\ 0..m \subseteq 0..n /\ n \in 0..n /\ n \notin 0..m
    OBVIOUS
  <2>2. <<0..m, 0..n>> \in StrictSubsetOrdering(Nat)
    BY <2>1 DEF StrictSubsetOrdering
  <2> QED
    BY <1>3, <2>2
<1> QED
  BY <1>4

LEMMA Induct ==
  ASSUME NEW S, 0 \in S, \A n \in Nat : n \in S => n + 1 \in S
  PROVE  \A n \in Nat : n \in S
<1> SUFFICES ASSUME NEW k \in Nat, k \notin S PROVE FALSE
  OBVIOUS
<1> DEFINE R == Nat \ S
<1>1. R # {} /\ R \subseteq Nat
  OBVIOUS
<1>2. \E n \in R : \A m \in R : n <= m
  <2> HIDE DEF R
  <2> QED
    BY <1>1, Least
<1>3. PICK n \in R : \A m \in R : n <= m
  BY <1>2
<1>4. n # 0 /\ n - 1 \in Nat /\ n = (n - 1) + 1
  OBVIOUS
<1>5. n - 1 \in S
  BY <1>3, <1>4
<1> QED
  BY <1>4, <1>5

LEMMA Upto ==
  \A n \in Nat : IsFiniteSet(1..n) /\ Cardinality(1..n) = n
BY FS_Interval

(* The image of a finite set.                                              *)
LEMMA ImageIsFinite ==
  ASSUME NEW S, IsFiniteSet(S), NEW f
  PROVE  IsFiniteSet({f[x] : x \in S}) /\ Cardinality({f[x] : x \in S}) <= Cardinality(S)
<1> DEFINE g == [x \in S |-> f[x]]
           T == {f[x] : x \in S}
<1>1. g \in [S -> T] /\ \A t \in T : \E x \in S : g[x] = t
  OBVIOUS
<1> HIDE DEF g, T
<1>2. g \in Surjection(S, T)
  BY <1>1 DEF Surjection
<1> QED
  BY <1>2, FS_Surjection DEF T

-----------------------------------------------------------------------------
(* How much the elements of a set weigh: the size of a set of that many pairs.*)
Weight(w, s) == Cardinality(UNION {{x} \X (1..w[x]) : x \in s})

LEMMA WeightAdds ==
  ASSUME NEW s, IsFiniteSet(s), NEW x, x \notin s, NEW w, \A y \in s \cup {x} : w[y] \in Nat
  PROVE  /\ Weight(w, s) \in Nat /\ Weight(w, s \cup {x}) = Weight(w, s) + w[x]
<1> DEFINE part == [y \in s \cup {x} |-> {y} \X (1..w[y])]
           A == UNION {part[y] : y \in s}
<1>1. \A y \in s \cup {x} : IsFiniteSet(part[y]) /\ Cardinality(part[y]) = w[y]
  <2> TAKE y \in s \cup {x}
  <2>1. IsFiniteSet({y}) /\ Cardinality({y}) = 1
    BY FS_Singleton
  <2>2. IsFiniteSet(1..w[y]) /\ Cardinality(1..w[y]) = w[y]
    <3>1. w[y] \in Nat
      OBVIOUS
    <3>2. \A k \in Nat : IsFiniteSet(1..k) /\ Cardinality(1..k) = k
      BY FS_Interval
    <3> QED
      BY <3>1, <3>2
  <2>3. IsFiniteSet({y} \X (1..w[y])) /\ Cardinality({y} \X (1..w[y])) = 1 * w[y]
    BY <2>1, <2>2, FS_Product
  <2> QED
    BY <2>3
<1>2. IsFiniteSet(A)
  <2> HIDE DEF part
  <2>1. IsFiniteSet({part[y] : y \in s})
    BY ImageIsFinite
  <2> QED
    BY <1>1, <2>1, FS_UNION
<1>3. A \cap part[x] = {}
  OBVIOUS
<1>4. /\ UNION {{y} \X (1..w[y]) : y \in s} = A
      /\ UNION {{y} \X (1..w[y]) : y \in s \cup {x}} = A \cup part[x]
  OBVIOUS
<1> HIDE DEF part, A
<1>5. Cardinality(A \cup part[x]) = Cardinality(A) + Cardinality(part[x]) - Cardinality(A \cap part[x])
  BY <1>1, <1>2, FS_Union
<1>6. Cardinality({}) = 0 /\ Cardinality(A) \in Nat
  BY <1>2, FS_EmptySet, FS_CardinalityType
<1>7. Cardinality(part[x]) = w[x] /\ w[x] \in Nat
  BY <1>1
<1>8. Cardinality(A \cup part[x]) = Cardinality(A) + w[x]
  <2>1. Cardinality(A \cup part[x]) = Cardinality(A) + Cardinality(part[x]) - 0
    BY <1>3, <1>5, <1>6
  <2> QED
    BY <1>6, <1>7, <2>1
<1> QED
  BY <1>4, <1>6, <1>8 DEF Weight

LEMMA WeightOfNone == ASSUME NEW w PROVE Weight(w, {}) = 0
  BY FS_EmptySet DEF Weight

(* A fold that adds up weights, taking the elements in any order, ends     *)
(* with that size.                                                         *)
LEMMA WeightUnfolds ==
  ASSUME NEW S, IsFiniteSet(S), NEW w, \A x \in S : w[x] \in Nat,
         NEW s \in SUBSET S, NEW x \in s
  PROVE  Weight(w, s) = w[x] + Weight(w, s \ {x})
<1> DEFINE t == s \ {x}
<1>1. IsFiniteSet(t) /\ s = t \cup {x} /\ x \notin t /\ t \subseteq S /\ x \in S
  BY FS_Subset
<1> HIDE DEF t
<1>2. Weight(w, t) \in Nat /\ Weight(w, t \cup {x}) = Weight(w, t) + w[x]
  BY <1>1, WeightAdds
<1>3. w[x] \in Nat
  BY <1>1
<1>4. Weight(w, s) = w[x] + Weight(w, t)
  <2>1. Weight(w, s) = Weight(w, t \cup {x})
    BY <1>1
  <2> QED
    BY <1>2, <1>3, <2>1
<1> QED
  BY <1>4 DEF t

IsWeight(w, S) == \A x \in S : w[x] \in Nat
IsChoice(pick, S) == \A s \in SUBSET S : s # {} => pick[s] \in s
AddsUp(it, w, pick, S) ==
  \A s \in SUBSET S : it[s] = IF s = {} THEN 0 ELSE w[pick[s]] + it[s \ {pick[s]}]

LEMMA FoldIsWeight ==
  ASSUME NEW S, IsFiniteSet(S), NEW w, IsWeight(w, S), NEW pick, IsChoice(pick, S),
         NEW it, AddsUp(it, w, pick, S)
  PROVE  it[S] = Weight(w, S)
<1> USE DEF IsWeight, IsChoice, AddsUp
<1> DEFINE N == {n \in Nat : \A s \in SUBSET S : Cardinality(s) = n => it[s] = Weight(w, s)}
<1>1. 0 \in N
  <2>1. \A s \in SUBSET S : Cardinality(s) = 0 => s = {}
    BY FS_Subset, FS_EmptySet
  <2> QED
    BY <2>1, WeightOfNone
<1>2. ASSUME NEW n \in Nat, n \in N PROVE n + 1 \in N
  <2> SUFFICES ASSUME NEW s \in SUBSET S, Cardinality(s) = n + 1 PROVE it[s] = Weight(w, s)
    OBVIOUS
  <2> DEFINE x == pick[s]
             t == s \ {x}
  <2>1. IsFiniteSet(s) /\ s # {}
    BY FS_Subset, FS_EmptySet
  <2>2. x \in s /\ it[s] = w[x] + it[t]
    BY <2>1
  <2> HIDE DEF x
  <2>3. Weight(w, s) = w[x] + Weight(w, t)
    BY <2>2, WeightUnfolds
  <2>4. Cardinality(t) = n /\ t \in SUBSET S
    <3>1. Cardinality(t) = Cardinality(s) - 1
      BY <2>1, <2>2, FS_RemoveElement
    <3> HIDE DEF t
    <3> QED
      BY <3>1 DEF t
  <2>5. it[t] = Weight(w, t)
    BY <1>2, <2>4
  <2> QED
    BY <2>2, <2>3, <2>5
<1> HIDE DEF N
<1>3. \A n \in Nat : n \in N
  BY <1>1, <1>2, Induct
<1>4. Cardinality(S) \in Nat
  BY FS_CardinalityType
<1> QED
  BY <1>3, <1>4 DEF N

LEMMA FoldExists ==
  ASSUME NEW S, IsFiniteSet(S), NEW w, IsWeight(w, S), NEW pick, IsChoice(pick, S)
  PROVE  AddsUp([s \in SUBSET S |-> Weight(w, s)], w, pick, S)
<1> DEFINE it == [s \in SUBSET S |-> Weight(w, s)]
<1> SUFFICES ASSUME NEW s \in SUBSET S
             PROVE  it[s] = IF s = {} THEN 0 ELSE w[pick[s]] + it[s \ {pick[s]}]
  BY DEF AddsUp
<1> USE DEF IsWeight, IsChoice
<1>1. CASE s = {}
  BY <1>1, WeightOfNone
<1>2. CASE s # {}
  <2>1. pick[s] \in s
    BY <1>2
  <2>2. Weight(w, s) = w[pick[s]] + Weight(w, s \ {pick[s]})
    BY <2>1, WeightUnfolds
  <2> QED
    BY <1>2, <2>2
<1> QED
  BY <1>1, <1>2

(* The sum of a function is the weight of its domain.                      *)
LEMMA SumIsWeight ==
  ASSUME NEW w, IsFiniteSet(DOMAIN w), \A x \in DOMAIN w : w[x] \in Nat
  PROVE  SumFunction(w) = Weight(w, DOMAIN w)
<1> DEFINE S == DOMAIN w
           pick == [s \in SUBSET S |-> CHOOSE e \in s : TRUE]
           F(it) == [s \in SUBSET S |-> IF s = {} THEN 0
                                        ELSE w[CHOOSE e \in s : TRUE] + it[s \ {CHOOSE e \in s : TRUE}]]
           g == [s \in SUBSET S |-> Weight(w, s)]
           it == CHOOSE it : it = F(it)
<1>1. SumFunction(w) = it[S]
  BY DEF SumFunction, SumFunctionOnSet, FoldFunctionOnSet, MapThenFoldSet
<1>2. IsWeight(w, S) /\ IsChoice(pick, S)
  BY DEF IsWeight, IsChoice
<1>3. ASSUME NEW f PROVE f = F(f) <=> f = [s \in SUBSET S |-> f[s]] /\ AddsUp(f, w, pick, S)
  <2>1. ASSUME NEW s \in SUBSET S
        PROVE  F(f)[s] = IF s = {} THEN 0 ELSE w[pick[s]] + f[s \ {pick[s]}]
    OBVIOUS
  <2>2. F(f) = [s \in SUBSET S |-> F(f)[s]]
    OBVIOUS
  <2> HIDE DEF F, pick
  <2> QED
    BY <2>1, <2>2 DEF AddsUp
<1> HIDE DEF S, pick, F
<1>4. g = F(g)
  BY <1>2, <1>3, FoldExists DEF S
<1>5. it = F(it)
  BY <1>4
<1> HIDE DEF it
<1>6. it[S] = Weight(w, S)
  BY <1>2, <1>3, <1>5, FoldIsWeight DEF S
<1> QED
  BY <1>1, <1>6 DEF S

(* More elements, or heavier ones, weigh more.                             *)
LEMMA WeightType ==
  ASSUME NEW s, IsFiniteSet(s), NEW w, \A x \in s : w[x] \in Nat
  PROVE  /\ IsFiniteSet(UNION {{x} \X (1..w[x]) : x \in s})
         /\ Weight(w, s) \in Nat
<1> DEFINE part == [x \in s |-> {x} \X (1..w[x])]
<1>1. \A x \in s : IsFiniteSet(part[x])
  <2> TAKE x \in s
  <2>1. w[x] \in Nat
    OBVIOUS
  <2>2. \A k \in Nat : IsFiniteSet(1..k)
    BY FS_Interval
  <2> QED
    BY <2>1, <2>2, FS_Singleton, FS_Product
<1>2. UNION {{x} \X (1..w[x]) : x \in s} = UNION {part[x] : x \in s}
  OBVIOUS
<1> HIDE DEF part
<1>3. IsFiniteSet({part[x] : x \in s})
  BY ImageIsFinite
<1>4. IsFiniteSet(UNION {part[x] : x \in s})
  BY <1>1, <1>3, FS_UNION
<1> QED
  BY <1>2, <1>4, FS_CardinalityType DEF Weight

LEMMA WeightGrows ==
  ASSUME NEW t, IsFiniteSet(t), NEW w, \A x \in t : w[x] \in Nat,
         NEW s \in SUBSET t, NEW v, \A x \in s : v[x] \in Nat /\ v[x] <= w[x]
  PROVE  Weight(v, s) <= Weight(w, t)
<1> DEFINE V == UNION {{x} \X (1..v[x]) : x \in s}
           W == UNION {{x} \X (1..w[x]) : x \in t}
<1>1. IsFiniteSet(W)
  BY WeightType
<1>2. V \subseteq W
  <2>1. \A x \in s : 1..v[x] \subseteq 1..w[x]
    OBVIOUS
  <2> QED
    BY <2>1
<1> HIDE DEF V, W
<1>3. Cardinality(V) <= Cardinality(W)
  BY <1>1, <1>2, FS_Subset
<1> QED
  BY <1>3 DEF Weight, V, W

LEMMA SameWeight ==
  ASSUME NEW s, NEW v, NEW w, \A x \in s : v[x] = w[x]
  PROVE  Weight(v, s) = Weight(w, s)
<1>1. {{x} \X (1..v[x]) : x \in s} = {{x} \X (1..w[x]) : x \in s}
  OBVIOUS
<1> QED
  BY <1>1 DEF Weight

-----------------------------------------------------------------------------
(* A chain of checks accepts exactly if none of them fails.                *)
LEMMA NoneFails ==
  ASSUME NEW checks, NEW n \in Nat, DOMAIN checks = 1..n,
         \A i \in 1..n : checks[i].fails => checks[i].code # "accepted"
  PROVE  FirstFailing(checks) = "accepted" <=> \A i \in 1..n : ~checks[i].fails
<1>1. CASE Failing(checks) = {}
  BY <1>1 DEF Failing, FirstFailing
<1>2. CASE Failing(checks) # {}
  <2>1. Failing(checks) \subseteq 1..n
    BY DEF Failing
  <2>2. \E i \in Failing(checks) : \A j \in Failing(checks) : i <= j
    BY <1>2, <2>1, Least
  <2> DEFINE i == CHOOSE i \in Failing(checks) : \A j \in Failing(checks) : i <= j
  <2>3. i \in Failing(checks)
    BY <2>2
  <2>4. FirstFailing(checks) = checks[i].code
    BY <1>2 DEF FirstFailing
  <2> HIDE DEF i
  <2> QED
    BY <2>3, <2>4 DEF Failing
<1> QED
  BY <1>1, <1>2

LEMMA FirstFailingCode ==
  ASSUME NEW checks, NEW n \in Nat, DOMAIN checks = 1..n
  PROVE  \/ FirstFailing(checks) = "accepted" /\ \A i \in 1..n : ~checks[i].fails
         \/ \E i \in 1..n : checks[i].fails /\ FirstFailing(checks) = checks[i].code
                             /\ \A j \in 1..(i - 1) : ~checks[j].fails
<1>1. CASE Failing(checks) = {}
  BY <1>1 DEF Failing, FirstFailing
<1>2. CASE Failing(checks) # {}
  <2>1. Failing(checks) \subseteq 1..n
    BY DEF Failing
  <2>2. \E i \in Failing(checks) : \A j \in Failing(checks) : i <= j
    BY <1>2, <2>1, Least
  <2> DEFINE i == CHOOSE i \in Failing(checks) : \A j \in Failing(checks) : i <= j
  <2>3. i \in Failing(checks) /\ \A j \in Failing(checks) : i <= j
    BY <2>2
  <2>4. FirstFailing(checks) = checks[i].code
    BY <1>2 DEF FirstFailing
  <2> HIDE DEF i
  <2>5. i \in 1..n /\ checks[i].fails /\ \A j \in 1..(i - 1) : ~checks[j].fails
    BY <2>1, <2>3 DEF Failing
  <2> QED
    BY <2>4, <2>5
<1> QED
  BY <1>1, <1>2

-----------------------------------------------------------------------------
(* What holds of the empty set and of every subset with an element more    *)
(* holds of a finite set.                                                  *)
LEMMA GrowSet ==
  ASSUME NEW S, IsFiniteSet(S), NEW G, {} \in G,
         \A T \in SUBSET S : \A x \in S \ T : T \in G => T \cup {x} \in G
  PROVE  S \in G
<1> DEFINE N == {n \in Nat : \A T \in SUBSET S : Cardinality(T) = n => T \in G}
<1>0. \A T \in SUBSET S : IsFiniteSet(T) /\ Cardinality(T) \in Nat
  BY FS_Subset, FS_CardinalityType
<1>1. 0 \in N
  <2>1. \A T \in SUBSET S : Cardinality(T) = 0 => T = {}
    BY <1>0, FS_EmptySet
  <2> QED
    BY <2>1
<1>2. ASSUME NEW n \in Nat, n \in N PROVE n + 1 \in N
  <2> SUFFICES ASSUME NEW T \in SUBSET S, Cardinality(T) = n + 1 PROVE T \in G
    OBVIOUS
  <2>1. T # {}
    <3>1. Cardinality({}) = 0 /\ Cardinality(T) # 0
      BY FS_EmptySet
    <3> QED
      BY <3>1
  <2>2. PICK x \in T : TRUE
    BY <2>1
  <2>3. IsFiniteSet(T)
    BY <1>0
  <2>4. Cardinality(T \ {x}) = Cardinality(T) - 1
    BY <2>2, <2>3, FS_RemoveElement
  <2>5. Cardinality(T \ {x}) = n
    BY <2>4
  <2>6. T \ {x} \in SUBSET S /\ x \in S \ (T \ {x}) /\ (T \ {x}) \cup {x} = T
    BY <2>2
  <2>7. T \ {x} \in G
    BY <1>2, <2>5, <2>6
  <2> QED
    BY <2>6, <2>7
<1> HIDE DEF N
<1>3. \A n \in Nat : n \in N
  BY <1>1, <1>2, Induct
<1> QED
  BY <1>0, <1>3 DEF N

(* Weights do not depend on what the weighed things are called.            *)
LEMMA WeightImage ==
  ASSUME NEW S, IsFiniteSet(S), NEW f, NEW w, NEW v,
         \A x, y \in S : f[x] = f[y] => x = y,
         \A x \in S : v[x] \in Nat /\ v[x] = w[f[x]]
  PROVE  Weight(w, {f[x] : x \in S}) = Weight(v, S)
<1> DEFINE V == UNION {{x} \X (1..v[x]) : x \in S}
           W == UNION {{y} \X (1..w[y]) : y \in {f[x] : x \in S}}
           g == [z \in V |-> <<f[z[1]], z[2]>>]
<1>1. IsFiniteSet(V)
  BY WeightType
<1>2. \A z \in V : z[1] \in S /\ z[2] \in 1..v[z[1]] /\ z = <<z[1], z[2]>>
  OBVIOUS
<1>3. \A x \in S : \A k \in 1..v[x] : <<x, k>> \in V
  OBVIOUS
<1>4. \A u : u \in W <=> \E x \in S : \E k \in 1..v[x] : u = <<f[x], k>>
  OBVIOUS
<1> HIDE DEF V, W
<1>5. g \in [V -> W]
  BY <1>2, <1>4
<1>6. \A a, b \in V : g[a] = g[b] => a = b
  <2> SUFFICES ASSUME NEW a \in V, NEW b \in V, g[a] = g[b] PROVE a = b
    OBVIOUS
  <2>1. g[a] = <<f[a[1]], a[2]>> /\ g[b] = <<f[b[1]], b[2]>>
    OBVIOUS
  <2>2. f[a[1]] = f[b[1]] /\ a[2] = b[2]
    BY <2>1
  <2> QED
    BY <1>2, <2>2
<1>7. \A u \in W : \E a \in V : g[a] = u
  <2> TAKE u \in W
  <2>0. PICK x \in S : \E k \in 1..v[x] : u = <<f[x], k>>
    BY <1>4
  <2>1. PICK k \in 1..v[x] : u = <<f[x], k>>
    BY <2>0
  <2>2. <<x, k>> \in V
    BY <1>3
  <2>3. g[<<x, k>>] = u
    BY <2>1, <2>2
  <2> QED
    BY <2>2, <2>3
<1> HIDE DEF g
<1>8. g \in Bijection(V, W)
  BY <1>5, <1>6, <1>7 DEF Bijection, Injection, Surjection, IsInjective
<1>9. Cardinality(V) = Cardinality(W)
  BY <1>1, <1>8, FS_Bijection DEF ExistsBijection
<1> QED
  BY <1>9 DEF Weight, V, W

(* A set that is divided into parts is as large as these together.         *)
LEMMA PartsAddUp ==
  ASSUME NEW S, IsFiniteSet(S), NEW part, NEW v,
         \A x \in S : IsFiniteSet(part[x]) /\ v[x] = Cardinality(part[x]),
         \A x, y \in S : x # y => part[x] \cap part[y] = {}
  PROVE  /\ IsFiniteSet(UNION {part[x] : x \in S})
         /\ Cardinality(UNION {part[x] : x \in S}) = Weight(v, S)
<1> DEFINE All(T) == UNION {part[x] : x \in T}
           G == {T \in SUBSET S : IsFiniteSet(All(T)) /\ Cardinality(All(T)) = Weight(v, T)}
<1>1. {} \in G
  <2>1. All({}) = {}
    OBVIOUS
  <2>2. IsFiniteSet({}) /\ Cardinality({}) = 0 /\ Weight(v, {}) = 0
    BY FS_EmptySet, WeightOfNone
  <2> QED
    BY <2>1, <2>2
<1>2. ASSUME NEW T \in SUBSET S, NEW x \in S \ T, T \in G PROVE T \cup {x} \in G
  <2>1. All(T \cup {x}) = All(T) \cup part[x] /\ All(T) \cap part[x] = {}
    OBVIOUS
  <2>2. IsFiniteSet(All(T)) /\ Cardinality(All(T)) = Weight(v, T) /\ IsFiniteSet(part[x])
    BY <1>2
  <2>3. \A y \in T \cup {x} : v[y] \in Nat
    BY FS_CardinalityType
  <2>4. IsFiniteSet(T)
    BY FS_Subset
  <2>5. Weight(v, T) \in Nat /\ Weight(v, T \cup {x}) = Weight(v, T) + v[x]
    BY <2>3, <2>4, WeightAdds
  <2> HIDE DEF All
  <2>6. /\ IsFiniteSet(All(T) \cup part[x])
        /\ Cardinality(All(T) \cup part[x]) = Cardinality(All(T)) + Cardinality(part[x]) - Cardinality(All(T) \cap part[x])
    BY <2>2, FS_Union
  <2>7. Cardinality(All(T) \cap part[x]) = 0
    BY <2>1, FS_EmptySet
  <2>8. v[x] = Cardinality(part[x]) /\ v[x] \in Nat
    BY <2>3
  <2>9. Cardinality(All(T \cup {x})) = Weight(v, T \cup {x})
    <3>1. Cardinality(All(T) \cup part[x]) = Cardinality(All(T)) + Cardinality(part[x]) - 0
      BY <2>6, <2>7
    <3>2. Cardinality(All(T) \cup part[x]) = Weight(v, T) + v[x]
      BY <2>2, <2>5, <2>8, <3>1
    <3>3. Cardinality(All(T \cup {x})) = Cardinality(All(T) \cup part[x])
      BY <2>1
    <3> QED
      BY <2>5, <3>2, <3>3
  <2> QED
    BY <2>1, <2>6, <2>9
<1>3. S \in G
  <2> HIDE DEF G
  <2> QED
    BY <1>1, <1>2, GrowSet
<1> QED
  BY <1>3
=============================================================================
