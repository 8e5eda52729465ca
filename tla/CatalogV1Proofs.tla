--------------------------- MODULE CatalogV1Proofs ---------------------------
(***************************************************************************)
(* Proofs about the catalogs of revisions that know their parents:         *)
(* AcyclicCheck, for graphs of any size and any order of the search, and   *)
(* Reconcile, for every number of devices, every history and every order   *)
(* of deliveries.                                                          *)
(***************************************************************************)
EXTENDS AcyclicCheck, Reconcile, Facts, SequenceTheorems

(***************************************************************************)
(* Proofs about AcyclicCheck.                                              *)
(***************************************************************************)

(* What a push, a pop and a look do to a stack.                            *)
LEMMA PushFrame ==
  ASSUME NEW s \in Seq(Frame), NEW f \in Frame
  PROVE  /\ Append(s, f) \in Seq(Frame) /\ Len(Append(s, f)) = Len(s) + 1
         /\ \A i \in 1..Len(s) : Append(s, f)[i] = s[i]
         /\ Append(s, f)[Len(s) + 1] = f
  OBVIOUS

LEMMA PopFrame ==
  ASSUME NEW s \in Seq(Frame), s # <<>>
  PROVE  LET t == SubSeq(s, 1, Len(s) - 1)
         IN  /\ t \in Seq(Frame) /\ Len(t) = Len(s) - 1
             /\ \A i \in 1..Len(t) : t[i] = s[i]
<1> DEFINE n == Len(s) - 1
           t == SubSeq(s, 1, n)
<1>1. n \in Nat /\ \A i \in 1..n : s[i] \in Frame
  OBVIOUS
<1> HIDE DEF n
<1>2. /\ t \in Seq(Frame)
      /\ Len(t) = IF 1 <= n THEN n - 1 + 1 ELSE 0
      /\ \A i \in 1..(n - 1 + 1) : t[i] = s[1 + i - 1]
  BY <1>1, SubSeqProperties
<1> HIDE DEF t
<1>3. Len(t) = n
  BY <1>1, <1>2
<1>4. \A i \in 1..n : i \in 1..(n - 1 + 1) /\ 1 + i - 1 = i
  BY <1>1
<1>5. \A i \in 1..Len(t) : t[i] = s[i]
  BY <1>2, <1>3, <1>4
<1> QED
  BY <1>2, <1>3, <1>5 DEF t, n

LEMMA LookPast ==
  ASSUME SearchTypeOK, stack # <<>>, NEW p
  PROVE  LET t == Advanced(p)
         IN  /\ t \in Seq(Frame) /\ Len(t) = Len(stack)
             /\ \A i \in 1..Len(stack) : t[i].id = stack[i].id
             /\ \A i \in 1..(Len(stack) - 1) : t[i].left = stack[i].left
             /\ t[Len(stack)].left = stack[Len(stack)].left \ {p}
<1> DEFINE f == [id |-> Top.id, left |-> Top.left \ {p}]
<1>1. stack \in Seq(Frame) /\ Len(stack) \in 1..Len(stack) /\ stack[Len(stack)] \in Frame
  BY DEF SearchTypeOK
<1>2. f \in Frame
  BY <1>1 DEF Frame, Top
<1>3. Advanced(p) = [stack EXCEPT ![Len(stack)] = f]
  BY DEF Advanced
<1> HIDE DEF f
<1>4. Advanced(p) \in Seq(Frame) /\ Len(Advanced(p)) = Len(stack)
  BY <1>1, <1>2, <1>3
<1>5. \A i \in 1..Len(stack) : Advanced(p)[i] = IF i = Len(stack) THEN f ELSE stack[i]
  BY <1>1, <1>3
<1>6. f.id = stack[Len(stack)].id /\ f.left = stack[Len(stack)].left \ {p}
  BY DEF f, Top
<1> QED
  BY <1>1, <1>4, <1>5, <1>6

(* A stack that is not empty has a top, and the top is a revision at hand. *)
LEMMA TopFrame ==
  ASSUME SearchTypeOK, GrayPath, stack # <<>>
  PROVE  /\ Len(stack) \in 1..Len(stack) /\ Top \in Frame
         /\ Top.id \in DOMAIN nodes /\ Top.id \in Revisions /\ color[Top.id] = "gray"
         /\ Top.left \subseteq nodes[Top.id]
<1>1. Len(stack) \in 1..Len(stack) /\ stack[Len(stack)] \in Frame
  BY DEF SearchTypeOK
<1> QED
  BY <1>1 DEF GrayPath, Top, Frame

LEMMA ParentsTyped ==
  ASSUME SearchTypeOK
  PROVE  /\ DOMAIN nodes \subseteq Revisions
         /\ \A id \in DOMAIN nodes : nodes[id] \in SUBSET (Revisions \cup Absent)
  BY DEF SearchTypeOK
-----------------------------------------------------------------------------
LEMMA TypeStep == SearchTypeOK /\ GrayPath /\ [SearchNext]_searchVars => SearchTypeOK'
<1> SUFFICES ASSUME SearchTypeOK, GrayPath, [SearchNext]_searchVars PROVE SearchTypeOK'
  OBVIOUS
<1>1. CASE UNCHANGED searchVars
  BY <1>1 DEF searchVars, SearchTypeOK
<1>2. ASSUME NEW id \in DOMAIN nodes, Start(id) PROVE SearchTypeOK'
  <2>1. [id |-> id, left |-> nodes[id]] \in Frame
    BY ParentsTyped DEF Frame
  <2> QED
    BY <1>2, <2>1, PushFrame DEF Start, Visit, SearchTypeOK
<1>3. ASSUME NEW p \in Revisions \cup Absent, Close(p) PROVE SearchTypeOK'
  BY <1>3 DEF Close, Throw, SearchTypeOK
<1>4. ASSUME NEW p \in Revisions \cup Absent, Descend(p) PROVE SearchTypeOK'
  <2>1. [id |-> p, left |-> nodes[p]] \in Frame
    BY <1>4, ParentsTyped DEF Frame, Descend
  <2>2. Advanced(p) \in Seq(Frame)
    BY <1>4, LookPast DEF Descend, Searching
  <2>3. stack' \in Seq(Frame)
    BY <1>4, <2>1, <2>2, PushFrame DEF Descend
  <2> QED
    BY <1>4, <2>3 DEF Descend, SearchTypeOK
<1>5. ASSUME NEW p \in Revisions \cup Absent, Skip(p) PROVE SearchTypeOK'
  <2>1. Advanced(p) \in Seq(Frame)
    BY <1>5, LookPast DEF Skip, Searching
  <2> QED
    BY <1>5, <2>1 DEF Skip, SearchTypeOK
<1>6. CASE Leave
  <2>1. stack' \in Seq(Frame)
    BY <1>6, PopFrame DEF Leave, Searching, SearchTypeOK
  <2> QED
    BY <1>6, <2>1 DEF Leave, SearchTypeOK
<1>7. CASE Finish
  BY <1>7 DEF Finish, SearchTypeOK
<1> QED
  BY <1>1, <1>2, <1>3, <1>4, <1>5, <1>6, <1>7 DEF SearchNext

-----------------------------------------------------------------------------
(* What each action does to the stack, in the words of GrayPath.           *)

LEMMA StartStack ==
  ASSUME SearchTypeOK, NEW id \in DOMAIN nodes, Start(id)
  PROVE  /\ Len(stack) = 0 /\ Len(stack') = 1
         /\ stack'[1].id = id /\ stack'[1].left = nodes[id]
<1>1. [id |-> id, left |-> nodes[id]] \in Frame
  BY ParentsTyped DEF Frame
<1>2. stack = <<>> /\ Len(stack) = 0 /\ stack \in Seq(Frame)
  BY DEF Start, SearchTypeOK
<1>3. stack' = Append(stack, [id |-> id, left |-> nodes[id]])
  BY DEF Start, Visit
<1>4. Len(stack') = 1 /\ stack'[1] = [id |-> id, left |-> nodes[id]]
  BY <1>1, <1>2, <1>3, PushFrame
<1> QED
  BY <1>2, <1>4

LEMMA DescendStack ==
  ASSUME SearchTypeOK, GrayPath, NEW p \in Revisions \cup Absent, Descend(p)
  PROVE  /\ Len(stack) \in Nat \ {0} /\ Len(stack') = Len(stack) + 1
         /\ \A i \in 1..Len(stack) : stack'[i].id = stack[i].id
         /\ \A i \in 1..(Len(stack) - 1) : stack'[i].left = stack[i].left
         /\ stack'[Len(stack)].left = stack[Len(stack)].left \ {p}
         /\ stack'[Len(stack) + 1].id = p /\ stack'[Len(stack) + 1].left = nodes[p]
<1>1. [id |-> p, left |-> nodes[p]] \in Frame
  BY ParentsTyped DEF Frame, Descend
<1>2. stack # <<>> /\ stack' = Append(Advanced(p), [id |-> p, left |-> nodes[p]])
  BY DEF Descend, Searching
<1>3. Len(stack) \in Nat \ {0}
  BY <1>2 DEF SearchTypeOK
<1>4. /\ Advanced(p) \in Seq(Frame) /\ Len(Advanced(p)) = Len(stack)
      /\ \A i \in 1..Len(stack) : Advanced(p)[i].id = stack[i].id
      /\ \A i \in 1..(Len(stack) - 1) : Advanced(p)[i].left = stack[i].left
      /\ Advanced(p)[Len(stack)].left = stack[Len(stack)].left \ {p}
  BY <1>2, LookPast
<1>5. /\ Len(stack') = Len(stack) + 1
      /\ \A i \in 1..Len(stack) : stack'[i] = Advanced(p)[i]
      /\ stack'[Len(stack) + 1] = [id |-> p, left |-> nodes[p]]
  BY <1>1, <1>2, <1>4, PushFrame
<1> QED
  BY <1>3, <1>4, <1>5

LEMMA SkipStack ==
  ASSUME SearchTypeOK, NEW p, Skip(p)
  PROVE  /\ Len(stack) \in Nat \ {0} /\ Len(stack') = Len(stack)
         /\ \A i \in 1..Len(stack) : stack'[i].id = stack[i].id
         /\ \A i \in 1..(Len(stack) - 1) : stack'[i].left = stack[i].left
         /\ stack'[Len(stack)].left = stack[Len(stack)].left \ {p}
<1>1. stack # <<>> /\ stack' = Advanced(p)
  BY DEF Skip, Searching
<1>2. Len(stack) \in Nat \ {0}
  BY <1>1 DEF SearchTypeOK
<1> QED
  BY <1>1, <1>2, LookPast

LEMMA LeaveStack ==
  ASSUME SearchTypeOK, Leave
  PROVE  /\ Len(stack) \in Nat \ {0} /\ Len(stack') = Len(stack) - 1
         /\ \A i \in 1..Len(stack') : stack'[i] = stack[i]
<1>1. stack # <<>> /\ stack' = SubSeq(stack, 1, Len(stack) - 1) /\ stack \in Seq(Frame)
  BY DEF Leave, Searching, SearchTypeOK
<1>2. Len(stack) \in Nat \ {0}
  BY <1>1
<1> QED
  BY <1>1, <1>2, PopFrame

-----------------------------------------------------------------------------
LEMMA GrayStep == SearchTypeOK /\ GrayPath /\ [SearchNext]_searchVars => GrayPath'
<1> SUFFICES ASSUME SearchTypeOK, GrayPath, [SearchNext]_searchVars PROVE GrayPath'
  OBVIOUS
<1>0. color \in [DOMAIN nodes -> {"white", "gray", "black"}] /\ Len(stack) \in Nat
  BY DEF SearchTypeOK
<1>1. CASE UNCHANGED searchVars
  BY <1>1 DEF searchVars, GrayPath
<1>2. ASSUME NEW id \in DOMAIN nodes, Start(id) PROVE GrayPath'
  <2>1. color' = [color EXCEPT ![id] = "gray"] /\ UNCHANGED nodes
    BY <1>2 DEF Start, Visit
  <2> QED
    BY <1>0, <1>2, <2>1, StartStack DEF GrayPath
<1>3. ASSUME NEW p \in Revisions \cup Absent, Close(p) PROVE GrayPath'
  BY <1>3 DEF Close, Throw, GrayPath
<1>4. ASSUME NEW p \in Revisions \cup Absent, Descend(p) PROVE GrayPath'
  <2> DEFINE n == Len(stack)
  <2>1. /\ color' = [color EXCEPT ![p] = "gray"] /\ UNCHANGED nodes
        /\ p \in DOMAIN nodes /\ color[p] = "white" /\ p \in stack[n].left
    BY <1>4 DEF Descend, Top
  <2>2. /\ n \in Nat \ {0} /\ Len(stack') = n + 1
        /\ \A i \in 1..n : stack'[i].id = stack[i].id /\ stack'[i].left \subseteq stack[i].left
        /\ stack'[n + 1].id = p /\ stack'[n + 1].left = nodes[p]
    <3>1. \A i \in 1..n : i \in 1..(n - 1) \/ i = n
      BY <1>0
    <3> QED
      BY <1>4, <3>1, DescendStack
  <2> HIDE DEF n
  <2>3. \A i \in 1..n : /\ stack[i].id \in DOMAIN nodes /\ color[stack[i].id] = "gray"
                        /\ stack[i].left \subseteq nodes[stack[i].id] /\ stack[i].id # p
    BY <2>1 DEF GrayPath, n
  <2>4. \A i \in 1..(n + 1) :
          /\ stack'[i].id \in DOMAIN nodes /\ color'[stack'[i].id] = "gray"
          /\ stack'[i].left \subseteq nodes[stack'[i].id]
    <3> TAKE i \in 1..(n + 1)
    <3>1. CASE i = n + 1
      BY <1>0, <2>1, <2>2, <3>1
    <3>2. CASE i \in 1..n
      BY <1>0, <2>1, <2>2, <2>3, <3>2
    <3> QED
      BY <2>2, <3>1, <3>2
  <2>5. \A i, j \in 1..(n + 1) : i # j => stack'[i].id # stack'[j].id
    <3>1. \A i, j \in 1..n : i # j => stack[i].id # stack[j].id
      BY DEF GrayPath, n
    <3>2. \A i \in 1..(n + 1) : i \in 1..n \/ i = n + 1
      BY <2>2
    <3> QED
      BY <2>2, <2>3, <3>1, <3>2
  <2>6. \A i \in 1..n : stack'[i + 1].id \in nodes[stack'[i].id]
    <3>1. \A i \in 1..(n - 1) : stack[i + 1].id \in nodes[stack[i].id]
      BY DEF GrayPath, n
    <3>2. stack'[n + 1].id \in nodes[stack'[n].id]
      BY <2>1, <2>2, <2>3
    <3>3. ASSUME NEW i \in 1..n PROVE i = n \/ (i \in 1..(n - 1) /\ i + 1 \in 1..n)
      BY <2>2
    <3> QED
      BY <2>2, <3>1, <3>2, <3>3
  <2>7. \A id \in DOMAIN nodes : color'[id] = "gray" => \E i \in 1..(n + 1) : stack'[i].id = id
    <3> SUFFICES ASSUME NEW id \in DOMAIN nodes, color'[id] = "gray"
                 PROVE  \E i \in 1..(n + 1) : stack'[i].id = id
      OBVIOUS
    <3>1. CASE id = p
      BY <2>2, <3>1
    <3>2. CASE id # p
      <4>1. color[id] = "gray"
        BY <1>0, <2>1, <3>2
      <4>2. PICK i \in 1..n : stack[i].id = id
        BY <4>1 DEF GrayPath, n
      <4> QED
        BY <2>2, <4>2
    <3> QED
      BY <3>1, <3>2
  <2>8. n + 1 - 1 = n
    BY <2>2
  <2> QED
    BY <2>1, <2>2, <2>4, <2>5, <2>6, <2>7, <2>8 DEF GrayPath
<1>5. ASSUME NEW p \in Revisions \cup Absent, Skip(p) PROVE GrayPath'
  <2>1. UNCHANGED <<nodes, color>>
    BY <1>5 DEF Skip
  <2>2. \A i \in 1..Len(stack) : stack'[i].id = stack[i].id /\ stack'[i].left \subseteq stack[i].left
    <3>1. \A i \in 1..Len(stack) : i \in 1..(Len(stack) - 1) \/ i = Len(stack)
      BY <1>0
    <3> QED
      BY <1>5, <3>1, SkipStack
  <2>3. \A i \in 1..(Len(stack) - 1) : i \in 1..Len(stack) /\ i + 1 \in 1..Len(stack)
    BY <1>0
  <2>4. Len(stack') = Len(stack)
    BY <1>5, SkipStack
  <2>5. \A i \in 1..Len(stack) :
          /\ stack'[i].id \in DOMAIN nodes /\ color[stack'[i].id] = "gray"
          /\ stack'[i].left \subseteq nodes[stack'[i].id]
    BY <2>2 DEF GrayPath
  <2>6. \A i, j \in 1..Len(stack) : i # j => stack'[i].id # stack'[j].id
    BY <2>2 DEF GrayPath
  <2>7. \A i \in 1..(Len(stack) - 1) : stack'[i + 1].id \in nodes[stack'[i].id]
    BY <2>2, <2>3 DEF GrayPath
  <2>8. \A id \in DOMAIN nodes : color[id] = "gray" => \E i \in 1..Len(stack) : stack'[i].id = id
    BY <2>2 DEF GrayPath
  <2> QED
    BY <2>1, <2>4, <2>5, <2>6, <2>7, <2>8 DEF GrayPath
<1>6. CASE Leave
  <2> DEFINE n == Len(stack)
  <2>1. /\ n \in Nat \ {0} /\ Len(stack') = n - 1
        /\ \A i \in 1..(n - 1) : stack'[i] = stack[i]
    BY <1>6, LeaveStack
  <2>2. color' = [color EXCEPT ![stack[n].id] = "black"] /\ UNCHANGED nodes
    BY <1>6 DEF Leave, Top
  <2>3. /\ \A i \in 1..n : /\ stack[i].id \in DOMAIN nodes /\ color[stack[i].id] = "gray"
                            /\ stack[i].left \subseteq nodes[stack[i].id]
        /\ \A i, j \in 1..n : i # j => stack[i].id # stack[j].id
        /\ \A i \in 1..(n - 1) : stack[i + 1].id \in nodes[stack[i].id]
        /\ \A id \in DOMAIN nodes : color[id] = "gray" => \E i \in 1..n : stack[i].id = id
    BY DEF GrayPath
  <2> HIDE DEF n
  <2>4. /\ \A i \in 1..(n - 1) : i \in 1..n /\ i # n
        /\ \A i \in 1..(n - 1 - 1) : i \in 1..(n - 1) /\ i + 1 \in 1..(n - 1)
        /\ \A i \in 1..n : i = n \/ i \in 1..(n - 1)
        /\ n \in 1..n
    BY <2>1
  <2>5. ASSUME NEW i \in 1..(n - 1)
        PROVE  /\ stack'[i].id \in DOMAIN nodes /\ color'[stack'[i].id] = "gray"
               /\ stack'[i].left \subseteq nodes[stack'[i].id]
    <3>1. stack[i].id # stack[n].id /\ stack[i].id \in DOMAIN nodes
      BY <2>3, <2>4
    <3>2. color'[stack[i].id] = color[stack[i].id]
      BY <1>0, <2>2, <3>1
    <3> QED
      BY <2>1, <2>3, <2>4, <3>1, <3>2
  <2>6. ASSUME NEW id \in DOMAIN nodes, color'[id] = "gray"
        PROVE  \E i \in 1..(n - 1) : stack'[i].id = id
    <3>1. id # stack[n].id /\ color[id] = "gray"
      BY <1>0, <2>2, <2>3, <2>4, <2>6
    <3>2. PICK i \in 1..n : stack[i].id = id
      BY <2>3, <3>1
    <3> QED
      BY <2>1, <2>4, <3>1, <3>2
  <2>7. \A i, j \in 1..(n - 1) : i # j => stack'[i].id # stack'[j].id
    BY <2>1, <2>3, <2>4
  <2>8. \A i \in 1..(n - 1 - 1) : stack'[i + 1].id \in nodes[stack'[i].id]
    BY <2>1, <2>3, <2>4
  <2> QED
    BY <2>1, <2>2, <2>5, <2>6, <2>7, <2>8 DEF GrayPath
<1>7. CASE Finish
  BY <1>7 DEF Finish, GrayPath
<1> QED
  BY <1>1, <1>2, <1>3, <1>4, <1>5, <1>6, <1>7 DEF SearchNext

-----------------------------------------------------------------------------
LEMMA LookedStep == SearchTypeOK /\ GrayPath /\ LookedAt /\ [SearchNext]_searchVars => LookedAt'
<1> SUFFICES ASSUME SearchTypeOK, GrayPath, LookedAt, [SearchNext]_searchVars PROVE LookedAt'
  OBVIOUS
<1>0. color \in [DOMAIN nodes -> {"white", "gray", "black"}] /\ Len(stack) \in Nat
  BY DEF SearchTypeOK
<1>1. CASE UNCHANGED searchVars
  BY <1>1 DEF searchVars, LookedAt
<1>2. ASSUME NEW id \in DOMAIN nodes, Start(id) PROVE LookedAt'
  <2>1. UNCHANGED nodes
    BY <1>2 DEF Start, Visit
  <2> QED
    BY <1>2, <2>1, StartStack DEF LookedAt
<1>3. ASSUME NEW p \in Revisions \cup Absent, Close(p) PROVE LookedAt'
  BY <1>3 DEF Close, Throw, LookedAt
<1>4. ASSUME NEW p \in Revisions \cup Absent, Descend(p) PROVE LookedAt'
  <2> DEFINE n == Len(stack)
  <2>1. /\ color' = [color EXCEPT ![p] = "gray"] /\ UNCHANGED nodes
        /\ p \in DOMAIN nodes /\ color[p] = "white"
    BY <1>4 DEF Descend
  <2>2. /\ n \in Nat \ {0} /\ Len(stack') = n + 1
        /\ \A i \in 1..n : stack'[i].id = stack[i].id
        /\ \A i \in 1..(n - 1) : stack'[i].left = stack[i].left
        /\ stack'[n].left = stack[n].left \ {p}
        /\ stack'[n + 1].id = p /\ stack'[n + 1].left = nodes[p]
    BY <1>4, DescendStack
  <2>3. \A i \in 1..n : \A q \in nodes[stack[i].id] \cap DOMAIN nodes :
          q \in stack[i].left \/ color[q] = "black" \/ (i < n /\ q = stack[i + 1].id)
    BY DEF LookedAt
  <2> HIDE DEF n
  <2>4. ASSUME NEW i \in 1..(n + 1), NEW q \in nodes[stack'[i].id] \cap DOMAIN nodes
        PROVE  q \in stack'[i].left \/ color'[q] = "black" \/ (i < n + 1 /\ q = stack'[i + 1].id)
    <3>1. color[q] = "black" => color'[q] = "black"
      BY <1>0, <2>1
    <3>2. CASE i = n + 1
      BY <2>2, <3>2
    <3>3. CASE i = n
      <4>1. q \in stack[n].left \/ color[q] = "black"
        BY <2>2, <2>3, <2>4, <3>3
      <4> QED
        BY <2>2, <3>1, <3>3, <4>1
    <3>4. CASE i \in 1..(n - 1)
      <4>1. i \in 1..n /\ i + 1 \in 1..n /\ i < n + 1
        BY <2>2, <3>4
      <4> QED
        BY <2>2, <2>3, <2>4, <3>1, <3>4, <4>1
    <3> QED
      BY <2>2, <3>2, <3>3, <3>4
  <2> QED
    BY <2>1, <2>2, <2>4 DEF LookedAt
<1>5. ASSUME NEW p \in Revisions \cup Absent, Skip(p) PROVE LookedAt'
  <2> DEFINE n == Len(stack)
  <2>1. UNCHANGED <<nodes, color>> /\ (p \in DOMAIN nodes => color[p] = "black")
    BY <1>5 DEF Skip
  <2>2. /\ n \in Nat \ {0} /\ Len(stack') = n
        /\ \A i \in 1..n : stack'[i].id = stack[i].id
        /\ \A i \in 1..(n - 1) : stack'[i].left = stack[i].left
        /\ stack'[n].left = stack[n].left \ {p}
    BY <1>5, SkipStack
  <2>3. \A i \in 1..n : \A q \in nodes[stack[i].id] \cap DOMAIN nodes :
          q \in stack[i].left \/ color[q] = "black" \/ (i < n /\ q = stack[i + 1].id)
    BY DEF LookedAt
  <2> HIDE DEF n
  <2>4. ASSUME NEW i \in 1..n, NEW q \in nodes[stack'[i].id] \cap DOMAIN nodes
        PROVE  q \in stack'[i].left \/ color[q] = "black" \/ (i < n /\ q = stack'[i + 1].id)
    <3>1. i = n \/ (i \in 1..(n - 1) /\ i + 1 \in 1..n)
      BY <2>2
    <3> QED
      BY <2>1, <2>2, <2>3, <2>4, <3>1
  <2> QED
    BY <2>1, <2>2, <2>4 DEF LookedAt
<1>6. CASE Leave
  <2> DEFINE n == Len(stack)
  <2>1. /\ n \in Nat \ {0} /\ Len(stack') = n - 1
        /\ \A i \in 1..(n - 1) : stack'[i] = stack[i]
    BY <1>6, LeaveStack
  <2>2. color' = [color EXCEPT ![stack[n].id] = "black"] /\ UNCHANGED nodes
    BY <1>6 DEF Leave, Top
  <2>3. \A i \in 1..n : \A q \in nodes[stack[i].id] \cap DOMAIN nodes :
          q \in stack[i].left \/ color[q] = "black" \/ (i < n /\ q = stack[i + 1].id)
    BY DEF LookedAt
  <2> HIDE DEF n
  <2>4. ASSUME NEW i \in 1..(n - 1), NEW q \in nodes[stack'[i].id] \cap DOMAIN nodes
        PROVE  q \in stack'[i].left \/ color'[q] = "black" \/ (i < n - 1 /\ q = stack'[i + 1].id)
    <3>1. i \in 1..n /\ (i + 1 = n \/ (i < n - 1 /\ i + 1 \in 1..(n - 1)))
      BY <2>1
    <3>2. (color[q] = "black" \/ q = stack[n].id) => color'[q] = "black"
      BY <1>0, <2>2
    <3>3. q \in stack[i].left \/ color[q] = "black" \/ q = stack[i + 1].id
      BY <2>1, <2>3, <2>4, <3>1
    <3> QED
      BY <2>1, <3>1, <3>2, <3>3
  <2> QED
    BY <2>1, <2>2, <2>4 DEF LookedAt
<1>7. CASE Finish
  BY <1>7 DEF Finish, LookedAt
<1> QED
  BY <1>1, <1>2, <1>3, <1>4, <1>5, <1>6, <1>7 DEF SearchNext

-----------------------------------------------------------------------------
(* A finished revision is in no cycle: without it, what is circular among  *)
(* the black revisions would have been circular before.                    *)
LEMMA BlackStep == SearchTypeOK /\ GrayPath /\ LookedAt /\ BlackDone /\ [SearchNext]_searchVars => BlackDone'
<1> SUFFICES ASSUME SearchTypeOK, GrayPath, LookedAt, BlackDone, [SearchNext]_searchVars PROVE BlackDone'
  OBVIOUS
<1> DEFINE Black == {id \in DOMAIN nodes : color[id] = "black"}
<1>0. color \in [DOMAIN nodes -> {"white", "gray", "black"}] /\ Len(stack) \in Nat
  BY DEF SearchTypeOK
<1>1. ASSUME UNCHANGED nodes, \A id \in DOMAIN nodes : color'[id] = "black" <=> color[id] = "black"
      PROVE  BlackDone'
  <2>1. Black' = Black
    BY <1>1
  <2> QED
    BY <1>1, <2>1 DEF BlackDone, Circular
<1>2. CASE UNCHANGED searchVars
  BY <1>1, <1>2 DEF searchVars
<1>3. ASSUME NEW id \in DOMAIN nodes, Start(id) PROVE BlackDone'
  BY <1>0, <1>1, <1>3 DEF Start, Visit
<1>4. ASSUME NEW p \in Revisions \cup Absent, Close(p) \/ Skip(p) PROVE BlackDone'
  BY <1>1, <1>4 DEF Close, Throw, Skip
<1>5. ASSUME NEW p \in Revisions \cup Absent, Descend(p) PROVE BlackDone'
  BY <1>0, <1>1, <1>5 DEF Descend
<1>6. CASE Leave
  <2> DEFINE id == Top.id
  <2>1. /\ id \in DOMAIN nodes /\ color[id] = "gray" /\ Len(stack) \in 1..Len(stack)
        /\ stack[Len(stack)].id = id /\ stack[Len(stack)].left = {}
        /\ color' = [color EXCEPT ![id] = "black"] /\ UNCHANGED nodes
    BY <1>6, TopFrame DEF Leave, Searching, Top
  <2>2. nodes[id] \cap DOMAIN nodes \subseteq Black
    BY <1>0, <2>1 DEF LookedAt
  <2> HIDE DEF id
  <2>3. Black' = Black \cup {id} /\ id \notin Black
    BY <1>0, <2>1
  <2>4. /\ \A b \in Black : nodes[b] \cap DOMAIN nodes \subseteq Black
        /\ \A S \in SUBSET Black : ~Circular(nodes, S)
    BY DEF BlackDone
  <2>5. \A b \in Black \cup {id} : nodes[b] \cap DOMAIN nodes \subseteq Black
    BY <2>2, <2>4
  <2>6. ASSUME NEW S \in SUBSET (Black \cup {id}), Circular(nodes, S) PROVE FALSE
    <3> DEFINE T == S \ {id}
    <3>1. \A s \in S : nodes[s] \cap S # {}
      BY <2>6 DEF Circular
    <3>2. \A s \in S : nodes[s] \cap T # {}
      BY <2>1, <2>3, <2>5, <3>1
    <3>3. T # {} /\ T \in SUBSET Black
      BY <2>6, <3>2 DEF Circular
    <3>4. Circular(nodes, T)
      BY <3>2, <3>3 DEF Circular
    <3> QED
      BY <2>4, <3>3, <3>4
  <2> QED
    BY <2>1, <2>3, <2>5, <2>6 DEF BlackDone, Circular
<1>7. CASE Finish
  BY <1>1, <1>7 DEF Finish
<1> QED
  BY <1>2, <1>3, <1>4, <1>5, <1>6, <1>7 DEF SearchNext

(* A gray parent closes a circle of the frames from it to the top.         *)
LEMMA CycleStep ==
  SearchTypeOK /\ GrayPath /\ BlackDone /\ CyclesFound /\ [SearchNext]_searchVars => CyclesFound'
<1> SUFFICES ASSUME SearchTypeOK, GrayPath, BlackDone, CyclesFound, [SearchNext]_searchVars PROVE CyclesFound'
  OBVIOUS
<1>0. color \in [DOMAIN nodes -> {"white", "gray", "black"}] /\ Len(stack) \in Nat
  BY DEF SearchTypeOK
<1>1. CASE UNCHANGED <<nodes, outcome>>
  BY <1>1 DEF CyclesFound, Cyclic, Circular
<1>2. ASSUME NEW p \in Revisions \cup Absent, Close(p) PROVE CyclesFound'
  <2> DEFINE n == Len(stack)
  <2>1. /\ p \in DOMAIN nodes /\ color[p] = "gray" /\ p \in nodes[stack[n].id]
        /\ n \in Nat \ {0} /\ UNCHANGED nodes /\ outcome' = "INPUT"
    BY <1>2, TopFrame DEF Close, Throw, Searching, Top
  <2>2. PICK i \in 1..n : stack[i].id = p
    BY <2>1 DEF GrayPath
  <2>3. /\ \A j \in 1..n : stack[j].id \in DOMAIN nodes
        /\ \A j \in 1..(n - 1) : stack[j + 1].id \in nodes[stack[j].id]
    BY DEF GrayPath
  <2> HIDE DEF n
  <2> DEFINE S == {stack[j].id : j \in i..n}
  <2>4. p \in S /\ S \subseteq DOMAIN nodes
    BY <2>1, <2>2, <2>3
  <2>5. ASSUME NEW j \in i..n PROVE nodes[stack[j].id] \cap S # {}
    <3>1. CASE j = n
      BY <2>1, <2>4, <3>1
    <3>2. CASE j # n
      <4>1. j \in 1..(n - 1) /\ j + 1 \in i..n
        BY <2>1, <2>2, <3>2
      <4> QED
        BY <2>3, <4>1
    <3> QED
      BY <3>1, <3>2
  <2>6. Circular(nodes, S)
    BY <2>4, <2>5 DEF Circular
  <2>7. Cyclic(nodes)
    BY <2>4, <2>6 DEF Cyclic
  <2> QED
    BY <2>1, <2>7 DEF CyclesFound, Cyclic, Circular
<1>3. CASE Finish
  <2>1. \A id \in DOMAIN nodes : color[id] = "black"
    <3>1. \A id \in DOMAIN nodes : color[id] # "gray"
      <4>1. Len(stack) = 0
        BY <1>3 DEF Finish
      <4> QED
        BY <4>1 DEF GrayPath
    <3> QED
      BY <1>0, <1>3, <3>1 DEF Finish
  <2>2. ~Cyclic(nodes)
    BY <2>1 DEF BlackDone, Cyclic
  <2> QED
    BY <1>3, <2>2 DEF Finish, CyclesFound, Cyclic, Circular
<1> QED
  BY <1>1, <1>2, <1>3 DEF SearchNext, searchVars, Start, Visit, Descend, Skip, Leave

-----------------------------------------------------------------------------
LEMMA InvInit == SearchInit => SearchInv
<1> SUFFICES ASSUME SearchInit PROVE SearchInv
  OBVIOUS
<1>1. SearchTypeOK
  BY DEF SearchInit, SearchTypeOK
<1>2. stack = <<>> /\ Len(stack) = 0 /\ \A id \in DOMAIN nodes : color[id] = "white"
  BY DEF SearchInit
<1>3. GrayPath /\ LookedAt
  BY <1>2 DEF GrayPath, LookedAt
<1>4. BlackDone
  BY <1>2 DEF BlackDone, Circular
<1>5. CyclesFound
  BY DEF SearchInit, CyclesFound
<1> QED
  BY <1>1, <1>3, <1>4, <1>5 DEF SearchInv

LEMMA InvInductive == SearchSpec => []SearchInv
<1>1. SearchInv /\ [SearchNext]_searchVars => SearchInv'
  BY TypeStep, GrayStep, LookedStep, BlackStep, CycleStep DEF SearchInv
<1> QED
  BY InvInit, <1>1, PTL DEF SearchSpec

(* assertAcyclic throws for a graph with a cycle and for no other: for any *)
(* number of revisions, with any parents missing, and in any order of the  *)
(* search.                                                                 *)
THEOREM CyclesAreFound == SearchSpec => []CyclesFound
<1>1. SearchInv => CyclesFound
  BY DEF SearchInv
<1> QED
  BY InvInductive, <1>1, PTL

(***************************************************************************)
(* Proofs about Reconcile.                                                 *)
(***************************************************************************)

-----------------------------------------------------------------------------
(* What is above a revision.                                               *)

(* A step that is repeated from a start has a first n results.             *)
IsIteration(f, start, step, k) ==
  f = [n \in 0..k |-> IF n = 0 THEN start ELSE step[f[n - 1]]]

LEMMA Iterates ==
  ASSUME NEW start, NEW step, NEW k \in Nat
  PROVE  \E f : IsIteration(f, start, step, k)
<1> USE DEF IsIteration
<1> DEFINE K == {n \in Nat : \E f : f = [m \in 0..n |-> IF m = 0 THEN start ELSE step[f[m - 1]]]}
<1>1. 0 \in K
  <2> DEFINE f == [m \in 0..0 |-> start]
  <2>1. f = [m \in 0..0 |-> IF m = 0 THEN start ELSE step[f[m - 1]]]
    OBVIOUS
  <2> QED
    BY <2>1
<1>2. ASSUME NEW n \in Nat, n \in K PROVE n + 1 \in K
  <2>1. PICK f : f = [m \in 0..n |-> IF m = 0 THEN start ELSE step[f[m - 1]]]
    BY <1>2
  <2> DEFINE g == [m \in 0..(n + 1) |-> IF m = n + 1 THEN step[f[n]] ELSE f[m]]
  <2>2. \A m \in 0..n : f[m] = IF m = 0 THEN start ELSE step[f[m - 1]]
    BY <2>1
  <2>3. \A m \in 0..(n + 1) : g[m] = IF m = 0 THEN start ELSE step[g[m - 1]]
    <3> TAKE m \in 0..(n + 1)
    <3>1. CASE m = n + 1
      <4>1. m - 1 = n /\ n \in 0..(n + 1) /\ n # n + 1 /\ m # 0
        BY <3>1
      <4> QED
        BY <3>1, <4>1
    <3>2. CASE m # n + 1 /\ m # 0
      <4>1. m \in 0..n /\ m - 1 \in 0..(n + 1) /\ m - 1 # n + 1
        BY <3>2
      <4> QED
        BY <2>2, <3>2, <4>1
    <3>3. CASE m = 0
      <4>1. m \in 0..n /\ m # n + 1
        BY <3>3
      <4> QED
        BY <2>2, <3>3, <4>1
    <3> QED
      BY <3>1, <3>2, <3>3
  <2>4. DOMAIN g = 0..(n + 1) /\ g = [m \in 0..(n + 1) |-> g[m]]
    OBVIOUS
  <2> HIDE DEF g
  <2>5. g = [m \in 0..(n + 1) |-> IF m = 0 THEN start ELSE step[g[m - 1]]]
    BY <2>3, <2>4
  <2> QED
    BY <2>5
<1> HIDE DEF K
<1>3. k \in K
  BY <1>1, <1>2, Induct
<1> QED
  BY <1>3 DEF K

(* The sets that Above goes through.                                       *)
Climb(graph, id, above) ==
  /\ above[0] = graph[id]
  /\ \A n \in 0..(Cardinality(DOMAIN graph) - 1) :
       above[n + 1] = above[n] \cup UNION {graph[s] : s \in above[n] \cap DOMAIN graph}

LEMMA AboveClimbs ==
  ASSUME NEW graph, IsFiniteSet(DOMAIN graph), NEW id
  PROVE  \E above : Climb(graph, id, above) /\ Above(graph, id) = above[Cardinality(DOMAIN graph)]
<1> DEFINE k == Cardinality(DOMAIN graph)
           WithParents(S) == S \cup UNION {graph[s] : s \in S \cap DOMAIN graph}
           F(f) == [n \in 0..k |-> IF n = 0 THEN graph[id] ELSE WithParents(f[n - 1])]
           above == CHOOSE f : f = F(f)
           U == graph[id] \cup UNION {graph[s] : s \in DOMAIN graph}
           step == [S \in SUBSET U |-> WithParents(S)]
<1>0. k \in Nat
  BY FS_CardinalityType
<1>1. Above(graph, id) = above[k]
  BY DEF Above
<1>2. PICK g : IsIteration(g, graph[id], step, k)
  <2> DEFINE start == graph[id]
  <2> HIDE DEF start, step, k
  <2> QED
    BY <1>0, Iterates DEF start
<1>3. g = F(g)
  <2>1. \A S \in SUBSET U : step[S] = WithParents(S) /\ WithParents(S) \in SUBSET U
    OBVIOUS
  <2>2. \A n \in 0..k : g[n] = IF n = 0 THEN graph[id] ELSE step[g[n - 1]]
    BY <1>2 DEF IsIteration
  <2>3. graph[id] \in SUBSET U
    OBVIOUS
  <2> HIDE DEF U, step, k, WithParents
  <2> DEFINE K == {n \in Nat : n \in 0..k => g[n] \in SUBSET U}
  <2>4. \A n \in Nat : n \in K
    <3>1. 0 \in K
      BY <1>0, <2>2, <2>3
    <3>2. ASSUME NEW n \in Nat, n \in K PROVE n + 1 \in K
      <4> SUFFICES ASSUME n + 1 \in 0..k PROVE g[n + 1] \in SUBSET U
        OBVIOUS
      <4>1. n \in 0..k /\ n + 1 # 0 /\ (n + 1) - 1 = n
        BY <1>0
      <4>2. g[n + 1] = step[g[n]]
        BY <2>2, <4>1
      <4> QED
        BY <2>1, <3>2, <4>1, <4>2
    <3> HIDE DEF K
    <3> QED
      BY <3>1, <3>2, Induct
  <2>5. \A n \in 0..k : g[n] = IF n = 0 THEN graph[id] ELSE WithParents(g[n - 1])
    <3> TAKE n \in 0..k
    <3>1. CASE n = 0
      BY <2>2, <3>1
    <3>2. CASE n # 0
      <4>1. n - 1 \in Nat /\ n - 1 \in 0..k
        BY <1>0, <3>2
      <4>2. g[n - 1] \in SUBSET U
        BY <2>4, <4>1
      <4> QED
        BY <2>1, <2>2, <3>2, <4>2
    <3> QED
      BY <3>1, <3>2
  <2>6. DOMAIN g = 0..k /\ g = [n \in 0..k |-> g[n]]
    BY <1>2 DEF IsIteration
  <2> QED
    BY <2>5, <2>6
<1> HIDE DEF F
<1>4. above = F(above)
  BY <1>3
<1> HIDE DEF above
<1>5. \A n \in 0..k : above[n] = IF n = 0 THEN graph[id] ELSE WithParents(above[n - 1])
  BY <1>4 DEF F
<1> HIDE DEF WithParents, k
<1>6. above[0] = graph[id]
  BY <1>0, <1>5
<1>7. \A n \in 0..(k - 1) : above[n + 1] = WithParents(above[n])
  <2> TAKE n \in 0..(k - 1)
  <2>1. n + 1 \in 0..k /\ n + 1 # 0 /\ (n + 1) - 1 = n
    BY <1>0
  <2> QED
    BY <1>5, <2>1
<1> QED
  BY <1>1, <1>6, <1>7 DEF Climb, WithParents, k

(* It is closed: what climbs on for as many steps as there are revisions   *)
(* has met all of them.                                                    *)
LEMMA AboveIs ==
  ASSUME NEW graph, IsFiniteSet(DOMAIN graph), NEW id
  PROVE  /\ graph[id] \subseteq Above(graph, id)
         /\ \A s \in Above(graph, id) \cap DOMAIN graph : graph[s] \subseteq Above(graph, id)
<1> DEFINE D == DOMAIN graph
           k == Cardinality(D)
<1>0. k \in Nat
  BY FS_CardinalityType
<1>1. PICK above : Climb(graph, id, above) /\ Above(graph, id) = above[k]
  BY AboveClimbs
<1>2. above[0] = graph[id] /\ \A n \in 0..(k - 1) :
        above[n + 1] = above[n] \cup UNION {graph[s] : s \in above[n] \cap D}
  BY <1>1 DEF Climb
<1> DEFINE Closed(S) == \A s \in S \cap D : graph[s] \subseteq S
           K == {n \in Nat : n \in 0..k =>
                   /\ graph[id] \subseteq above[n]
                   /\ Closed(above[n]) \/ Cardinality(above[n] \cap D) >= n + 1}
<1>3. 0 \in K
  <2>1. CASE above[0] \cap D = {}
    BY <1>2, <2>1
  <2>2. CASE above[0] \cap D # {}
    <3>1. IsFiniteSet(above[0] \cap D)
      BY FS_Subset
    <3>2. Cardinality(above[0] \cap D) \in Nat /\ Cardinality(above[0] \cap D) # 0
      BY <2>2, <3>1, FS_CardinalityType, FS_EmptySet
    <3> QED
      BY <1>2, <3>2
  <2> QED
    BY <2>1, <2>2
<1>4. ASSUME NEW n \in Nat, n \in K PROVE n + 1 \in K
  <2> SUFFICES ASSUME n + 1 \in 0..k
               PROVE  /\ graph[id] \subseteq above[n + 1]
                      /\ Closed(above[n + 1]) \/ Cardinality(above[n + 1] \cap D) >= n + 1 + 1
    OBVIOUS
  <2>1. n \in 0..k /\ n \in 0..(k - 1)
    BY <1>0
  <2> DEFINE A == above[n]
             B == above[n + 1]
  <2>2. B = A \cup UNION {graph[s] : s \in A \cap D}
    BY <1>2, <2>1
  <2>3. graph[id] \subseteq B
    BY <1>4, <2>1, <2>2
  <2>4. graph[id] \subseteq A /\ (Closed(A) \/ Cardinality(A \cap D) >= n + 1)
    BY <1>4, <2>1
  <2> HIDE DEF A, B, D
  <2>5. CASE Closed(A)
    <3>1. B = A
      BY <2>2, <2>5
    <3> QED
      BY <2>3, <2>5, <3>1 DEF B
  <2>6. CASE A \cap D = B \cap D
    <3>1. Closed(B)
      BY <2>2, <2>6
    <3> QED
      BY <2>3, <3>1 DEF B
  <2>7. CASE ~Closed(A) /\ A \cap D # B \cap D
    <3>1. A \cap D \in SUBSET (B \cap D) /\ IsFiniteSet(B \cap D)
      BY <2>2, FS_Subset DEF D
    <3>2. IsFiniteSet(A \cap D) /\ Cardinality(A \cap D) <= Cardinality(B \cap D)
          /\ Cardinality(A \cap D) # Cardinality(B \cap D)
      BY <2>7, <3>1, FS_Subset
    <3>3. Cardinality(A \cap D) \in Nat /\ Cardinality(B \cap D) \in Nat
      BY <3>1, <3>2, FS_CardinalityType
    <3>4. Cardinality(A \cap D) >= n + 1
      BY <2>4, <2>7
    <3>5. Cardinality(B \cap D) >= n + 1 + 1
      BY <3>2, <3>3, <3>4
    <3> QED
      BY <2>3, <3>5 DEF B
  <2> QED
    BY <2>5, <2>6, <2>7
<1> HIDE DEF K
<1>5. k \in K
  BY <1>0, <1>3, <1>4, Induct
<1>6. graph[id] \subseteq above[k] /\ (Closed(above[k]) \/ Cardinality(above[k] \cap D) >= k + 1)
  BY <1>0, <1>5 DEF K
<1>7. above[k] \cap D \in SUBSET D
  OBVIOUS
<1>8. IsFiniteSet(above[k] \cap D) /\ Cardinality(above[k] \cap D) <= k
  BY <1>7, FS_Subset
<1>9. Cardinality(above[k] \cap D) \in Nat
  BY <1>8, FS_CardinalityType
<1>10. Closed(above[k])
  BY <1>0, <1>6, <1>8, <1>9
<1> QED
  BY <1>1, <1>6, <1>10

(* And it is no more than that.                                            *)
LEMMA AboveLeast ==
  ASSUME NEW graph, IsFiniteSet(DOMAIN graph), NEW id, NEW S,
         graph[id] \subseteq S, \A s \in S \cap DOMAIN graph : graph[s] \subseteq S
  PROVE  Above(graph, id) \subseteq S
<1> DEFINE k == Cardinality(DOMAIN graph)
<1>0. k \in Nat
  BY FS_CardinalityType
<1>1. PICK above : Climb(graph, id, above) /\ Above(graph, id) = above[k]
  BY AboveClimbs
<1>2. above[0] = graph[id] /\ \A n \in 0..(k - 1) :
        above[n + 1] = above[n] \cup UNION {graph[s] : s \in above[n] \cap DOMAIN graph}
  BY <1>1 DEF Climb
<1> DEFINE K == {n \in Nat : n \in 0..k => above[n] \subseteq S}
<1>3. 0 \in K
  BY <1>2
<1>4. ASSUME NEW n \in Nat, n \in K PROVE n + 1 \in K
  <2> SUFFICES ASSUME n + 1 \in 0..k PROVE above[n + 1] \subseteq S
    OBVIOUS
  <2>1. n \in 0..k /\ n \in 0..(k - 1)
    BY <1>0
  <2>2. above[n] \subseteq S
    BY <1>4, <2>1
  <2> QED
    BY <1>2, <2>1, <2>2
<1> HIDE DEF K
<1>5. k \in K
  BY <1>0, <1>3, <1>4, Induct
<1> QED
  BY <1>0, <1>1, <1>5 DEF K

-----------------------------------------------------------------------------
(* Types: everything at hand is finite.                                    *)

LEMMA RecordsAreFinite == IsFiniteSet(Record)
<1> DEFINE K == {"snapshot", "tombstone", "root-update-receipt", "observation"}
           A == {r.id : r \in Changes}
           B == {r.body : r \in Changes}
           L == UNION {r.locators : r \in Changes}
           P == ((K \X A) \X B) \X SUBSET L
           f == [t \in P |-> [kind |-> t[1][1][1], id |-> t[1][1][2], body |-> t[1][2], locators |-> t[2]]]
           ids == [r \in Changes |-> r.id]
           bodies == [r \in Changes |-> r.body]
           locs == [r \in Changes |-> r.locators]
<1>0. IsFiniteSet(Changes) /\ \A r \in Changes : IsFiniteSet(r.locators)
  BY ReconcileAssumption
<1>1. IsFiniteSet(K)
  <2>1. K = {} \cup {"snapshot"} \cup {"tombstone"} \cup {"root-update-receipt"} \cup {"observation"}
    OBVIOUS
  <2> HIDE DEF K
  <2> QED
    BY <2>1, FS_EmptySet, FS_AddElement
<1>2. IsFiniteSet(A)
  <2>1. IsFiniteSet({ids[r] : r \in Changes})
    BY <1>0, ImageIsFinite
  <2> QED
    BY <2>1
<1>3. IsFiniteSet(B)
  <2>1. IsFiniteSet({bodies[r] : r \in Changes})
    BY <1>0, ImageIsFinite
  <2> QED
    BY <2>1
<1>4. IsFiniteSet(SUBSET L)
  <2>1. IsFiniteSet({locs[r] : r \in Changes})
    BY <1>0, ImageIsFinite
  <2>2. \A l \in {locs[r] : r \in Changes} : IsFiniteSet(l)
    BY <1>0
  <2>3. L = UNION {locs[r] : r \in Changes}
    OBVIOUS
  <2> HIDE DEF L, locs
  <2>4. IsFiniteSet(L)
    BY <2>1, <2>2, <2>3, FS_UNION
  <2> QED
    BY <2>4, FS_SUBSET
<1>5. IsFiniteSet(P)
  <2> HIDE DEF K, A, B, L
  <2>1. IsFiniteSet(K \X A)
    BY <1>1, <1>2, FS_Product
  <2>2. IsFiniteSet((K \X A) \X B)
    BY <1>3, <2>1, FS_Product
  <2> QED
    BY <1>4, <2>2, FS_Product
<1>6. Record \subseteq {f[t] : t \in P}
  <2> SUFFICES ASSUME NEW r \in Record PROVE \E t \in P : f[t] = r
    OBVIOUS
  <2> DEFINE t == <<<<<<r.kind, r.id>>, r.body>>, r.locators>>
  <2>1. t \in P
    BY DEF Record
  <2>2. f[t] = r
    BY <2>1 DEF Record
  <2> QED
    BY <2>1, <2>2
<1> HIDE DEF P, f
<1>7. IsFiniteSet({f[t] : t \in P})
  BY <1>5, ImageIsFinite
<1> QED
  BY <1>6, <1>7, FS_Subset

LEMMA LocatorsAreFinite ==
  ASSUME NEW r \in Record
  PROVE  IsFiniteSet(r.locators)
<1> DEFINE locs == [q \in Changes |-> q.locators]
<1>1. IsFiniteSet({locs[q] : q \in Changes}) /\ \A l \in {locs[q] : q \in Changes} : IsFiniteSet(l)
  BY ReconcileAssumption, ImageIsFinite
<1>2. r.locators \subseteq UNION {locs[q] : q \in Changes}
  BY DEF Record
<1> HIDE DEF locs
<1>3. IsFiniteSet(UNION {locs[q] : q \in Changes})
  BY <1>1, FS_UNION
<1> QED
  BY <1>2, <1>3, FS_Subset

LEMMA CatalogIs ==
  ASSUME NEW catalog \in Catalog
  PROVE  /\ catalog.records \subseteq Record /\ IsFiniteSet(catalog.records)
         /\ catalog.parents \subseteq Revisions /\ IsFiniteSet(catalog.parents)
<1>1. catalog.records \in SUBSET Record /\ catalog.parents \in SUBSET Revisions
  BY DEF Catalog
<1> QED
  BY <1>1, RecordsAreFinite, GraphAssumption, FS_Subset

LEMMA InputsAreFinite == IsFiniteSet(Input)
<1> DEFINE P == (SUBSET Revisions) \X SUBSET Record
           c == [t \in P |-> [parents |-> t[1], records |-> t[2]]]
           Q == Revisions \X Catalog
           f == [t \in Q |-> [id |-> t[1], catalog |-> t[2]]]
<1>1. IsFiniteSet(P)
  BY RecordsAreFinite, GraphAssumption, FS_SUBSET, FS_Product
<1>2. Catalog \subseteq {c[t] : t \in P}
  <2> SUFFICES ASSUME NEW x \in Catalog PROVE \E t \in P : c[t] = x
    OBVIOUS
  <2>1. <<x.parents, x.records>> \in P /\ c[<<x.parents, x.records>>] = x
    BY DEF Catalog
  <2> QED
    BY <2>1
<1>3. IsFiniteSet({c[t] : t \in P})
  <2> HIDE DEF P, c
  <2> QED
    BY <1>1, ImageIsFinite
<1> HIDE DEF P, c
<1>4. IsFiniteSet(Q)
  <2>1. IsFiniteSet(Catalog)
    BY <1>2, <1>3, FS_Subset
  <2> QED
    BY <2>1, GraphAssumption, FS_Product
<1>5. Input \subseteq {f[t] : t \in Q}
  <2> SUFFICES ASSUME NEW x \in Input PROVE \E t \in Q : f[t] = x
    OBVIOUS
  <2>1. <<x.id, x.catalog>> \in Q /\ f[<<x.id, x.catalog>>] = x
    BY DEF Input
  <2> QED
    BY <2>1
<1> HIDE DEF Q, f
<1>6. IsFiniteSet({f[t] : t \in Q})
  BY <1>4, ImageIsFinite
<1> QED
  BY <1>5, <1>6, FS_Subset

-----------------------------------------------------------------------------
(* Views: what becomes of a record.                                        *)

Claimed(R, r) == UNION {q.locators : q \in {q \in R : SameClaim(q, r)}}
View(R, r)    == IF r.kind = "snapshot" THEN [r EXCEPT !.locators = Claimed(R, r)] ELSE r

LEMMA ViewsAre ==
  ASSUME NEW R
  PROVE  Views(R) = {View(R, r) : r \in R}
  BY DEF Views, View, Claimed

LEMMA ViewIs ==
  ASSUME NEW R \in SUBSET Record, NEW r \in R
  PROVE  /\ View(R, r) \in Record /\ SameClaim(View(R, r), r)
         /\ r.kind # "snapshot" => View(R, r) = r
         /\ r.kind = "snapshot" => View(R, r).locators = Claimed(R, r)
         /\ r.locators \subseteq View(R, r).locators
<1>1. r \in Record /\ Claimed(R, r) \in SUBSET UNION {q.locators : q \in Changes}
  BY DEF Record, Claimed
<1>2. r.locators \subseteq Claimed(R, r)
  BY DEF SameClaim, Claimed
<1>3. CASE r.kind = "snapshot"
  <2>1. View(R, r) = [r EXCEPT !.locators = Claimed(R, r)]
    BY <1>3 DEF View
  <2> QED
    BY <1>1, <1>2, <1>3, <2>1 DEF Record, SameClaim
<1>4. CASE r.kind # "snapshot"
  BY <1>1, <1>4 DEF View, SameClaim
<1> QED
  BY <1>3, <1>4

(* Snapshots that make the same claim become one.                          *)
LEMMA ViewsOfOneClaim ==
  ASSUME NEW R \in SUBSET Record, NEW r \in R, NEW q \in R, r.kind = "snapshot", SameClaim(r, q)
  PROVE  View(R, r) = View(R, q)
<1>1. q.kind = "snapshot"
  BY DEF SameClaim
<1>2. Claimed(R, r) = Claimed(R, q)
  <2>1. {s \in R : SameClaim(s, r)} = {s \in R : SameClaim(s, q)}
    BY DEF SameClaim
  <2> QED
    BY <2>1 DEF Claimed
<1>3. View(R, r).locators = View(R, q).locators
  BY <1>1, <1>2, ViewIs
<1>4. /\ View(R, r) \in Record /\ SameClaim(View(R, r), r)
      /\ View(R, q) \in Record /\ SameClaim(View(R, q), q)
  BY ViewIs
<1> QED
  BY <1>3, <1>4 DEF Record, SameClaim

LEMMA ViewsType ==
  ASSUME NEW R \in SUBSET Record
  PROVE  Views(R) \in SUBSET Record
  BY ViewsAre, ViewIs

(* Looking twice changes nothing.                                          *)
LEMMA ViewsOnce ==
  ASSUME NEW R \in SUBSET Record
  PROVE  Views(Views(R)) = Views(R)
<1> DEFINE V == Views(R)
<1>1. V \in SUBSET Record /\ V = {View(R, r) : r \in R} /\ Views(V) = {View(V, v) : v \in V}
  BY ViewsType, ViewsAre
<1> HIDE DEF V
<1>2. ASSUME NEW v \in V PROVE View(V, v) = v
  <2>1. PICK r \in R : v = View(R, r)
    BY <1>1
  <2>2. CASE v.kind # "snapshot"
    BY <1>1, <2>2, ViewIs
  <2>3. CASE v.kind = "snapshot"
    <3>1. SameClaim(v, r) /\ r.kind = "snapshot"
      BY <2>1, <2>3, ViewIs DEF SameClaim
    <3>2. ASSUME NEW u \in V, SameClaim(u, v) PROVE u = v
      <4>1. PICK q \in R : u = View(R, q)
        BY <1>1
      <4>2. SameClaim(u, q)
        BY <4>1, ViewIs
      <4>3. SameClaim(r, q)
        BY <3>1, <3>2, <4>2 DEF SameClaim
      <4> QED
        BY <2>1, <3>1, <4>1, <4>3, ViewsOfOneClaim
    <3>3. Claimed(V, v) = v.locators
      <4>1. {u \in V : SameClaim(u, v)} = {v}
        BY <3>2 DEF SameClaim
      <4> QED
        BY <4>1 DEF Claimed
    <3>4. View(V, v).locators = v.locators
      BY <1>1, <2>3, <3>3, ViewIs
    <3>5. View(V, v) \in Record /\ SameClaim(View(V, v), v) /\ v \in Record
      BY <1>1, ViewIs
    <3> QED
      BY <3>4, <3>5 DEF Record, SameClaim
  <2> QED
    BY <2>2, <2>3
<1>3. Views(V) = V
  <2>1. \A v \in V : View(V, v) = v
    BY <1>2
  <2>2. {View(V, v) : v \in V} = V
    BY <2>1
  <2> QED
    BY <1>1, <2>2
<1> QED
  BY <1>3 DEF V

-----------------------------------------------------------------------------
(* What a device hands over.                                               *)

(* Nothing fails in a reconciliation that is accepted, and one that ends   *)
(* with a REFERENCE has passed all that comes before.                      *)
LEMMA OutcomeIs ==
  ASSUME NEW I
  PROVE  /\ Outcome(I) \in {"accepted", "REFERENCE"} =>
              /\ ~CountRefused(I) /\ ~TwoPayloads(I) /\ ~(Sources(I) > Budget) /\ ~CircularInputs(I)
              /\ ~OverLimit(Union(I).records, Union(I).parents) /\ ~(Spent(I) > Budget)
         /\ Outcome(I) = "REFERENCE" => Conflicts(I) = {} /\ ~Parses(Union(I))
<1> DEFINE checks == <<
      Check(CountRefused(I), "LIMIT"),
      Check(TwoPayloads(I), "CONFLICT"),
      Check(Sources(I) > Budget, "LIMIT"),
      Check(CircularInputs(I), "INPUT"),
      Check(OverLimit(Union(I).records, Union(I).parents), "LIMIT"),
      Check(Spent(I) > Budget, "LIMIT"),
      Check(Conflicts(I) = {} /\ ~Parses(Union(I)), "REFERENCE")>>
<1>1. DOMAIN checks = 1..7 /\ 7 \in Nat
  OBVIOUS
<1>2. (checks[1].fails <=> CountRefused(I)) /\ checks[1].code = "LIMIT"
  BY DEF Check
<1>3. (checks[2].fails <=> TwoPayloads(I)) /\ checks[2].code = "CONFLICT"
  BY DEF Check
<1>4. (checks[3].fails <=> Sources(I) > Budget) /\ checks[3].code = "LIMIT"
  BY DEF Check
<1>5. (checks[4].fails <=> CircularInputs(I)) /\ checks[4].code = "INPUT"
  BY DEF Check
<1>6. (checks[5].fails <=> OverLimit(Union(I).records, Union(I).parents)) /\ checks[5].code = "LIMIT"
  BY DEF Check
<1>7. (checks[6].fails <=> Spent(I) > Budget) /\ checks[6].code = "LIMIT"
  BY DEF Check
<1>8. (checks[7].fails <=> Conflicts(I) = {} /\ ~Parses(Union(I))) /\ checks[7].code = "REFERENCE"
  BY DEF Check
<1>9. Outcome(I) = FirstFailing(checks)
  BY DEF Outcome
<1> HIDE DEF checks
<1>10. \/ Outcome(I) = "accepted" /\ \A i \in 1..7 : ~checks[i].fails
       \/ \E i \in 1..7 : checks[i].fails /\ Outcome(I) = checks[i].code
                           /\ \A j \in 1..(i - 1) : ~checks[j].fails
  <2>1. ASSUME NEW n \in Nat, DOMAIN checks = 1..n
        PROVE  \/ FirstFailing(checks) = "accepted" /\ \A i \in 1..n : ~checks[i].fails
               \/ \E i \in 1..n : checks[i].fails /\ FirstFailing(checks) = checks[i].code
                                   /\ \A j \in 1..(i - 1) : ~checks[j].fails
    BY <2>1, FirstFailingCode, Zenon
  <2> QED
    BY <1>1, <1>9, <2>1
<1>11. \A i \in 1..7 : i = 1 \/ i = 2 \/ i = 3 \/ i = 4 \/ i = 5 \/ i = 6 \/ i = 7
  OBVIOUS
<1>12. \A i \in 1..7 : checks[i].code \in {"accepted", "REFERENCE"} => i = 7 /\ checks[i].code = "REFERENCE"
  BY <1>2, <1>3, <1>4, <1>5, <1>6, <1>7, <1>8, <1>11
<1>13. Outcome(I) \in {"accepted", "REFERENCE"} => \A i \in 1..6 : ~checks[i].fails
  <2>1. \A i \in 1..6 : i \in 1..7 /\ i \in 1..(7 - 1)
    OBVIOUS
  <2> QED
    BY <1>10, <1>12, <2>1
<1>14. Outcome(I) = "REFERENCE" => checks[7].fails
  BY <1>10, <1>12
<1>15. 1 \in 1..6 /\ 2 \in 1..6 /\ 3 \in 1..6 /\ 4 \in 1..6 /\ 5 \in 1..6 /\ 6 \in 1..6
  OBVIOUS
<1> QED
  BY <1>2, <1>3, <1>4, <1>5, <1>6, <1>7, <1>8, <1>13, <1>14, <1>15

LEMMA InputIs ==
  ASSUME ReconcileInv, NEW w \in Devices
  PROVE  /\ inputs[w] \subseteq Input /\ IsFiniteSet(inputs[w])
         /\ \A i \in inputs[w] :
              /\ i.id \in DOMAIN history /\ i.id \in Revisions /\ i.catalog \in Catalog /\ Parses(i.catalog)
              /\ \A r \in i.catalog.records : r.kind # "snapshot" => r \in Changes
<1>1. inputs[w] \subseteq Input
  BY DEF ReconcileInv, TypeOK
<1>2. IsFiniteSet(inputs[w])
  BY <1>1, InputsAreFinite, FS_Subset
<1> QED
  BY <1>1, <1>2 DEF ReconcileInv, Genuine, Published, Input

(* All records at hand, before and after snapshots are put together.       *)
AllOf(I) == UNION {i.catalog.records : i \in I}

LEMMA AllIs ==
  ASSUME NEW I \in SUBSET Input
  PROVE  /\ AllOf(I) \in SUBSET Record /\ IsFiniteSet(AllOf(I))
         /\ Union(I).records = Views(AllOf(I)) /\ Union(I).parents = RevisionHeads(Nodes(I))
         /\ Union(I).records \in SUBSET Record /\ IsFiniteSet(Union(I).records)
<1>1. AllOf(I) \in SUBSET Record
  BY CatalogIs DEF AllOf, Input
<1>2. Union(I).records = Views(AllOf(I)) /\ Union(I).parents = RevisionHeads(Nodes(I))
  BY DEF Union, AllOf
<1>3. Union(I).records \in SUBSET Record
  BY <1>1, <1>2, ViewsType
<1>4. IsFiniteSet(AllOf(I)) /\ IsFiniteSet(Union(I).records)
  BY <1>1, <1>3, RecordsAreFinite, FS_Subset
<1> QED
  BY <1>1, <1>2, <1>3, <1>4

LEMMA NodesAre ==
  ASSUME NEW I \in SUBSET Input
  PROVE  /\ DOMAIN Nodes(I) = {i.id : i \in I} /\ DOMAIN Nodes(I) \subseteq Revisions
         /\ IsFiniteSet(DOMAIN Nodes(I))
         /\ \A id \in DOMAIN Nodes(I) : \E i \in I :
              i.id = id /\ Nodes(I)[id] = i.catalog.parents /\ RecordsAt(I, id) = i.catalog.records
         /\ \A id \in DOMAIN Nodes(I) : Nodes(I)[id] \subseteq Revisions
<1>1. DOMAIN Nodes(I) = {i.id : i \in I}
  BY DEF Nodes
<1>2. DOMAIN Nodes(I) \subseteq Revisions
  BY <1>1 DEF Input
<1>3. \A id \in DOMAIN Nodes(I) : \E i \in I :
              i.id = id /\ Nodes(I)[id] = i.catalog.parents /\ RecordsAt(I, id) = i.catalog.records
  <2> TAKE id \in DOMAIN Nodes(I)
  <2> DEFINE i == CHOOSE i \in I : i.id = id
  <2>1. i \in I /\ i.id = id
    BY <1>1
  <2>2. Nodes(I)[id] = i.catalog.parents /\ RecordsAt(I, id) = i.catalog.records
    BY <1>1 DEF Nodes, RecordsAt
  <2> HIDE DEF i
  <2> QED
    BY <2>1, <2>2
<1>4. IsFiniteSet(DOMAIN Nodes(I))
  BY <1>2, GraphAssumption, FS_Subset
<1>5. \A id \in DOMAIN Nodes(I) : Nodes(I)[id] \subseteq Revisions
  BY <1>3, CatalogIs DEF Input
<1> QED
  BY <1>1, <1>2, <1>3, <1>4, <1>5

(* One digest, one payload: what is said of a revision is what it says.    *)
LEMMA OneEach ==
  ASSUME NEW I \in SUBSET Input, ~TwoPayloads(I), NEW i \in I
  PROVE  /\ i.id \in DOMAIN Nodes(I)
         /\ Nodes(I)[i.id] = i.catalog.parents /\ RecordsAt(I, i.id) = i.catalog.records
<1>1. i.id \in DOMAIN Nodes(I)
  <2>1. DOMAIN Nodes(I) = {j.id : j \in I}
    BY NodesAre
  <2> QED
    BY <2>1
<1>2. PICK j \in I : j.id = i.id /\ Nodes(I)[i.id] = j.catalog.parents /\ RecordsAt(I, i.id) = j.catalog.records
  BY <1>1, NodesAre
<1>3. j = i
  BY <1>2 DEF TwoPayloads
<1> QED
  BY <1>1, <1>2, <1>3

(* The conflicts about a package, taken apart.                             *)
LiveHeads(I, p) == {h \in RevisionHeads(Nodes(I)) : p \in LiveAt(I, h)}
DeadHeads(I, p) == {h \in RevisionHeads(Nodes(I)) : p \in Tombstoned(RecordsAt(I, h))}
Buried(I, p) ==
  {r \in UNION {RecordsAt(I, h) : h \in LiveHeads(I, p)} : r.kind = "snapshot" /\ r.id = p}
    \cup {r \in UNION {RecordsAt(I, h) : h \in DeadHeads(I, p)} : r.kind = "tombstone" /\ r.body = p}
Packages(I) ==
  {p \in {r.id : r \in Changes} :
     \E a \in LiveHeads(I, p), b \in DeadHeads(I, p) : KnownIncomparable(a, b, Nodes(I))}
Conflict(I, p) == [kind |-> "tombstone-live", id |-> p, claims |-> Buried(I, p)]

LEMMA TombstoneLiveIs ==
  ASSUME NEW I
  PROVE  TombstoneLive(I) = {Conflict(I, p) : p \in Packages(I)}
  BY DEF TombstoneLive, Packages, Conflict, Buried, LiveHeads, DeadHeads

(* Two newest revisions that disagree about a package.                     *)
Disagree(I, p, a, b) ==
  /\ a \in RevisionHeads(Nodes(I)) /\ b \in RevisionHeads(Nodes(I))
  /\ p \in LiveAt(I, a) /\ p \in Tombstoned(RecordsAt(I, b))
  /\ KnownIncomparable(a, b, Nodes(I))

LEMMA ConflictMeans ==
  ASSUME NEW I, NEW c \in TombstoneLive(I)
  PROVE  c.id \in {r.id : r \in Changes} /\ \E a, b : Disagree(I, c.id, a, b)
<1>1. PICK p \in Packages(I) : c = Conflict(I, p)
  BY TombstoneLiveIs
<1>2. c.id = p
  BY <1>1 DEF Conflict
<1>3. p \in {r.id : r \in Changes}
      /\ \E a \in LiveHeads(I, p), b \in DeadHeads(I, p) : KnownIncomparable(a, b, Nodes(I))
  BY DEF Packages
<1>4. PICK a \in LiveHeads(I, p) : \E b \in DeadHeads(I, p) : KnownIncomparable(a, b, Nodes(I))
  BY <1>3
<1>5. PICK b \in DeadHeads(I, p) : KnownIncomparable(a, b, Nodes(I))
  BY <1>4
<1>6. Disagree(I, p, a, b)
  BY <1>4, <1>5 DEF Disagree, LiveHeads, DeadHeads
<1> QED
  BY <1>2, <1>3, <1>6

LEMMA ConflictIsFound ==
  ASSUME NEW I, NEW p \in {r.id : r \in Changes}, NEW a, NEW b, Disagree(I, p, a, b)
  PROVE  \E c \in TombstoneLive(I) : c.id = p
<1>1. a \in LiveHeads(I, p) /\ b \in DeadHeads(I, p) /\ KnownIncomparable(a, b, Nodes(I))
  BY DEF Disagree, LiveHeads, DeadHeads
<1>2. p \in Packages(I)
  BY <1>1 DEF Packages
<1>3. Conflict(I, p) \in TombstoneLive(I) /\ Conflict(I, p).id = p
  BY <1>2, TombstoneLiveIs DEF Conflict
<1> QED
  BY <1>3

-----------------------------------------------------------------------------
(* The invariant.                                                          *)

LEMMA ReconcileInit ==
  ASSUME Init
  PROVE  ReconcileInv
<1>1. DOMAIN history = {}
  BY DEF Init
<1>2. inputs \in [Devices -> SUBSET Input] /\ \A w \in Devices : inputs[w] = {}
  BY DEF Init
<1>3. mislabels \in 0..MaxMislabels
  BY ReconcileAssumption DEF Init
<1> QED
  BY <1>1, <1>2, <1>3 DEF ReconcileInv, TypeOK, Published, Genuine

(* What a device goes on from holds nothing but what it has got.           *)
LEMMA BaseIs ==
  ASSUME ReconcileInv, NEW w \in Devices, NEW base \in Base(w)
  PROVE  /\ base \in Catalog
         /\ \A r \in base.records : r.kind # "snapshot" => r \in Changes
<1> DEFINE I == inputs[w]
           disputed == {c.id : c \in TombstoneLive(I)}
           none == [parents |-> {}, records |-> {}]
           less == [Union(I) EXCEPT !.records = {r \in @ : r.kind = "tombstone" => r.body \notin disputed}]
<1>1. base = none \/ base = Union(I) \/ base = less
  BY DEF Base
<1>2. I \in SUBSET Input
  BY InputIs
<1>3. /\ Union(I).records \in SUBSET Record /\ Union(I).parents = RevisionHeads(Nodes(I))
      /\ Union(I).records = Views(AllOf(I)) /\ AllOf(I) \in SUBSET Record
  BY <1>2, AllIs
<1>4. Union(I).parents \subseteq Revisions
  BY <1>2, <1>3, NodesAre DEF RevisionHeads
<1>5. Union(I) = [parents |-> Union(I).parents, records |-> Union(I).records]
  BY DEF Union
<1>6. Union(I) \in Catalog
  BY <1>3, <1>4, <1>5 DEF Catalog
<1>7. \A r \in Union(I).records : r.kind # "snapshot" => r \in Changes
  <2> SUFFICES ASSUME NEW v \in Union(I).records, v.kind # "snapshot" PROVE v \in Changes
    OBVIOUS
  <2>1. PICK r \in AllOf(I) : v = View(AllOf(I), r)
    BY <1>3, ViewsAre
  <2>2. v = r
    BY <1>3, <2>1, ViewIs DEF SameClaim
  <2>3. PICK i \in I : r \in i.catalog.records
    BY DEF AllOf
  <2> QED
    BY <2>2, <2>3, InputIs
<1>8. less \in Catalog /\ less.records \subseteq Union(I).records
  BY <1>6 DEF Catalog
<1>9. none \in Catalog /\ none.records = {}
  BY DEF Catalog
<1> HIDE DEF none, less, I
<1> QED
  BY <1>1, <1>6, <1>7, <1>8, <1>9

LEMMA PublishKeeps ==
  ASSUME ReconcileInv, NEW w \in Devices, NEW id \in Revisions,
         NEW change \in {{}} \cup {{r} : r \in Changes}, Publish(w, id, change)
  PROVE  ReconcileInv'
<1>1. PICK base \in Base(w) :
        LET catalog == [base EXCEPT !.records = Views(@ \cup change)]
        IN  /\ Parses(catalog)
            /\ history' = [r \in DOMAIN history \cup {id} |-> IF r = id THEN catalog ELSE history[r]]
            /\ Got(w, [id |-> id, catalog |-> catalog])
  BY DEF Publish
<1> DEFINE R == base.records \cup change
           catalog == [base EXCEPT !.records = Views(base.records \cup change)]
           i == [id |-> id, catalog |-> catalog]
<1>2. /\ Parses(catalog)
      /\ history' = [r \in DOMAIN history \cup {id} |-> IF r = id THEN catalog ELSE history[r]]
      /\ inputs' = [inputs EXCEPT ![w] = @ \cup {i}]
  BY <1>1 DEF Got
<1>3. id \notin DOMAIN history /\ mislabels' = mislabels
  BY DEF Publish
<1>4. base \in Catalog /\ \A r \in base.records : r.kind # "snapshot" => r \in Changes
  BY BaseIs
<1>5. change \subseteq Changes /\ R \in SUBSET Record
  BY <1>4, ReconcileAssumption DEF Catalog
<1>6. catalog \in Catalog /\ catalog.records = Views(R)
  BY <1>4, <1>5, ViewsType DEF Catalog
<1>7. \A r \in catalog.records : r.kind # "snapshot" => r \in Changes
  <2> SUFFICES ASSUME NEW v \in Views(R), v.kind # "snapshot" PROVE v \in Changes
    BY <1>6
  <2>1. PICK r \in R : v = View(R, r)
    BY ViewsAre
  <2>2. v = r
    BY <1>5, <2>1, ViewIs DEF SameClaim
  <2> QED
    BY <1>4, <1>5, <2>2
<1>8. Views(catalog.records) = catalog.records
  BY <1>5, <1>6, ViewsOnce
<1>9. ~OverLimit(catalog.records, catalog.parents)
  BY <1>2, <1>8 DEF Parses
<1> HIDE DEF catalog
<1>10. Cardinality(catalog.parents) <= MaxParents
  <2>1. Cardinality(catalog.parents) \in Nat /\ MaxParents \in Nat
    BY <1>6, CatalogIs, FS_CardinalityType, ReconcileAssumption
  <2> QED
    BY <1>9, <2>1 DEF OverLimit
<1>11. \A r \in catalog.records : Cardinality(r.locators) <= MaxLocators
  <2> SUFFICES ASSUME NEW r \in catalog.records PROVE Cardinality(r.locators) <= MaxLocators
    OBVIOUS
  <2>1. CASE r.kind # "snapshot"
    BY <1>7, <2>1, ReconcileAssumption
  <2>2. CASE r.kind = "snapshot"
    <3>1. IsFiniteSet(r.locators)
      BY <1>6, LocatorsAreFinite, CatalogIs
    <3>2. Cardinality(r.locators) \in Nat /\ MaxLocators \in Nat
      BY <3>1, FS_CardinalityType, ReconcileAssumption
    <3> QED
      BY <1>9, <2>2, <3>2 DEF OverLimit
  <2> QED
    BY <2>1, <2>2
<1>12. DOMAIN history' = DOMAIN history \cup {id} /\ history'[id] = catalog
       /\ \A r \in DOMAIN history : history'[r] = history[r]
  BY <1>2, <1>3
<1>13. i \in Input /\ i.id = id /\ i.catalog = catalog
  BY <1>6 DEF Input
<1> HIDE DEF i
<1>14. /\ inputs \in [Devices -> SUBSET Input]
       /\ inputs' \in [Devices -> SUBSET Input]
       /\ \A v \in Devices : \A j \in inputs'[v] : j \in inputs[v] \/ j = i
  BY <1>2, <1>13 DEF ReconcileInv, TypeOK
<1>15. TypeOK'
  BY <1>3, <1>6, <1>10, <1>11, <1>12, <1>14 DEF ReconcileInv, TypeOK
<1>16. Published'
  <2>1. \A r \in DOMAIN history' :
          /\ Parses(history'[r])
          /\ \A q \in history'[r].records : q.kind # "snapshot" => q \in Changes
    BY <1>2, <1>7, <1>12 DEF ReconcileInv, Published
  <2> QED
    BY <2>1 DEF Published, Parses
<1>17. Genuine'
  <2> SUFFICES ASSUME NEW v \in Devices, NEW j \in inputs'[v]
               PROVE  /\ j.id \in DOMAIN history'
                      /\ \E r \in DOMAIN history' : j.catalog = history'[r]
                      /\ mislabels' = 0 => j.catalog = history'[j.id]
    BY DEF Genuine
  <2>1. CASE j \in inputs[v]
    BY <1>3, <1>12, <2>1 DEF ReconcileInv, Genuine
  <2>2. CASE j = i
    BY <1>12, <1>13, <2>2
  <2> QED
    BY <1>14, <2>1, <2>2
<1> QED
  BY <1>15, <1>16, <1>17 DEF ReconcileInv

(* A payload that was published reaches a device.                          *)
LEMMA GotKeeps ==
  ASSUME ReconcileInv, NEW w \in Devices, NEW i, Got(w, i), UNCHANGED history,
         i.id \in DOMAIN history, i \in Input, \E id \in DOMAIN history : i.catalog = history[id],
         mislabels' \in mislabels..MaxMislabels, mislabels' = 0 => i.catalog = history[i.id]
  PROVE  ReconcileInv'
<1>1. /\ inputs \in [Devices -> SUBSET Input] /\ mislabels \in 0..MaxMislabels
      /\ inputs' = [inputs EXCEPT ![w] = @ \cup {i}]
  BY DEF ReconcileInv, TypeOK, Got
<1>2. /\ inputs' \in [Devices -> SUBSET Input]
      /\ \A v \in Devices : \A j \in inputs'[v] : j \in inputs[v] \/ j = i
  BY <1>1
<1>3. mislabels' \in 0..MaxMislabels /\ (mislabels' = 0 => mislabels = 0)
  BY <1>1, ReconcileAssumption
<1>4. TypeOK'
  BY <1>2, <1>3 DEF ReconcileInv, TypeOK
<1>5. Published'
  BY DEF ReconcileInv, Published, Parses
<1>6. Genuine'
  <2> SUFFICES ASSUME NEW v \in Devices, NEW j \in inputs'[v]
               PROVE  /\ j.id \in DOMAIN history
                      /\ \E r \in DOMAIN history : j.catalog = history[r]
                      /\ mislabels' = 0 => j.catalog = history[j.id]
    BY DEF Genuine
  <2>1. CASE j \in inputs[v]
    BY <1>3, <2>1 DEF ReconcileInv, Genuine
  <2>2. CASE j = i
    BY <2>2
  <2> QED
    BY <1>2, <2>1, <2>2
<1> QED
  BY <1>4, <1>5, <1>6 DEF ReconcileInv

LEMMA DeliverKeeps ==
  ASSUME ReconcileInv, NEW w \in Devices, NEW id \in Revisions, Deliver(w, id)
  PROVE  ReconcileInv'
<1> DEFINE i == [id |-> id, catalog |-> history[id]]
<1>1. id \in DOMAIN history /\ Got(w, i) /\ UNCHANGED <<history, mislabels>>
  BY DEF Deliver
<1>2. i \in Input /\ i.id = id /\ i.catalog = history[id]
  BY <1>1 DEF ReconcileInv, TypeOK, Input
<1>3. mislabels' \in mislabels..MaxMislabels
  BY <1>1, ReconcileAssumption DEF ReconcileInv, TypeOK
<1> HIDE DEF i
<1> QED
  BY <1>1, <1>2, <1>3, GotKeeps

LEMMA MislabelKeeps ==
  ASSUME ReconcileInv, NEW w \in Devices, NEW id \in Revisions, NEW label \in Revisions,
         Mislabel(w, id, label)
  PROVE  ReconcileInv'
<1> DEFINE i == [id |-> label, catalog |-> history[id]]
<1>1. /\ id \in DOMAIN history /\ label \in DOMAIN history /\ Got(w, i) /\ UNCHANGED history
      /\ mislabels < MaxMislabels /\ mislabels' = mislabels + 1
  BY DEF Mislabel
<1>2. i \in Input /\ i.id = label /\ i.catalog = history[id]
  BY <1>1 DEF ReconcileInv, TypeOK, Input
<1>3. mislabels' \in mislabels..MaxMislabels /\ mislabels' # 0
  BY <1>1, ReconcileAssumption DEF ReconcileInv, TypeOK
<1> HIDE DEF i
<1> QED
  BY <1>1, <1>2, <1>3, GotKeeps

LEMMA ReconcileStep ==
  ASSUME ReconcileInv, [Next]_vars
  PROVE  ReconcileInv'
<1>1. CASE UNCHANGED vars
  BY <1>1 DEF vars, ReconcileInv, TypeOK, Published, Genuine, Parses
<1>2. CASE Next
  <2>1. PICK w \in Devices, id \in Revisions :
          \/ \E change \in {{}} \cup {{r} : r \in Changes} : Publish(w, id, change)
          \/ Deliver(w, id)
          \/ \E label \in Revisions : Mislabel(w, id, label)
    BY <1>2 DEF Next
  <2>2. CASE \E change \in {{}} \cup {{r} : r \in Changes} : Publish(w, id, change)
    BY <2>2, PublishKeeps
  <2>3. CASE Deliver(w, id)
    BY <2>3, DeliverKeeps
  <2>4. CASE \E label \in Revisions : Mislabel(w, id, label)
    BY <2>4, MislabelKeeps
  <2> QED
    BY <2>1, <2>2, <2>3, <2>4
<1> QED
  BY <1>1, <1>2

LEMMA ReconcileInvariant == Spec => []ReconcileInv
<1> QED
  BY ReconcileInit, ReconcileStep, PTL DEF Spec

(* Published catalogs are within the limits for each of them, and what     *)
(* devices have got is catalogs under digests.                             *)
THEOREM ReconcileTypeCorrect == Spec => []TypeOK
<1>1. ReconcileInv => TypeOK
  BY DEF ReconcileInv
<1> QED
  BY <1>1, ReconcileInvariant, PTL

-----------------------------------------------------------------------------
(* Conflicts about packages.                                               *)

(* What is above a revision as far as one graph goes is above it in a      *)
(* graph that goes as far or farther and says the same of its revisions.   *)
LEMMA LessIsAbove ==
  ASSUME NEW graph, NEW more, IsFiniteSet(DOMAIN graph), IsFiniteSet(DOMAIN more),
         \A id \in DOMAIN graph : id \in DOMAIN more /\ graph[id] = more[id],
         NEW id \in DOMAIN graph
  PROVE  Above(graph, id) \subseteq Above(more, id)
<1> DEFINE S == Above(more, id)
<1>1. more[id] \subseteq S /\ \A s \in S \cap DOMAIN more : more[s] \subseteq S
  BY AboveIs
<1> HIDE DEF S
<1>2. graph[id] \subseteq S /\ \A s \in S \cap DOMAIN graph : graph[s] \subseteq S
  BY <1>1
<1>3. Above(graph, id) \subseteq S
  BY <1>2, AboveLeast
<1> QED
  BY <1>3 DEF S

(* And where all of it is at hand, the graph that goes farther has no more.*)
LEMMA CompleteIsAll ==
  ASSUME NEW graph, NEW more, IsFiniteSet(DOMAIN graph), IsFiniteSet(DOMAIN more),
         \A id \in DOMAIN graph : id \in DOMAIN more /\ graph[id] = more[id],
         NEW id \in DOMAIN graph, ~Incomplete(graph, id)
  PROVE  Above(more, id) \subseteq Above(graph, id)
<1> DEFINE S == Above(graph, id)
<1>1. graph[id] \subseteq S /\ \A s \in S \cap DOMAIN graph : graph[s] \subseteq S
  BY AboveIs
<1>2. S \subseteq DOMAIN graph
  BY DEF Incomplete
<1> HIDE DEF S
<1>3. more[id] \subseteq S /\ \A s \in S \cap DOMAIN more : more[s] \subseteq S
  BY <1>1, <1>2
<1>4. Above(more, id) \subseteq S
  BY <1>3, AboveLeast
<1> QED
  BY <1>4 DEF S

(* Without a mislabelled payload devices have parts of the one history.    *)
LEMMA TrueNodes ==
  ASSUME ReconcileInv, mislabels = 0, NEW w \in Devices
  PROVE  /\ IsFiniteSet(DOMAIN Nodes(inputs[w])) /\ IsFiniteSet(DOMAIN Truth)
         /\ \A id \in DOMAIN Nodes(inputs[w]) :
              id \in DOMAIN Truth /\ Nodes(inputs[w])[id] = Truth[id]
<1>1. inputs[w] \in SUBSET Input
  BY InputIs
<1>2. IsFiniteSet(DOMAIN Nodes(inputs[w]))
  BY <1>1, NodesAre
<1>3. DOMAIN Truth = DOMAIN history /\ DOMAIN history \subseteq Revisions
  BY DEF Truth, ReconcileInv, TypeOK
<1>4. IsFiniteSet(DOMAIN Truth)
  BY <1>3, GraphAssumption, FS_Subset
<1>5. ASSUME NEW id \in DOMAIN Nodes(inputs[w])
      PROVE  id \in DOMAIN Truth /\ Nodes(inputs[w])[id] = Truth[id]
  <2>1. PICK i \in inputs[w] : i.id = id /\ Nodes(inputs[w])[id] = i.catalog.parents
    BY <1>1, NodesAre
  <2>2. id \in DOMAIN history /\ i.catalog = history[id]
    BY <2>1 DEF ReconcileInv, Genuine
  <2> QED
    BY <2>1, <2>2 DEF Truth
<1> QED
  BY <1>2, <1>4, <1>5

LEMMA ReportedAreReal ==
  ASSUME ReconcileInv, NEW w \in Devices, mislabels = 0, NEW c \in TombstoneLive(inputs[w])
  PROVE  \E a, b \in RevisionHeads(Nodes(inputs[w])) :
           /\ c.id \in LiveAt(inputs[w], a) /\ c.id \in Tombstoned(RecordsAt(inputs[w], b))
           /\ a \notin Above(Truth, b) /\ b \notin Above(Truth, a)
<1> DEFINE graph == Nodes(inputs[w])
<1>0. \E a, b : Disagree(inputs[w], c.id, a, b)
  BY ConflictMeans
<1>1. PICK a, b : Disagree(inputs[w], c.id, a, b)
  BY <1>0
<1>2. /\ a \in RevisionHeads(graph) /\ b \in RevisionHeads(graph)
      /\ c.id \in LiveAt(inputs[w], a) /\ c.id \in Tombstoned(RecordsAt(inputs[w], b))
      /\ KnownIncomparable(a, b, graph)
  BY <1>1 DEF Disagree
<1>3. /\ IsFiniteSet(DOMAIN graph) /\ IsFiniteSet(DOMAIN Truth)
      /\ \A id \in DOMAIN graph : id \in DOMAIN Truth /\ graph[id] = Truth[id]
  BY TrueNodes
<1> HIDE DEF graph
<1>4. a \in DOMAIN graph /\ b \in DOMAIN graph
  BY <1>2 DEF RevisionHeads
<1>5. /\ b \notin Ancestors(graph, a) /\ a \notin Ancestors(graph, b)
      /\ ~Incomplete(graph, a) /\ ~Incomplete(graph, b)
  BY <1>2 DEF KnownIncomparable
<1>6. Above(Truth, a) \subseteq Above(graph, a) /\ Above(Truth, b) \subseteq Above(graph, b)
  BY <1>3, <1>4, <1>5, CompleteIsAll
<1>7. a \notin Above(Truth, b) /\ b \notin Above(Truth, a)
  BY <1>4, <1>5, <1>6 DEF Ancestors
<1> QED
  BY <1>2, <1>7 DEF graph

(* A tombstone-live conflict is one: some package is listed by one newest  *)
(* revision at hand and buried by another, and in the whole history        *)
(* neither knew of the other.                                              *)
THEOREM ReportedConflictsAreReal == Spec => []ConflictsAreReal
<1>1. ReconcileInv => ConflictsAreReal
  BY ReportedAreReal DEF ConflictsAreReal
<1> QED
  BY <1>1, ReconcileInvariant, PTL

LEMMA NothingMissing ==
  ASSUME NEW graph, MissingParents(graph) = {}
  PROVE  \A id \in DOMAIN graph : graph[id] \subseteq DOMAIN graph
<1> DEFINE U == UNION {graph[id] : id \in DOMAIN graph}
<1>1. U \subseteq DOMAIN graph
  <2>1. U \ DOMAIN graph = {}
    BY DEF MissingParents
  <2> HIDE DEF U
  <2> QED
    BY <2>1
<1>2. \A id \in DOMAIN graph : graph[id] \subseteq U
  OBVIOUS
<1> HIDE DEF U
<1> QED
  BY <1>1, <1>2

LEMMA RealAreFound ==
  ASSUME ReconcileInv, NEW w \in Devices, mislabels = 0, Reconciles(inputs[w]),
         MissingParents(Nodes(inputs[w])) = {}, NEW i \in inputs[w], NEW j \in inputs[w],
         NEW s \in OfKind(i.catalog.records, "snapshot"),
         \A k \in inputs[w] : i.id \notin Above(Truth, k.id) /\ j.id \notin Above(Truth, k.id),
         s.id \notin Tombstoned(i.catalog.records), s.id \in Tombstoned(j.catalog.records)
  PROVE  \E c \in TombstoneLive(inputs[w]) : c.id = s.id
<1> DEFINE I == inputs[w]
           graph == Nodes(I)
<1>1. I \in SUBSET Input /\ ~TwoPayloads(I)
  BY InputIs, OutcomeIs DEF Reconciles
<1>2. /\ IsFiniteSet(DOMAIN graph) /\ IsFiniteSet(DOMAIN Truth)
      /\ \A id \in DOMAIN graph : id \in DOMAIN Truth /\ graph[id] = Truth[id]
  BY TrueNodes
<1>3. /\ i.id \in DOMAIN graph /\ RecordsAt(I, i.id) = i.catalog.records
      /\ j.id \in DOMAIN graph /\ RecordsAt(I, j.id) = j.catalog.records
  BY <1>1, OneEach
<1>4. DOMAIN graph = {k.id : k \in I}
  BY <1>1, NodesAre
<1>5. MissingParents(graph) = {} /\ i \in I /\ j \in I
      /\ \A k \in I : i.id \notin Above(Truth, k.id) /\ j.id \notin Above(Truth, k.id)
  OBVIOUS
<1> HIDE DEF graph, I
<1>6. i.id \in RevisionHeads(graph) /\ j.id \in RevisionHeads(graph)
  <2> SUFFICES ASSUME NEW child \in DOMAIN graph PROVE i.id \notin graph[child] /\ j.id \notin graph[child]
    BY <1>3 DEF RevisionHeads
  <2>1. Truth[child] \subseteq Above(Truth, child) /\ graph[child] = Truth[child]
    BY <1>2, AboveIs
  <2> QED
    BY <1>4, <1>5, <2>1
<1>7. s.id \in LiveAt(I, i.id) /\ s.id \in Tombstoned(RecordsAt(I, j.id))
  BY <1>3 DEF LiveAt
<1>8. i.id # j.id
  <2>1. i # j
    OBVIOUS
  <2> QED
    BY <1>1, <1>5, <2>1 DEF TwoPayloads
<1>9. ASSUME NEW id \in DOMAIN graph
      PROVE  ~Incomplete(graph, id) /\ Above(graph, id) \subseteq Above(Truth, id)
  <2>1. \A k \in DOMAIN graph : graph[k] \subseteq DOMAIN graph
    BY <1>5, NothingMissing
  <2>2. Above(graph, id) \subseteq DOMAIN graph
    BY <1>2, <2>1, AboveLeast
  <2>3. Above(graph, id) \subseteq Above(Truth, id)
    BY <1>2, LessIsAbove
  <2> QED
    BY <2>2, <2>3 DEF Incomplete
<1>10. KnownIncomparable(i.id, j.id, graph)
  BY <1>3, <1>5, <1>8, <1>9 DEF KnownIncomparable, Ancestors
<1>11. s.id \in {r.id : r \in Changes}
  <2>1. i.catalog.records \subseteq Record
    BY <1>1, <1>5, CatalogIs DEF Input
  <2> QED
    BY <2>1 DEF OfKind, Record
<1>12. Disagree(I, s.id, i.id, j.id)
  BY <1>6, <1>7, <1>10 DEF Disagree, graph
<1> QED
  BY <1>11, <1>12, ConflictIsFound DEF I

(* All conflicts are found once a device has all that came before: where   *)
(* two newest revisions disagree about a package, there is a conflict.     *)
THEOREM RealConflictsAreFound == Spec => []ConflictsAreFound
<1>1. ReconcileInv => ConflictsAreFound
  BY RealAreFound DEF ConflictsAreFound
<1> QED
  BY <1>1, ReconcileInvariant, PTL

(* What arrives only takes a conflict away if it names one of its sides.   *)
Sides(I, p) == {h \in RevisionHeads(Nodes(I)) : p \in LiveAt(I, h) \cup Tombstoned(RecordsAt(I, h))}

LEMMA MoreInputsKeep ==
  ASSUME NEW I \in SUBSET Input, NEW J \in SUBSET Input, I \subseteq J,
         ~TwoPayloads(I), ~TwoPayloads(J), NEW c \in TombstoneLive(I),
         \A i \in J \ I : i.catalog.parents \cap Sides(I, c.id) = {}
  PROVE  \E d \in TombstoneLive(J) : d.id = c.id
<1> DEFINE graph == Nodes(I)
           more == Nodes(J)
           p == c.id
<1>0. p \in {r.id : r \in Changes} /\ \E a, b : Disagree(I, p, a, b)
  BY ConflictMeans
<1>1. PICK a, b : Disagree(I, p, a, b)
  BY <1>0
<1>2. /\ a \in RevisionHeads(graph) /\ b \in RevisionHeads(graph)
      /\ p \in LiveAt(I, a) /\ p \in Tombstoned(RecordsAt(I, b))
      /\ KnownIncomparable(a, b, graph)
  BY <1>1 DEF Disagree
<1>3. a \in Sides(I, p) /\ b \in Sides(I, p)
  BY <1>2 DEF Sides
<1>4. /\ IsFiniteSet(DOMAIN graph) /\ IsFiniteSet(DOMAIN more)
      /\ DOMAIN graph = {i.id : i \in I} /\ DOMAIN more = {i.id : i \in J}
  BY NodesAre
<1>5. ASSUME NEW id \in DOMAIN graph
      PROVE  id \in DOMAIN more /\ graph[id] = more[id] /\ RecordsAt(I, id) = RecordsAt(J, id)
  <2>1. PICK i \in I : i.id = id
    BY <1>4
  <2>2. i \in J
    BY <2>1
  <2>3. graph[i.id] = i.catalog.parents /\ RecordsAt(I, i.id) = i.catalog.records
    BY <2>1, OneEach
  <2>4. more[i.id] = i.catalog.parents /\ RecordsAt(J, i.id) = i.catalog.records /\ i.id \in DOMAIN more
    BY <2>2, OneEach
  <2> QED
    BY <2>1, <2>3, <2>4
<1>6. ASSUME NEW h \in RevisionHeads(graph), h \in Sides(I, p)
      PROVE  h \in RevisionHeads(more)
  <2>1. h \in DOMAIN graph /\ h \in DOMAIN more /\ \A child \in DOMAIN graph : h \notin graph[child]
    BY <1>5 DEF RevisionHeads
  <2>2. ASSUME NEW child \in DOMAIN more PROVE h \notin more[child]
    <3>1. CASE child \in DOMAIN graph
      BY <1>5, <2>1, <3>1
    <3>2. CASE child \notin DOMAIN graph
      <4>1. PICK i \in J : i.id = child
        BY <1>4
      <4>2. i \in J \ I
        BY <1>4, <3>2, <4>1
      <4>3. more[i.id] = i.catalog.parents
        BY <4>1, OneEach
      <4> QED
        BY <1>6, <4>1, <4>2, <4>3
    <3> QED
      BY <3>1, <3>2
  <2> QED
    BY <2>1, <2>2 DEF RevisionHeads
<1>7. a \in DOMAIN graph /\ b \in DOMAIN graph
  BY <1>2 DEF RevisionHeads
<1>8. p \in LiveAt(J, a) /\ p \in Tombstoned(RecordsAt(J, b))
  BY <1>2, <1>5, <1>7 DEF LiveAt
<1>9. a \in RevisionHeads(more) /\ b \in RevisionHeads(more)
  BY <1>2, <1>3, <1>6
<1>10. ASSUME NEW x \in DOMAIN graph, ~Incomplete(graph, x)
       PROVE  Above(more, x) \subseteq Above(graph, x) /\ ~Incomplete(more, x)
  <2> HIDE DEF graph, more
  <2>1. Above(more, x) \subseteq Above(graph, x)
    BY <1>4, <1>5, <1>10, CompleteIsAll
  <2>2. Above(graph, x) \subseteq DOMAIN graph /\ DOMAIN graph \subseteq DOMAIN more
    BY <1>5, <1>10 DEF Incomplete
  <2> QED
    BY <2>1, <2>2 DEF Incomplete
<1> HIDE DEF graph, more, p
<1>11. KnownIncomparable(a, b, more)
  <2>1. /\ a # b /\ b \notin Ancestors(graph, a) /\ a \notin Ancestors(graph, b)
        /\ ~Incomplete(graph, a) /\ ~Incomplete(graph, b)
    BY <1>2 DEF KnownIncomparable
  <2>2. Above(more, a) \subseteq Above(graph, a) /\ Above(more, b) \subseteq Above(graph, b)
        /\ ~Incomplete(more, a) /\ ~Incomplete(more, b)
    BY <1>7, <1>10, <2>1
  <2> QED
    BY <1>7, <2>1, <2>2 DEF KnownIncomparable, Ancestors
<1>12. Disagree(J, p, a, b)
  BY <1>8, <1>9, <1>11 DEF Disagree, more
<1> QED
  BY <1>0, <1>12, ConflictIsFound DEF p

LEMMA NothingIsReturned ==
  ASSUME ReconcileInv, ReconcileInv', [Next]_vars, NEW w \in Devices
  PROVE  inputs[w] \subseteq inputs'[w]
<1>1. inputs \in [Devices -> SUBSET Input]
  BY DEF ReconcileInv, TypeOK
<1>2. ASSUME NEW v \in Devices, NEW i, Got(v, i) PROVE inputs[w] \subseteq inputs'[w]
  BY <1>1, <1>2 DEF Got
<1>3. CASE UNCHANGED vars
  BY <1>3 DEF vars
<1>4. CASE Next
  <2>1. PICK v \in Devices, id \in Revisions :
          \/ \E change \in {{}} \cup {{r} : r \in Changes} : Publish(v, id, change)
          \/ Deliver(v, id)
          \/ \E label \in Revisions : Mislabel(v, id, label)
    BY <1>4 DEF Next
  <2>2. ASSUME NEW change, Publish(v, id, change) PROVE \E i : Got(v, i)
    BY <2>2 DEF Publish
  <2>3. Deliver(v, id) => \E i : Got(v, i)
    BY DEF Deliver
  <2>4. ASSUME NEW label, Mislabel(v, id, label) PROVE \E i : Got(v, i)
    BY <2>4 DEF Mislabel
  <2> QED
    BY <1>2, <2>1, <2>2, <2>3, <2>4
<1> QED
  BY <1>3, <1>4

(* A conflict stays until a revision arrives whose author had seen one of  *)
(* its sides: no other one, in whatever order they arrive, takes it away.  *)
THEOREM ConflictsStayThere == Spec => ConflictsStay
<1> DEFINE A == \A w \in Devices : \A c \in TombstoneLive(inputs[w]) :
                  LET I == inputs[w]
                      sides == {h \in RevisionHeads(Nodes(I)) :
                                  c.id \in LiveAt(I, h) \cup Tombstoned(RecordsAt(I, h))}
                  IN  mislabels' = 0 /\ Reconciles(I) /\ Reconciles(inputs'[w]) =>
                        \/ \E d \in TombstoneLive(inputs'[w]) : d.id = c.id
                        \/ \E i \in inputs'[w] \ I : i.catalog.parents \cap sides # {}
<1>1. ReconcileInv /\ ReconcileInv' /\ [Next]_vars => [A]_vars
  <2> SUFFICES ASSUME ReconcileInv, ReconcileInv', [Next]_vars,
                      NEW w \in Devices, NEW c \in TombstoneLive(inputs[w]),
                      Reconciles(inputs[w]), Reconciles(inputs'[w]),
                      \A i \in inputs'[w] \ inputs[w] : i.catalog.parents \cap Sides(inputs[w], c.id) = {}
               PROVE  \E d \in TombstoneLive(inputs'[w]) : d.id = c.id
    BY DEF Sides
  <2>1. inputs[w] \in SUBSET Input /\ inputs'[w] \in SUBSET Input
    BY DEF ReconcileInv, TypeOK
  <2>2. ~TwoPayloads(inputs[w]) /\ ~TwoPayloads(inputs'[w])
    BY OutcomeIs DEF Reconciles
  <2>3. inputs[w] \subseteq inputs'[w]
    BY NothingIsReturned
  <2> QED
    BY <2>1, <2>2, <2>3, MoreInputsKeep
<1>2. ConflictsStay <=> [][A]_vars
  BY DEF ConflictsStay
<1> QED
  BY <1>1, <1>2, ReconcileInvariant, PTL DEF Spec

-----------------------------------------------------------------------------
(* What a result holds.                                                    *)

(* Views of more records claim more locators.                              *)
LEMMA MoreIsClaimed ==
  ASSUME NEW R, NEW S, R \subseteq S, NEW r
  PROVE  Claimed(R, r) \subseteq Claimed(S, r)
  BY DEF Claimed

LEMMA UnionParses ==
  ASSUME ReconcileInv, NEW w \in Devices, Conflicts(inputs[w]) = {},
         ~OverLimit(Union(inputs[w]).records, Union(inputs[w]).parents)
  PROVE  Parses(Union(inputs[w]))
<1> DEFINE I == inputs[w]
           A == AllOf(I)
           V == Union(I).records
<1>1. I \in SUBSET Input /\ \A i \in I : i.catalog \in Catalog /\ Parses(i.catalog)
  BY InputIs
<1>2. A \in SUBSET Record /\ V = Views(A) /\ V \in SUBSET Record
  BY <1>1, AllIs
<1>3. Views(V) = V
  BY <1>2, ViewsOnce
<1>4. Disputed(V) = {}
  <2>1. ClaimConflicts(V) = {}
    BY DEF Conflicts
  <2> QED
    BY <2>1 DEF ClaimConflicts
<1>5. ~OverLimit(V, Union(I).parents)
  OBVIOUS
<1>6. ASSUME NEW o \in OfKind(V, "observation")
      PROVE  \E s \in OfKind(V, "snapshot") : s.id = o.body /\ o.locators \subseteq s.locators
  <2> HIDE DEF V
  <2>1. o \in V /\ o.kind = "observation"
    BY DEF OfKind
  <2>2. PICK r \in A : o = View(A, r)
    BY <1>2, <2>1, ViewsAre
  <2>3. SameClaim(o, r)
    BY <1>2, <2>2, ViewIs
  <2>4. r.kind = "observation"
    BY <2>1, <2>3 DEF SameClaim
  <2>5. o = r
    BY <1>2, <2>2, <2>4, ViewIs
  <2>6. PICK i \in I : o \in i.catalog.records
    BY <2>5 DEF AllOf
  <2> DEFINE R == i.catalog.records
  <2>7. i.catalog \in Catalog /\ Parses(i.catalog)
    BY <1>1
  <2>8. R \in SUBSET Record /\ R \subseteq A
    BY <2>7, CatalogIs DEF AllOf
  <2>9. \A x \in OfKind(Views(R), "observation") :
          \E s \in OfKind(Views(R), "snapshot") : s.id = x.body /\ x.locators \subseteq s.locators
    BY <2>7 DEF Parses
  <2> HIDE DEF A, I, R
  <2>10. o \in R
    BY <2>6 DEF R
  <2>11. View(R, o) = o
    BY <2>1, <2>8, <2>10, ViewIs
  <2>12. o \in Views(R)
    BY <2>10, <2>11, ViewsAre
  <2>13. PICK s \in OfKind(Views(R), "snapshot") : s.id = o.body /\ o.locators \subseteq s.locators
    BY <2>1, <2>9, <2>12 DEF OfKind
  <2>14. PICK t \in R : s = View(R, t)
    BY ViewsAre DEF OfKind
  <2>15. s.kind = "snapshot"
    BY DEF OfKind
  <2>16. SameClaim(s, t)
    BY <2>8, <2>14, ViewIs
  <2>17. t.kind = "snapshot" /\ t.id = s.id
    BY <2>15, <2>16 DEF SameClaim
  <2>18. s.locators = Claimed(R, t)
    BY <2>8, <2>14, <2>17, ViewIs
  <2>19. t \in A
    BY <2>8
  <2>20. View(A, t).locators = Claimed(A, t) /\ SameClaim(View(A, t), t)
    BY <1>2, <2>17, <2>19, ViewIs
  <2>21. View(A, t) \in V
    BY <1>2, <2>19, ViewsAre
  <2>22. Claimed(R, t) \subseteq Claimed(A, t)
    BY <2>8, MoreIsClaimed
  <2>23. View(A, t).kind = "snapshot" /\ View(A, t).id = o.body /\ o.locators \subseteq View(A, t).locators
    BY <2>13, <2>17, <2>18, <2>20, <2>22 DEF SameClaim
  <2> QED
    BY <2>21, <2>23 DEF OfKind
<1> HIDE DEF V
<1>7. V = Union(I).records
  BY DEF V
<1> QED
  BY <1>3, <1>4, <1>5, <1>6, <1>7 DEF Parses

LEMMA ClaimsAreKept ==
  ASSUME NEW I \in SUBSET Input, NEW i \in I, NEW r \in i.catalog.records
  PROVE  \E q \in Union(I).records : SameClaim(q, r) /\ r.locators \subseteq q.locators
<1>1. AllOf(I) \in SUBSET Record /\ Union(I).records = Views(AllOf(I)) /\ r \in AllOf(I)
  BY AllIs DEF AllOf
<1>2. View(AllOf(I), r) \in Union(I).records
  BY <1>1, ViewsAre
<1>3. SameClaim(View(AllOf(I), r), r) /\ r.locators \subseteq View(AllOf(I), r).locators
  BY <1>1, ViewIs
<1> QED
  BY <1>2, <1>3

LEMMA ClaimsAreReported ==
  ASSUME NEW I \in SUBSET Input, NEW i \in I, NEW r \in i.catalog.records,
         NEW j \in I, NEW q \in j.catalog.records,
         q.kind = r.kind, q.id = r.id, q.body # r.body
  PROVE  \E c \in Conflicts(I) : c.kind = ClaimKind(r.kind) /\ c.id = r.id
           /\ \E d \in c.claims : SameClaim(d, r) /\ r.locators \subseteq d.locators
<1> DEFINE V == Union(I).records
<1>1. PICK d \in V : SameClaim(d, r) /\ r.locators \subseteq d.locators
  BY ClaimsAreKept
<1>2. PICK e \in V : SameClaim(e, q) /\ q.locators \subseteq e.locators
  BY ClaimsAreKept
<1> HIDE DEF V
<1>3. e # d /\ e.kind = d.kind /\ e.id = d.id /\ d.kind = r.kind /\ d.id = r.id
  BY <1>1, <1>2 DEF SameClaim
<1>4. d \in Disputed(V)
  BY <1>3 DEF Disputed
<1> DEFINE c == [kind |-> ClaimKind(d.kind), id |-> d.id,
                 claims |-> {x \in V : x.kind = d.kind /\ x.id = d.id}]
<1>5. c \in Conflicts(I)
  BY <1>4 DEF ClaimConflicts, Conflicts, V
<1>6. c.kind = ClaimKind(r.kind) /\ c.id = r.id /\ d \in c.claims
  BY <1>3
<1> HIDE DEF c
<1> QED
  BY <1>1, <1>5, <1>6

(* Nothing is lost and nothing wins: a union has every claim of every      *)
(* input with all its locators and is itself a catalog that parses, and    *)
(* where claims disagree there is none and each of them is reported.       *)
THEOREM NothingIsLost == Spec => []NothingLost
<1>1. ASSUME ReconcileInv, NEW w \in Devices PROVE Outcome(inputs[w]) # "REFERENCE"
  BY <1>1, OutcomeIs, UnionParses
<1>2. ASSUME ReconcileInv, NEW w \in Devices, NEW i \in inputs[w], NEW r \in i.catalog.records
      PROVE  IF Conflicts(inputs[w]) = {}
             THEN \E q \in Union(inputs[w]).records : SameClaim(q, r) /\ r.locators \subseteq q.locators
             ELSE \A j \in inputs[w] : \A q \in j.catalog.records :
                    q.kind = r.kind /\ q.id = r.id /\ q.body # r.body =>
                      \E c \in Conflicts(inputs[w]) : c.kind = ClaimKind(r.kind) /\ c.id = r.id
                        /\ \E d \in c.claims : SameClaim(d, r) /\ r.locators \subseteq d.locators
  <2>1. inputs[w] \in SUBSET Input
    BY <1>2, InputIs
  <2>2. \E q \in Union(inputs[w]).records : SameClaim(q, r) /\ r.locators \subseteq q.locators
    BY <2>1, ClaimsAreKept
  <2>3. ASSUME NEW j \in inputs[w], NEW q \in j.catalog.records,
               q.kind = r.kind, q.id = r.id, q.body # r.body
        PROVE  \E c \in Conflicts(inputs[w]) : c.kind = ClaimKind(r.kind) /\ c.id = r.id
                 /\ \E d \in c.claims : SameClaim(d, r) /\ r.locators \subseteq d.locators
    BY <2>1, <2>3, ClaimsAreReported
  <2> QED
    BY <2>2, <2>3
<1>3. ReconcileInv => NothingLost
  BY <1>1, <1>2 DEF NothingLost
<1> QED
  BY <1>3, ReconcileInvariant, PTL

(* Everything that is counted is finite.                                   *)
LEMMA ConflictsAreFinite ==
  ASSUME NEW I \in SUBSET Input
  PROVE  /\ IsFiniteSet(Conflicts(I))
         /\ \A c \in Conflicts(I) : IsFiniteSet(c.claims)
<1> DEFINE V == Union(I).records
           f == [p \in Packages(I) |-> Conflict(I, p)]
           g == [r \in Disputed(V) |-> [kind |-> ClaimKind(r.kind), id |-> r.id,
                   claims |-> {q \in V : q.kind = r.kind /\ q.id = r.id}]]
           ids == [r \in Changes |-> r.id]
<1>1. IsFiniteSet(V) /\ V \in SUBSET Record
  BY AllIs
<1>2. IsFiniteSet(Packages(I))
  <2>1. IsFiniteSet({ids[r] : r \in Changes})
    BY ReconcileAssumption, ImageIsFinite
  <2>2. Packages(I) \subseteq {ids[r] : r \in Changes}
    BY DEF Packages
  <2> HIDE DEF ids
  <2> QED
    BY <2>1, <2>2, FS_Subset
<1>3. TombstoneLive(I) = {f[p] : p \in Packages(I)}
  BY TombstoneLiveIs
<1>4. ClaimConflicts(V) = {g[r] : r \in Disputed(V)}
  BY DEF ClaimConflicts
<1>5. ASSUME NEW p \in Packages(I) PROVE IsFiniteSet(f[p].claims)
  <2>1. ASSUME NEW h \in DOMAIN Nodes(I) PROVE RecordsAt(I, h) \subseteq Record
    <3>1. PICK i \in I : RecordsAt(I, h) = i.catalog.records
      BY <2>1, NodesAre
    <3>2. i.catalog \in Catalog
      BY DEF Input
    <3> QED
      BY <3>1, <3>2, CatalogIs
  <2>2. LiveHeads(I, p) \subseteq DOMAIN Nodes(I) /\ DeadHeads(I, p) \subseteq DOMAIN Nodes(I)
    BY DEF LiveHeads, DeadHeads, RevisionHeads
  <2>3. Buried(I, p) \subseteq Record
    BY <2>1, <2>2 DEF Buried
  <2>4. f[p].claims = Buried(I, p)
    BY DEF Conflict
  <2> HIDE DEF f
  <2> QED
    BY <2>3, <2>4, RecordsAreFinite, FS_Subset
<1>6. ASSUME NEW r \in Disputed(V) PROVE IsFiniteSet(g[r].claims)
  <2>1. g[r].claims \subseteq V
    OBVIOUS
  <2> HIDE DEF g, V
  <2> QED
    BY <1>1, <2>1, FS_Subset
<1>7. Disputed(V) \subseteq V
  BY DEF Disputed
<1> HIDE DEF f, g, V
<1>8. IsFiniteSet({f[p] : p \in Packages(I)}) /\ IsFiniteSet({g[r] : r \in Disputed(V)})
  <2>1. IsFiniteSet({f[p] : p \in Packages(I)})
    BY <1>2, ImageIsFinite
  <2>2. IsFiniteSet(Disputed(V))
    BY <1>1, <1>7, FS_Subset
  <2> QED
    BY <2>1, <2>2, ImageIsFinite
<1>9. Conflicts(I) = {f[p] : p \in Packages(I)} \cup {g[r] : r \in Disputed(V)}
  BY <1>3, <1>4 DEF Conflicts, V
<1>10. IsFiniteSet(Conflicts(I))
  BY <1>8, <1>9, FS_Union
<1> QED
  BY <1>5, <1>6, <1>9, <1>10

LEMMA SpentCovers ==
  ASSUME NEW I \in SUBSET Input, Reconciles(I)
  PROVE  LET Held(catalog) == Cardinality(catalog.parents) + Cardinality(catalog.records)
         IN  Cardinality(RevisionHeads(Nodes(I)) \cup MissingParents(Nodes(I)))
               + SumFunction([i \in I |-> 1 + Held(i.catalog)])
               + (IF Conflicts(I) = {} THEN Held(Union(I))
                  ELSE SumFunction([c \in Conflicts(I) |-> 2 + Cardinality(c.claims)])) <= Budget
<1> DEFINE Held(catalog) == Cardinality(catalog.parents) + Cardinality(catalog.records)
           heads == RevisionHeads(Nodes(I))
           missing == MissingParents(Nodes(I))
           held == [i \in I |-> 1 + Held(i.catalog)]
           size == [i \in I |-> 1 + Size(i.catalog)]
           claims == [c \in Conflicts(I) |-> 2 + Cardinality(c.claims)]
<1>1. IsFiniteSet(I)
  BY InputsAreFinite, FS_Subset
<1>2. IsFiniteSet(heads) /\ IsFiniteSet(missing)
  <2>1. DOMAIN Nodes(I) \subseteq Revisions /\ \A id \in DOMAIN Nodes(I) : Nodes(I)[id] \subseteq Revisions
    BY NodesAre
  <2>2. heads \subseteq Revisions
    BY <2>1 DEF RevisionHeads
  <2>3. missing \subseteq Revisions
    BY <2>1 DEF MissingParents
  <2> HIDE DEF heads, missing
  <2> QED
    BY <2>2, <2>3, GraphAssumption, FS_Subset
<1>3. ASSUME NEW i \in I
      PROVE  held[i] \in Nat /\ size[i] \in Nat /\ held[i] <= size[i]
  <2>1. IsFiniteSet(i.catalog.parents) /\ IsFiniteSet(i.catalog.records)
    BY CatalogIs DEF Input
  <2>2. Cardinality(i.catalog.parents) \in Nat /\ Cardinality(i.catalog.records) \in Nat
    BY <2>1, FS_CardinalityType
  <2> QED
    BY <2>2 DEF Size
<1>4. DOMAIN held = I /\ DOMAIN size = I /\ DOMAIN claims = Conflicts(I)
  OBVIOUS
<1>5. \A c \in Conflicts(I) : claims[c] \in Nat
  BY ConflictsAreFinite, FS_CardinalityType
<1>6. Cardinality(Union(I).parents) \in Nat /\ Cardinality(Union(I).records) \in Nat
  BY <1>2, AllIs, FS_CardinalityType
<1>7. ~(Spent(I) > Budget) /\ Budget \in Nat
  BY OutcomeIs, ReconcileAssumption DEF Reconciles
<1>8. Spent(I) = SumFunction(size) + (Cardinality(heads) + Cardinality(missing) + 1)
                   + IF Conflicts(I) = {} THEN 1 + Held(Union(I)) ELSE SumFunction(claims)
  BY <1>6 DEF Spent, Sources, Envelope, Size, Reported
<1> DEFINE rest == IF Conflicts(I) = {} THEN Held(Union(I)) ELSE SumFunction(claims)
<1> HIDE DEF held, size, claims, heads, missing
<1>9. SumFunction(held) = Weight(held, I) /\ SumFunction(size) = Weight(size, I)
      /\ Weight(held, I) <= Weight(size, I) /\ Weight(held, I) \in Nat /\ Weight(size, I) \in Nat
  BY <1>1, <1>3, <1>4, SumIsWeight, WeightGrows, WeightType
<1>10. SumFunction(claims) \in Nat
  <2>1. SumFunction(claims) = Weight(claims, Conflicts(I))
    BY <1>4, <1>5, ConflictsAreFinite, SumIsWeight
  <2> QED
    BY <1>5, <2>1, ConflictsAreFinite, WeightType
<1>11. /\ Cardinality(heads \cup missing) \in Nat /\ Cardinality(heads) \in Nat /\ Cardinality(missing) \in Nat
       /\ Cardinality(heads \cup missing) <= Cardinality(heads) + Cardinality(missing)
  <2>1. IsFiniteSet(heads \cup missing) /\ IsFiniteSet(heads \cap missing)
        /\ Cardinality(heads \cup missing) = Cardinality(heads) + Cardinality(missing) - Cardinality(heads \cap missing)
    BY <1>2, FS_Union, FS_Subset
  <2>2. /\ Cardinality(heads \cup missing) \in Nat /\ Cardinality(heads) \in Nat
        /\ Cardinality(missing) \in Nat /\ Cardinality(heads \cap missing) \in Nat
    BY <1>2, <2>1, FS_CardinalityType
  <2> QED
    BY <2>1, <2>2
<1>12. rest \in Nat /\ Spent(I) >= SumFunction(size) + (Cardinality(heads) + Cardinality(missing) + 1) + rest
  <2>1. CASE Conflicts(I) = {}
    <3>1. rest = Held(Union(I)) /\ rest \in Nat
      BY <1>6, <2>1
    <3>2. Spent(I) = SumFunction(size) + (Cardinality(heads) + Cardinality(missing) + 1) + (1 + rest)
      BY <1>8, <2>1, <3>1
    <3> HIDE DEF rest
    <3> QED
      BY <1>9, <1>11, <3>1, <3>2
  <2>2. CASE Conflicts(I) # {}
    <3>1. rest = SumFunction(claims)
      BY <2>2
    <3>2. Spent(I) = SumFunction(size) + (Cardinality(heads) + Cardinality(missing) + 1) + rest
      BY <1>8, <2>2, <3>1
    <3> HIDE DEF rest
    <3> QED
      BY <1>9, <1>10, <1>11, <3>1, <3>2
  <2> QED
    BY <2>1, <2>2
<1> HIDE DEF rest
<1>13. Spent(I) <= Budget
  <2>1. Spent(I) \in Int
    BY <1>6, <1>8, <1>9, <1>10, <1>11
  <2> QED
    BY <1>7, <2>1
<1>14. Cardinality(heads \cup missing) + SumFunction(held) + rest <= Budget
  <2>1. SumFunction(size) \in Nat /\ SumFunction(held) \in Nat /\ SumFunction(held) <= SumFunction(size)
    BY <1>9
  <2>2. Spent(I) \in Int
    BY <1>6, <1>8, <1>9, <1>10, <1>11
  <2> QED
    BY <1>7, <1>11, <1>12, <1>13, <2>1, <2>2
<1> QED
  BY <1>14 DEF heads, missing, held, claims, rest

(* Whatever a result holds - its sources, heads and missing parents, and   *)
(* the union or the claims of the conflicts - was paid for in the budget   *)
(* before it was copied.                                                   *)
THEOREM ResultsAreWithinBudget == Spec => []ResultWithinBudget
<1>1. ASSUME ReconcileInv, NEW w \in Devices PROVE inputs[w] \in SUBSET Input
  BY <1>1, InputIs
<1>2. ReconcileInv => ResultWithinBudget
  BY <1>1, SpentCovers DEF ResultWithinBudget
<1> QED
  BY <1>2, ReconcileInvariant, PTL
==============================================================================
