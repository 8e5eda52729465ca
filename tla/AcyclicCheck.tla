---------------------------- MODULE AcyclicCheck ----------------------------
(***************************************************************************)
(* assertAcyclic of src/src/catalog/reconcile.ts: a depth-first search     *)
(* that colours revisions white, gray and black.  The recursion of visit   *)
(* is a stack of frames, a revision and the parents its loop has not       *)
(* looked at yet.  The orders in which the code goes through a map and an  *)
(* array are any orders here.                                              *)
(***************************************************************************)
EXTENDS RevisionGraph, Sequences

CONSTANT Absent   \* revisions that can only be named as parents

VARIABLES nodes, color, stack, outcome
searchVars == <<nodes, color, stack, outcome>>

Frame == [id : Revisions, left : SUBSET (Revisions \cup Absent)]

SearchTypeOK ==
  /\ nodes \in UNION {[R -> SUBSET (Revisions \cup Absent)] : R \in SUBSET Revisions}
  /\ color \in [DOMAIN nodes -> {"white", "gray", "black"}]
  /\ stack \in Seq(Frame)
  /\ outcome \in {"searching", "acyclic", "INPUT"}

SearchInit ==
  /\ nodes \in UNION {[R -> SUBSET (Revisions \cup Absent)] : R \in SUBSET Revisions}
  /\ color = [id \in DOMAIN nodes |-> "white"]
  /\ stack = <<>>
  /\ outcome = "searching"

Visit(id) ==
  /\ color' = [color EXCEPT ![id] = "gray"]
  /\ stack' = Append(stack, [id |-> id, left |-> nodes[id]])
  /\ UNCHANGED <<nodes, outcome>>

(* The outer loop takes the next white revision.                           *)
Start(id) ==
  /\ outcome = "searching" /\ stack = <<>>
  /\ color[id] = "white"
  /\ Visit(id)

Top == stack[Len(stack)]
Throw == outcome' = "INPUT" /\ UNCHANGED <<nodes, color, stack>>
Searching == outcome = "searching" /\ stack # <<>>

(* The loop of the top frame goes on to its next parent.                   *)
Advanced(parent) ==
  [stack EXCEPT ![Len(stack)] = [id |-> Top.id, left |-> Top.left \ {parent}]]

(* A parent that is being visited, the revision itself among them.         *)
Close(parent) ==
  /\ Searching /\ parent \in Top.left
  /\ parent \in DOMAIN nodes /\ color[parent] = "gray"
  /\ Throw

(* The frame keeps its place in the loop while the parent is visited.      *)
Descend(parent) ==
  /\ Searching /\ parent \in Top.left
  /\ parent \in DOMAIN nodes /\ color[parent] = "white"
  /\ color' = [color EXCEPT ![parent] = "gray"]
  /\ stack' = Append(Advanced(parent), [id |-> parent, left |-> nodes[parent]])
  /\ UNCHANGED <<nodes, outcome>>

Skip(parent) ==
  /\ Searching /\ parent \in Top.left
  /\ parent \in DOMAIN nodes => color[parent] = "black"
  /\ stack' = Advanced(parent)
  /\ UNCHANGED <<nodes, color, outcome>>

(* Bug: a revision stays gray, and two ways to one ancestor are a cycle.   *)
LeaveGray ==
  /\ Searching /\ Top.left = {}
  /\ stack' = SubSeq(stack, 1, Len(stack) - 1)
  /\ UNCHANGED <<nodes, color, outcome>>

Leave ==
  /\ Searching /\ Top.left = {}
  /\ color' = [color EXCEPT ![Top.id] = "black"]
  /\ stack' = SubSeq(stack, 1, Len(stack) - 1)
  /\ UNCHANGED <<nodes, outcome>>

Finish ==
  /\ outcome = "searching" /\ stack = <<>>
  /\ \A id \in DOMAIN nodes : color[id] # "white"
  /\ outcome' = "acyclic"
  /\ UNCHANGED <<nodes, color, stack>>

SearchNext ==
  \/ \E id \in DOMAIN nodes : Start(id)
  \/ \E parent \in Revisions \cup Absent : Close(parent) \/ Descend(parent) \/ Skip(parent)
  \/ Leave \/ Finish

SearchSpec == SearchInit /\ [][SearchNext]_searchVars

-----------------------------------------------------------------------------
(* The search refuses exactly the graphs with a cycle.  One that it let    *)
(* through would have revisions below no head, whose tombstones and        *)
(* conflicts reconcileCatalogs would never see; one it refused wrongly,    *)
(* say with two ways to an ancestor, could not be reconciled at all.       *)
CyclesFound ==
  /\ outcome = "acyclic" => ~Cyclic(nodes)
  /\ outcome = "INPUT" => Cyclic(nodes)

-----------------------------------------------------------------------------
(***************************************************************************)
(* The inductive invariant CatalogV1Proofs uses.                           *)
(***************************************************************************)

(* The gray revisions are those on the stack, each a parent of the one     *)
(* before it.                                                              *)
GrayPath ==
  /\ \A i \in 1..Len(stack) :
       /\ stack[i].id \in DOMAIN nodes /\ color[stack[i].id] = "gray"
       /\ stack[i].left \subseteq nodes[stack[i].id]
  /\ \A i, j \in 1..Len(stack) : i # j => stack[i].id # stack[j].id
  /\ \A i \in 1..(Len(stack) - 1) : stack[i + 1].id \in nodes[stack[i].id]
  /\ \A id \in DOMAIN nodes :
       color[id] = "gray" => \E i \in 1..Len(stack) : stack[i].id = id

(* A parent a frame has looked at is black, unless it is the next frame.   *)
LookedAt ==
  \A i \in 1..Len(stack) : \A parent \in nodes[stack[i].id] \cap DOMAIN nodes :
    \/ parent \in stack[i].left
    \/ color[parent] = "black"
    \/ i < Len(stack) /\ parent = stack[i + 1].id

(* What is above a black revision is black, and has no cycle.              *)
BlackDone ==
  LET Black == {id \in DOMAIN nodes : color[id] = "black"}
  IN  /\ \A id \in Black : nodes[id] \cap DOMAIN nodes \subseteq Black
      /\ \A S \in SUBSET Black : ~Circular(nodes, S)

SearchInv == SearchTypeOK /\ GrayPath /\ LookedAt /\ BlackDone /\ CyclesFound
=============================================================================
