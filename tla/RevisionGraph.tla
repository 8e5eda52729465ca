--------------------------- MODULE RevisionGraph ---------------------------
(***************************************************************************)
(* The graph of catalog revisions in src/src/catalog/reconcile.ts: every   *)
(* revision names its parents, and some of those may not be among the      *)
(* revisions at hand.  A graph is a function from revisions to the sets of *)
(* their parents.                                                          *)
(***************************************************************************)
EXTENDS Naturals, FiniteSets

CONSTANT Revisions   \* that may be at hand

ASSUME GraphAssumption == IsFiniteSet(Revisions)

(* The revisions at hand that none of the others names as a parent.        *)
RevisionHeads(nodes)  == {id \in DOMAIN nodes : \A child \in DOMAIN nodes : id \notin nodes[child]}
MissingParents(nodes) == (UNION {nodes[id] : id \in DOMAIN nodes}) \ DOMAIN nodes

(* Everything above a revision, as far as the graph goes.                  *)
Above(nodes, id) ==
  LET WithParents(S) == S \cup UNION {nodes[s] : s \in S \cap DOMAIN nodes}
      above[n \in 0..Cardinality(DOMAIN nodes)] ==
        IF n = 0 THEN nodes[id] ELSE WithParents(above[n - 1])
  IN  above[Cardinality(DOMAIN nodes)]

Ancestors(nodes, id)  == Above(nodes, id) \cap DOMAIN nodes
Incomplete(nodes, id) == ~(Above(nodes, id) \subseteq DOMAIN nodes)

(* Bug: missing parents are not taken to hide anything.                    *)
KnownIncomparableAnyway(left, right, nodes) ==
  /\ left # right
  /\ right \notin Ancestors(nodes, left) /\ left \notin Ancestors(nodes, right)

(* Bug: any missing parent hides the order of every two revisions.         *)
KnownIncomparableIfAllKnown(left, right, nodes) ==
  /\ left # right
  /\ right \notin Ancestors(nodes, left) /\ left \notin Ancestors(nodes, right)
  /\ MissingParents(nodes) = {}

(* Neither is above the other, and no missing revision could tell that one *)
(* is: what is above each of them is all at hand.                          *)
KnownIncomparable(left, right, nodes) ==
  /\ left # right
  /\ right \notin Ancestors(nodes, left) /\ left \notin Ancestors(nodes, right)
  /\ ~Incomplete(nodes, left) /\ ~Incomplete(nodes, right)

-----------------------------------------------------------------------------
(* Revisions of which each has a parent among them: where there are some,  *)
(* and only there, a finite graph has a cycle.                             *)
Circular(nodes, S) == S # {} /\ \A id \in S : nodes[id] \cap S # {}
Cyclic(nodes)      == \E S \in SUBSET DOMAIN nodes : Circular(nodes, S)
=============================================================================
