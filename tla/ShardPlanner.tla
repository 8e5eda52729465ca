---------------------------- MODULE ShardPlanner ----------------------------
(***************************************************************************)
(* partitionLeaves of src/src/storage/catalog-v2.ts, the worklist under    *)
(* planCatalogShards: it cuts the space of route hashes into prefixes, a   *)
(* leaf of records to each, until every leaf fits a shard.                 *)
(*                                                                         *)
(* The input is a set: the records have been routed, sorted and found      *)
(* distinct.  What a record contains is abstracted to what it adds to the  *)
(* canonical size of the shard payload, PayloadBytes.                      *)
(*                                                                         *)
(* The code takes leaves first in, first out; here any leaf of the queue   *)
(* may be next, so the plan is shown not to depend on the order.           *)
(***************************************************************************)
EXTENDS PrefixCover, Functions

CONSTANTS
  Records,              \* what a catalog may contain
  PayloadBytes(_, _),   \* canonical bytes of a shard of a prefix and records
  MaxRecordsPerLeaf, MaxReferences,
  ShardTargetBytes, ShardPlaintextBytes, CumulativeBytes

ASSUME PlannerAssumption ==
  /\ IsFiniteSet(Records)
  /\ MaxRecordsPerLeaf \in Nat \ {0} /\ MaxReferences \in Nat \ {0}
  /\ ShardTargetBytes \in Nat /\ ShardPlaintextBytes \in Nat /\ CumulativeBytes \in Nat
  /\ ShardTargetBytes <= ShardPlaintextBytes
  /\ \A p \in Prefix, R \in SUBSET Records : PayloadBytes(p, R) \in Nat \ {0}

VARIABLES
  input,       \* the records to plan
  route,       \* their route hashes
  queue,       \* leaves that are not decided yet
  emitted,     \* leaves of the plan
  coverCount,  \* how many leaves there are in both
  cumulative,  \* canonical bytes of the emitted leaves
  outcome

vars == <<input, route, queue, emitted, coverCount, cumulative, outcome>>

Leaf == [prefix : Prefix, recs : SUBSET Records]

TypeOK ==
  /\ input \subseteq Records
  /\ route \in [input -> Hash]
  /\ queue \subseteq Leaf /\ emitted \subseteq Leaf
  /\ coverCount \in 1..MaxReferences
  /\ cumulative \in 0..CumulativeBytes
  /\ outcome \in {"planning", "planned", "CAPACITY"}

Bytes(leaf) == PayloadBytes(leaf.prefix, leaf.recs)

(* Bug: only the bytes count.                                              *)
NeedsSplitByBytes(leaf) == Cardinality(leaf.recs) > 1 /\ Bytes(leaf) > ShardTargetBytes

(* A single record is never split off from itself, however large.          *)
NeedsSplit(leaf) ==
  /\ Cardinality(leaf.recs) > 1
  /\ \/ Cardinality(leaf.recs) > MaxRecordsPerLeaf
     \/ Bytes(leaf) > ShardTargetBytes

-----------------------------------------------------------------------------
Init ==
  /\ input \in SUBSET Records
  /\ route \in [input -> Hash]
  /\ queue = {[prefix |-> <<>>, recs |-> input]}
  /\ emitted = {}
  /\ coverCount = 1
  /\ cumulative = 0
  /\ outcome = "planning"

(* The error path wipes what was emitted.                                  *)
Refuse ==
  /\ outcome' = "CAPACITY"
  /\ queue' = {} /\ emitted' = {}
  /\ UNCHANGED <<input, route, coverCount, cumulative>>

Take(leaf) == outcome = "planning" /\ leaf \in queue

(* Only an empty input has an empty leaf in the queue.                     *)
EmitEmpty(leaf) ==
  /\ Take(leaf)
  /\ leaf.recs = {}
  /\ queue' = queue \ {leaf}
  /\ emitted' = emitted \cup {leaf}
  /\ UNCHANGED <<input, route, coverCount, cumulative, outcome>>

Emit(leaf) ==
  /\ Take(leaf)
  /\ leaf.recs # {} /\ ~NeedsSplit(leaf)
  /\ IF Bytes(leaf) > ShardPlaintextBytes \/ cumulative + Bytes(leaf) > CumulativeBytes
     THEN Refuse
     ELSE /\ queue' = queue \ {leaf}
          /\ emitted' = emitted \cup {leaf}
          /\ cumulative' = cumulative + Bytes(leaf)
          /\ UNCHANGED <<input, route, coverCount, outcome>>

Child(leaf, d) ==
  [prefix |-> Append(leaf.prefix, d),
   recs   |-> {r \in leaf.recs : route[r][Len(leaf.prefix) + 1] = d}]

Children(leaf) == {Child(leaf, d) : d \in Digit}

(* Bug: a child without records gets no empty marker.                      *)
SplitForgetsEmpty(leaf) ==
  /\ Take(leaf)
  /\ NeedsSplit(leaf)
  /\ IF Len(leaf.prefix) >= MaxDepth \/ coverCount + Fan - 1 > MaxReferences
     THEN Refuse
     ELSE /\ queue' = (queue \ {leaf}) \cup {c \in Children(leaf) : c.recs # {}}
          /\ coverCount' = coverCount + Fan - 1
          /\ UNCHANGED <<input, route, emitted, cumulative, outcome>>

(* Bug: the bound counts a child too many, since the leaf itself goes.     *)
SplitBoundsEarly(leaf) ==
  /\ Take(leaf)
  /\ NeedsSplit(leaf)
  /\ IF Len(leaf.prefix) >= MaxDepth \/ coverCount + Fan > MaxReferences
     THEN Refuse
     ELSE /\ queue' = (queue \ {leaf}) \cup {c \in Children(leaf) : c.recs # {}}
          /\ emitted' = emitted \cup {c \in Children(leaf) : c.recs = {}}
          /\ coverCount' = coverCount + Fan - 1
          /\ UNCHANGED <<input, route, cumulative, outcome>>

(* One leaf becomes Fan: the records go by their next digit, and a child   *)
(* without records is emitted at once as an empty marker.                  *)
Split(leaf) ==
  /\ Take(leaf)
  /\ NeedsSplit(leaf)
  /\ IF Len(leaf.prefix) >= MaxDepth \/ coverCount + Fan - 1 > MaxReferences
     THEN Refuse
     ELSE /\ queue' = (queue \ {leaf}) \cup {c \in Children(leaf) : c.recs # {}}
          /\ emitted' = emitted \cup {c \in Children(leaf) : c.recs = {}}
          /\ coverCount' = coverCount + Fan - 1
          /\ UNCHANGED <<input, route, cumulative, outcome>>

Finish ==
  /\ outcome = "planning"
  /\ queue = {}
  /\ outcome' = "planned"
  /\ UNCHANGED <<input, route, queue, emitted, coverCount, cumulative>>

Next ==
  \/ \E leaf \in queue : EmitEmpty(leaf) \/ Emit(leaf) \/ Split(leaf)
  \/ Finish

Spec == Init /\ [][Next]_vars

-----------------------------------------------------------------------------
(***************************************************************************)
(* Properties.                                                             *)
(***************************************************************************)
Leaves == queue \cup emitted

(* Until the plan is refused, every route hash, of a record of the catalog *)
(* or of any later one, lies under exactly one leaf, and a leaf holds      *)
(* exactly the records whose hashes lie under it: no split loses a record, *)
(* duplicates one or leaves a gap that a reader would take for an absent   *)
(* shard.                                                                  *)
ExactCover ==
  outcome # "CAPACITY" =>
    /\ \A h \in Hash : \E leaf \in Leaves :
         \A other \in Leaves : Covers(other.prefix, h) <=> other = leaf
    /\ \A leaf \in Leaves : leaf.recs = {r \in input : Covers(leaf.prefix, route[r])}

(* The cover check of the reader accepts what is planned, and of all sets  *)
(* of prefixes it accepts exactly the partitions.                          *)
CoverChecked ==
  /\ CoverExact
  /\ outcome = "planned" => PrefixFreeCover({leaf.prefix : leaf \in emitted})

(* The plan fits what preflightCatalogRoot and validateCatalogRevision will *)
(* hold each part of it to: the number of references, the record count and *)
(* the bytes of every shard.                                               *)
PlanFits ==
  outcome = "planned" =>
    /\ Cardinality(emitted) <= MaxReferences
    /\ \A leaf \in emitted :
         leaf.recs # {} =>
           /\ Cardinality(leaf.recs) <= MaxRecordsPerLeaf
           /\ Bytes(leaf) <= IF Cardinality(leaf.recs) = 1 THEN ShardPlaintextBytes
                                                           ELSE ShardTargetBytes

TotalBytes(S) == SumFunction([leaf \in {l \in S : l.recs # {}} |-> Bytes(leaf)])

(* What the plan ought to be, without a worklist: split exactly the        *)
(* prefixes all of whose beginnings hold too much for one shard.           *)
LeafAt(routes, p) ==
  [prefix |-> p, recs |-> {r \in DOMAIN routes : Covers(p, routes[r])}]
Inner(routes) ==
  {p \in Prefix : \A n \in 0..Len(p) : NeedsSplit(LeafAt(routes, SubSeq(p, 1, n)))}
Coarsest(routes) ==
  LET inner == Inner(routes)
  IN  {LeafAt(routes, p) : p \in {q \in Prefix \ inner :
                                   q = <<>> \/ SubSeq(q, 1, Len(q) - 1) \in inner}}
Feasible(routes) ==
  LET inner  == Inner(routes)
      leaves == Coarsest(routes)
  IN  /\ \A p \in inner : Len(p) < MaxDepth
      /\ 1 + (Fan - 1) * Cardinality(inner) <= MaxReferences
      /\ \A leaf \in leaves : leaf.recs # {} => Bytes(leaf) <= ShardPlaintextBytes
      /\ TotalBytes(leaves) <= CumulativeBytes

(* The plan is the coarsest cover that fits and WPP_CATALOG_CAPACITY means *)
(* that there is none: how the work ends depends on the records only,      *)
(* never on the order of the work, and no catalog that fits is refused.    *)
PlanExact ==
  [][outcome' # outcome =>
       IF outcome' = "planned" THEN Feasible(route) /\ emitted' = Coarsest(route)
                               ELSE ~Feasible(route)]_vars

-----------------------------------------------------------------------------
(***************************************************************************)
(* The inductive invariant CatalogV2Proofs uses.                           *)
(***************************************************************************)

(* No leaf is both done and waiting, and coverCount counts them all.       *)
CountExact ==
  outcome # "CAPACITY" =>
    /\ queue \cap emitted = {}
    /\ IsFiniteSet(Leaves)
    /\ Cardinality(Leaves) = coverCount

(* What was emitted was not too large when it was.                         *)
EmittedFit ==
  \A leaf \in emitted :
    leaf.recs # {} => ~NeedsSplit(leaf) /\ Bytes(leaf) <= ShardPlaintextBytes

PlanDone == outcome = "planned" => queue = {}

IInv == TypeOK /\ ExactCover /\ CountExact /\ EmittedFit /\ PlanDone

(* The prefixes that have been split: what the leaves lie under.           *)
SplitOff ==
  {p \in Prefix : \E leaf \in Leaves : StartsWith(leaf.prefix, p) /\ p # leaf.prefix}

(* No prefix is split that need not be, each split adds Fan - 1 leaves,    *)
(* and no refusal was premature.                                           *)
ExactInv ==
  /\ IInv
  /\ outcome # "CAPACITY" =>
       /\ SplitOff \subseteq Inner(route)
       /\ \A leaf \in emitted : ~NeedsSplit(leaf)
       /\ coverCount = 1 + (Fan - 1) * Cardinality(SplitOff)
       /\ cumulative = TotalBytes(emitted)
  /\ outcome = "CAPACITY" => ~Feasible(route)
=============================================================================
