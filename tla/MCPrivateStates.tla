--------------------------- MODULE MCPrivateStates --------------------------
EXTENDS PrivateStates, TLC

CONSTANTS A, B, i, v, w, p, q, c1, c2

V2(s, val) == [fmt |-> "v2", salt |-> s, password |-> p, val |-> val]
V1(s, val) == [fmt |-> "v1", salt |-> s, password |-> p, val |-> val]
Bare(val) == [fmt |-> "plain", salt |-> 0, password |-> None, val |-> val]

\* A level: what is under <<A, i>>, and what under <<B, i>>.
Holding(s, a, b) ==
  [entries |-> [k \in Keys |-> IF k = <<A, i>> THEN a ELSE IF k = <<B, i>> THEN b ELSE None],
   salt |-> s, password |-> p]

\* In the current format, which is also what a first migration and a read leave; in the
\* older formats.  Clear makes it empty.
MCLevels == {Holding(1, V2(1, v), V2(1, w)), Holding(1, V1(1, v), Bare(v))}
MCOldLevel == Holding(1, V1(1, w), None)
MCFiles == {[id \in Ids |-> w]}
MCSymmetry == Permutations(Slots)
=============================================================================
