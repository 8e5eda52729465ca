---------------------------- MODULE PrefixCover ----------------------------
(***************************************************************************)
(* assertPrefixFreeCover of src/src/storage/catalog-v2.ts: do the prefixes *)
(* a catalog root lists cut the space of route hashes into disjoint parts? *)
(*                                                                         *)
(* A route hash is MaxDepth digits to the base Fan (64 hexadecimal ones in *)
(* the code), a prefix some first digits of one.  Strings of digits are    *)
(* sequences, and "the one before it in the sorted array" is the relation  *)
(* Neighbours of an order on a set.                                        *)
(***************************************************************************)
EXTENDS Integers, Sequences, FiniteSets

CONSTANTS Fan, MaxDepth   \* digits to choose from; digits of a hash

ASSUME PrefixAssumption == Fan \in Nat \ {0} /\ MaxDepth \in Nat

Digit  == 0..(Fan - 1)
Hash   == [1..MaxDepth -> Digit]
Prefix == UNION {[1..n -> Digit] : n \in 0..MaxDepth}

(* Does the hash start with p?                                             *)
Covers(p, h) == \A k \in 1..Len(p) : p[k] = h[k]

-----------------------------------------------------------------------------
StartsWith(q, p) == Len(p) <= Len(q) /\ Covers(p, q)

(* The order of strings: at the first difference, or the shorter first.    *)
Before(p, q) ==
  \/ p # q /\ StartsWith(q, p)
  \/ \E k \in 1..Len(p) \cap 1..Len(q) :
       p[k] < q[k] /\ \A j \in 1..(k - 1) : p[j] = q[j]

PadStart(p) == [k \in 1..MaxDepth |-> IF k <= Len(p) THEN p[k] ELSE 0]
PadEnd(p)   == [k \in 1..MaxDepth |-> IF k <= Len(p) THEN p[k] ELSE Fan - 1]

(* The next hash, or <<>> after the last one.                              *)
AddOne(h) ==
  IF \A k \in 1..MaxDepth : h[k] = Fan - 1
  THEN <<>>
  ELSE LET k == CHOOSE k \in 1..MaxDepth :
                  h[k] # Fan - 1 /\ \A j \in (k + 1)..MaxDepth : h[j] = Fan - 1
       IN  [j \in 1..MaxDepth |-> IF j < k THEN h[j] ELSE IF j = k THEN h[k] + 1 ELSE 0]

BeforeByStart(p, q) ==
  \/ Before(PadStart(p), PadStart(q))
  \/ PadStart(p) = PadStart(q) /\ Len(p) < Len(q)

(* Next to each other when P is sorted by that order.                      *)
Neighbours(P, Less(_, _), p, q) == Less(p, q) /\ \A r \in P : ~(Less(p, r) /\ Less(r, q))

(* Bug: gaps are looked for, overlaps only between neighbours by start.    *)
PrefixFreeCoverByStart(P) ==
  /\ P # {}
  /\ \E p \in P : PadStart(p) = PadStart(<<>>)
  /\ \A p, q \in P : Neighbours(P, BeforeByStart, p, q) =>
       AddOne(PadEnd(p)) = PadStart(q) \/ PadStart(p) = PadStart(q)
  /\ \E p \in P : PadEnd(p) = PadEnd(<<>>)

(* The first starts the space, each ends right before the next one, and    *)
(* the last ends the space.                                                *)
PrefixFreeCover(P) ==
  /\ P # {}
  /\ \A p, q \in P : Neighbours(P, Before, p, q) => ~StartsWith(q, p)
  /\ \A p \in P : (\A q \in P : ~BeforeByStart(q, p)) => PadStart(p) = PadStart(<<>>)
  /\ \A p, q \in P : Neighbours(P, BeforeByStart, p, q) => AddOne(PadEnd(p)) = PadStart(q)
  /\ \A p \in P : (\A q \in P : ~BeforeByStart(p, q)) => PadEnd(p) = PadEnd(<<>>)

-----------------------------------------------------------------------------
(* Every hash, of a record of the catalog or of any other, starts with     *)
(* exactly one of the prefixes.                                            *)
Partition(P) == \A h \in Hash : \E p \in P : \A q \in P : Covers(q, h) <=> q = p

(* The sorted neighbour checks of assertPrefixFreeCover accept a set of    *)
(* prefixes exactly if no hash is under two of them and none under none:   *)
(* looking at neighbours only, in two different orders, is enough.         *)
CoverExact == \A P \in SUBSET Prefix : PrefixFreeCover(P) <=> Partition(P)
=============================================================================
