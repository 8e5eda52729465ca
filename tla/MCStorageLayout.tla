--------------------------- MODULE MCStorageLayout ---------------------------
(* Four ids in two buckets, envelopes of at most two records. *)
EXTENDS StorageLayout, TLC

CONSTANTS a, b, c, d, x, y

MCBucketOf == (a :> 0) @@ (b :> 1) @@ (c :> 1) @@ (d :> 1)
Rec(i, p) == [id |-> i, payload |-> p]
\* Two versions of a record beside one that stays, a bucket that empties, one that
\* grows past the ceiling, and a list with an id twice.
MCRecordSets ==
  {{Rec(b, x)}, {Rec(a, x), Rec(b, x)}, {Rec(a, y), Rec(b, x)},
   {Rec(a, x), Rec(b, x), Rec(c, x), Rec(d, x)}, {Rec(a, x), Rec(a, y)}}
=============================================================================
