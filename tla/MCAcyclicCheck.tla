--------------------------- MODULE MCAcyclicCheck ---------------------------
(* Model values and symmetry for the runs of AcyclicCheck.                 *)
EXTENDS AcyclicCheck, TLC

CONSTANTS r1, r2, r3, a

Symmetry == Permutations(Revisions)
=============================================================================
