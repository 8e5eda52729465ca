----------------------------- MODULE MCJournal -----------------------------
(* Model values and symmetry for the runs of Journal.                      *)
EXTENDS Journal, TLC

Symmetry == Permutations(Inodes) \cup Permutations(Putters \ (Getters \cup Listers))
=============================================================================
