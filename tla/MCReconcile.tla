---------------------------- MODULE MCReconcile ----------------------------
(* Records for the run of Reconcile: a package recorded with two locators, *)
(* or under another label, and a tombstone and an observation of it.       *)
EXTENDS Reconcile, TLC

CONSTANTS p1, l1, l2, core, label, e1, o1

Record1(kind, id, body, locators) ==
  [kind |-> kind, id |-> id, body |-> body, locators |-> locators]
Snapshot1 == Record1("snapshot", p1, core, {l1})
Copied1   == Record1("snapshot", p1, core, {l2})
Renamed1  == Record1("snapshot", p1, label, {l1})
Buried1   == Record1("tombstone", e1, p1, {})
Observed1 == Record1("observation", o1, p1, {l2})

MCChanges == {Snapshot1, Copied1, Renamed1, Buried1, Observed1}
Symmetry == Permutations(Devices) \cup Permutations(Revisions)
=============================================================================
