SPECIFICATION SearchSpec
CONSTANTS
  Revisions = {r1, r2, r3}
  Absent = {a}
  r1 = r1
  r2 = r2
  r3 = r3
  a = a
SYMMETRY Symmetry
INVARIANTS CyclesFound
CHECK_DEADLOCK FALSE
