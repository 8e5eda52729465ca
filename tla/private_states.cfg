SPECIFICATION Spec
CONSTANTS
  A = A
  B = B
  i = i
  v = v
  w = w
  p = p
  q = q
  c1 = c1
  c2 = c2
  Contracts = {A, B}
  Ids = {i}
  Vals = {v, w}
  Slots = {c1, c2}
  Passwords = {p, q}
  Levels <- MCLevels
  OldLevel <- MCOldLevel
  MaxEntries = 2
  MaxStates = 1
  MaxCalls = 3
  Files <- MCFiles
  Absent = Absent
  None = None
  Done = Done
INVARIANTS
  OneKeyOpensAll
PROPERTIES
  RotationShutsOut
  StoreSpec
SYMMETRY MCSymmetry
CHECK_DEADLOCK FALSE
