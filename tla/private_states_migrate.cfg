SPECIFICATION Spec
CONSTANTS
  A = A
  B = B
  i = i
  v = v
  w = w
  p = p
  q = q
  c1 = c1
  c2 = c2
  Contracts = {A, B}
  Ids = {i}
  Vals = {v, w}
  Slots = {c1}
  Passwords = {p, q}
  Levels <- MCLevels
  OldLevel <- MCOldLevel
  MaxEntries = 2
  MaxStates = 1
  MaxCalls = 2
  Files <- MCFiles
  Absent = Absent
  None = None
  Done = Done
PROPERTIES
  MigratesSafely
CHECK_DEADLOCK FALSE
