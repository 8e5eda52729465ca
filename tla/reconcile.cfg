SPECIFICATION Spec
CONSTANTS
  Devices = {w1, w2}
  Revisions = {r1, r2, r3, r4}
  Changes <- MCChanges
  MaxInputs = 4
  MaxParents = 3
  MaxEntries = 3
  MaxObservations = 1
  MaxLocators = 2
  Budget = 20
  MaxMislabels = 1
  MislabelledLength = 3
  w1 = w1
  w2 = w2
  r1 = r1
  r2 = r2
  r3 = r3
  r4 = r4
  p1 = p1
  l1 = l1
  l2 = l2
  core = core
  label = label
  e1 = e1
  o1 = o1
SYMMETRY Symmetry
INVARIANTS ConflictsAreReal ConflictsAreFound NothingLost ResultWithinBudget
PROPERTY ConflictsStay
CHECK_DEADLOCK FALSE
