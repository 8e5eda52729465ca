SPECIFICATION FairPutSpec
CONSTANTS
  Puts = {p1, p2}
  Accounts = {a1, a2}
  p1 = p1
  p2 = p2
  a1 = a1
  a2 = a2
INVARIANTS ReceiptsHold CodesTellWhatIsStored
PROPERTY PutsReturn
CHECK_DEADLOCK FALSE
