SPECIFICATION FairSpec
CONSTANTS
  Callbacks = {c1, c2, c3}
  c1 = c1
  c2 = c2
  c3 = c3
INVARIANTS OneExchange WaitsWithDeadline
PROPERTIES FlowSettles NothingLeftBehind
CHECK_DEADLOCK FALSE
