CONSTANTS
  c1 = c1
  c2 = c2
  a1 = a1
  i1 = i1
  i2 = i2
  i3 = i3
  Calls = {c1, c2}
  Asks = {}
  Ids = {i1, i2, i3}
  IdOf <- UniqueIds
  NoCall = NoCall
  NoMessage = NoMessage
  StaleAfter = 0
  MaxTime = 0
  HasBudgets = TRUE
  Faults = {}
SPECIFICATION Spec
INVARIANT FramesWhole
CHECK_DEADLOCK FALSE
