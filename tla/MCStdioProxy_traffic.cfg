CONSTANTS
  c1 = c1
  c2 = c2
  a1 = a1
  i1 = i1
  i2 = i2
  i3 = i3
  Calls = {c1, c2}
  Asks = {a1}
  Ids = {i1, i2, i3}
  IdOf <- AskLikeCall
  NoCall = NoCall
  NoMessage = NoMessage
  StaleAfter = 0
  MaxTime = 1
  HasBudgets = TRUE
  Faults = {"log"}
SPECIFICATION Spec
INVARIANTS OwnIdsPair TracedOnce LatencyCoversServer
PROPERTY AloneHasCause
CHECK_DEADLOCK FALSE
