CONSTANTS
  c1 = c1
  c2 = c2
  c3 = c3
  i1 = i1
  i2 = i2
  Calls = {c1, c2}
  Asks = {}
  Ids = {i1, i2}
  IdOf <- Apart
  NoCall = none
  Nobody = nobody
  StaleAfter = 0
  MaxTime = 1
SPECIFICATION FairSpec
INVARIANTS OwnIdsPair AnsweredIsStored
PROPERTIES EveryCallReturns SignalEndsProxy
CHECK_DEADLOCK FALSE
