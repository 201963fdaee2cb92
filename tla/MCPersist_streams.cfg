CONSTANTS
  r1 = r1
  r2 = r2
  r3 = r3
  r4 = r4
  s1 = s1
  s2 = s2
  Records = {r1, r2}
  Subscribers = {s1, s2}
  Capacity = 1
  KindOf <- Calls
  IsError = {r1}
  FilterOf <- NoFilter
  MaxAge = 0
  MaxCount = 0
  StoreFails = TRUE
  Skew = 0
  MaxTime = 0
SPECIFICATION FairSpec
INVARIANTS NoSendOnClosed SlowClientCostsOnlyItself
PROPERTY SlowClientHoldsNobodyUp
CHECK_DEADLOCK FALSE
