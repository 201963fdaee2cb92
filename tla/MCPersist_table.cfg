CONSTANTS
  r1 = r1
  r2 = r2
  r3 = r3
  r4 = r4
  s1 = s1
  s2 = s2
  Records = {r1, r2, r3, r4}
  Subscribers = {}
  Capacity = 1
  KindOf <- Reported
  IsError = {r1}
  FilterOf <- NoFilter
  MaxAge = 1
  MaxCount = 2
  StoreFails = TRUE
  Skew = 1
  MaxTime = 2
SPECIFICATION Spec
INVARIANT RowsBounded
PROPERTY RetainedForAge
CHECK_DEADLOCK FALSE
