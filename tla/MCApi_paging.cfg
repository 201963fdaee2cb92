CONSTANTS
  r1 = r1
  r2 = r2
  r3 = r3
  d1 = d1
  h1 = h1
  Records = {r1, r2, r3}
  Subscribers = {}
  Capacity = 1
  KindOf <- Mixed
  IsError = {r1}
  FilterOf <- NoFilter
  MaxAge = 1
  MaxCount = 2
  StoreFails = FALSE
  Skew = 0
  MaxTime = 2
  Readers = {d1}
  WantedBy <- Anything
  PageSize = 1
  Hosts = {h1}
  HostOf <- OneHost
  Burst = 2
  Rate = 1
SPECIFICATION ApiSpec
INVARIANTS PagingMissesNone AdmissionBounded
CHECK_DEADLOCK FALSE
