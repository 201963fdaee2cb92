CONSTANTS
  errors = errors
  slow = slow
  TraceOf <- TwoServers
  Rules = {errors}
  RuleOf <- ErrorsOrSlow
  Window = 3
  Targets <- HookThenSlack
  Attempts = 2
  MaxBreaks = 1
  NoRule = none
  MaxEdits = 1
SPECIFICATION Spec
INVARIANTS EventsChain RepeatsNeedCause RepeatsOverlap LatestCatchesUp DeliveryHonest OneRowAgrees
CHECK_DEADLOCK FALSE
