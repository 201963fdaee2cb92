CONSTANTS
  errors = errors
  slow = slow
  Rules <- ThreeRules
  Traces <- TwoKinds
  Window = 1
  Cooldown = 3
  MaxLate = 1
SPECIFICATION FairSpec
INVARIANT SnapshotCoversMessages
PROPERTIES MessagesApart LastingIsTold
CHECK_DEADLOCK FALSE
