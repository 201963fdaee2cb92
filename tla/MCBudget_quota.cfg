CONSTANTS
  Requests = {r1, r2}
  Managers = {m1}
  alpha = alpha
  other = other
  Teams = {alpha, other}
  DefaultTeam = alpha
  NoRequest = NoRequest
  CallLimit <- DayBinds
  TokenLimit <- TightTokens
  Resets = {}
  HoursPerDay = 2
  MaxHour = 1
SPECIFICATION FairSpec
INVARIANTS CallsWithinLimit
PROPERTIES ImplementsQuota EveryCallDecided TokensGateAdmission
CHECK_DEADLOCK FALSE
