CONSTANTS
  Requests = {r1, r2, r3}
  Managers = {m1, m2}
  alpha = alpha
  other = other
  Teams = {alpha}
  DefaultTeam = alpha
  NoRequest = NoRequest
  CallLimit <- TightCalls
  TokenLimit <- NoTokens
  Resets = {"hour"}
  HoursPerDay = 2
  MaxHour = 1
SPECIFICATION Spec
SYMMETRY Symmetry
INVARIANTS OvershootBounded RowsMatchCharges BlockedIsFree
CHECK_DEADLOCK FALSE
