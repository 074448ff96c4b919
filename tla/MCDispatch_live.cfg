SPECIFICATION FairSpec
CONSTANTS
  o1 = o1
  o2 = o2
  a1 = a1
  a2 = a2
  Officers = {o1, o2}
  Alerts = {a1, a2}
  Calls = {c1, c2}
  Ackers = {k1}
  Tickers = {t1}
  Dist <- MCDist
  Resolvable = {a1, a2}
  Located = {a1, a2}
  None = None
  MaxFaults = 1
  MaxOverrides = 0

PROPERTIES PendingResolves OfficerReturns OverdueResolved
CHECK_DEADLOCK FALSE
