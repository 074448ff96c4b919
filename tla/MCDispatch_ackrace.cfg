SPECIFICATION Spec
CONSTANTS
  o1 = o1
  o2 = o2
  a1 = a1
  a2 = a2
  Officers = {o1, o2}
  Alerts = {a1}
  Calls = {c1}
  Ackers = {k1}
  Tickers = {t1}
  Dist <- MCDist
  Resolvable = {a1}
  Located = {a1}
  None = None
  MaxFaults = 0
  MaxOverrides = 0
INVARIANT NoOfficerLeftBehind

CHECK_DEADLOCK FALSE
