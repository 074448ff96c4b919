SPECIFICATION Spec
CONSTANTS
  Officers = {o1, o2, o3}
  Seniors = {o1}
  Sessions = {x1, x2, x3, x4}
  Handlers = {h1, h2}
  Decisions = {match, reject}
  None = None
  SessionsKept = TRUE
  MaxFaults = 1
SYMMETRY MCSymmetry
INVARIANTS ConsensusBehindVault PairIsBorneOut TrainingIsVouchedFor ReviewsSettle
PROPERTIES VaultKept
CHECK_DEADLOCK FALSE
