SPECIFICATION Spec
CONSTANTS
  Writers = {w1, w2}
  Payloads = {a, b, c}
  Genesis = Genesis
  None = None
  BatchSize = 2
  MaxRows = 5
SYMMETRY MCSymmetry
INVARIANTS AlarmHasCause
PROPERTIES LossIsReported ForkIsReported
CHECK_DEADLOCK FALSE
