SPECIFICATION FairSpec
CONSTANTS
  v1 = v1
  v2 = v2
  Vehicles = {v1, v2}
  Units = {u1}
  None = None
  MinPoints = 2
  MaxPoints = 3
  QueueMax = 1
  MaxAttempts <- MCAttempts
  MaxLaps <- MCLaps
  MaxFaults = 1
INVARIANTS AlertIsVouchedFor StolenEventHasAlert
PROPERTIES StolenIsAlerted RecordKept
CHECK_DEADLOCK FALSE
