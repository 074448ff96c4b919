SPECIFICATION FairSpec
CONSTANTS
  Tracks = {t1, t2}
  Window = 3
  FlagTime = 1
  MaxInflight = 2
  Slots = {1, 2}
  MaxFaults = 1
PROPERTIES BudgetKept CameraIsNotSilenced
