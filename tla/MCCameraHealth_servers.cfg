SPECIFICATION FairSpec
CONSTANTS
  s1 = s1
  s2 = s2
  plain = plain
  portal = portal
  Cameras = {plain, portal}
  Portal = {portal}
  Servers = {s1, s2}
  Installations <- MCInstallations
  None = None
  Database = "sqlite"
  Threshold = 2
  MaxFailures = 3
  MaxPatches = 2
  MaxFaults = 1
INVARIANTS MaintenanceShown CounterMatchesStatus
PROPERTIES FlipNeedsConsecutiveFailures RecoveredIsShown DeadIsShown
