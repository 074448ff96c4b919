SPECIFICATION Spec
CONSTANTS
  s1 = s1
  s2 = s2
  plain = plain
  portal = portal
  Cameras = {plain, portal}
  Portal = {portal}
  Servers = {s1, s2}
  Installations <- MCInstallations
  None = None
  Database = "sqlite"
  Threshold = 2
  MaxFailures = 3
  MaxPatches = 0
  MaxFaults = 0
PROPERTIES ErrorsNeverFlip
