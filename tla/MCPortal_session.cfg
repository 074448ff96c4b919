SPECIFICATION FairSpec
CONSTANTS
  p1 = p1
  p2 = p2
  c1 = c1
  c2 = c2
  c3 = c3
  Processes = {p1, p2}
  Cameras = {c1, c2, c3}
  Home <- MCHome
  File = File
  None = None
  MaxRestarts = 1
  MaxTroubles = 1
PROPERTIES NoThrashing AllStream
CHECK_DEADLOCK FALSE
