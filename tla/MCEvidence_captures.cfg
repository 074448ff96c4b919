SPECIFICATION FairSpec
CONSTANTS
  Captures = {c1, c2}
  Workers = {w1, w2}
  Servers = {w1}
  None = None
  Unique = TRUE
  MaxCrashes = 2
INVARIANTS SealMatchesClip PendingIsAnswered
PROPERTIES SealKept PendingEnds
CHECK_DEADLOCK FALSE
