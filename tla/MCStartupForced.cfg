CONSTANTS
  None = None
  Procs = {s1, s2}
  Upgraded = {}
  OptedOut = {s2}
  Setting <- OptOuts
  Methods <- Versions
  MaxAttempts = 3
SPECIFICATION FairSpec
CHECK_DEADLOCK FALSE
INVARIANT WholeOrGone
PROPERTY StartEnds
