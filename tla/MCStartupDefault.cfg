CONSTANTS
  None = None
  Procs = {s1, s2}
  Upgraded = {}
  OptedOut = {}
  Setting <- OptOuts
  Methods <- Versions
  MaxAttempts = 2
SPECIFICATION Spec
CHECK_DEADLOCK FALSE
INVARIANT NobodyIsTakenOver
