CONSTANTS
  None = None
  Procs = {s1, s2, s3}
  Upgraded = {s3}
  OptedOut = {s1, s2, s3}
  Setting <- OptOuts
  Methods <- Versions
  MaxAttempts = 2
SPECIFICATION Spec
CHECK_DEADLOCK FALSE
INVARIANTS
  TypeOK
  OneServer
  NoMixedPair
