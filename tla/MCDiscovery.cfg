CONSTANTS
  None = None
  Procs = {s1, s2}
  Upgraded = {s2}
  OptedOut = {s2}
  Setting <- OptOuts
  Methods <- Versions
  MaxAttempts = 1
  Here = here
  Others = {o1}
  MaxPasses = 1
SPECIFICATION DiscoverySpec
CHECK_DEADLOCK FALSE
INVARIANTS
  DiscoveryTypeOK
  ClientFitsDescriptor
  FailureIsLocal
