CONSTANTS
  None = None
  Procs = {s1, s2}
  Upgraded = {s2}
  OptedOut = {s1, s2}
  Setting <- OptOuts
  Methods <- Versions
  MaxAttempts = 1
  Here = here
  Others = {}
  MaxPasses = 2
SPECIFICATION FairDiscovery
CHECK_DEADLOCK FALSE
PROPERTIES
  DiscoveryEnds
  StaleServicesGo
