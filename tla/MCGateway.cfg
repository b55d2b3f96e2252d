CONSTANTS
  None = None
  Loop = loop
  Others = {w1}
  Clients = {r1}
  PoolSize = 2
  Catalog <- MCCatalog
  Asks <- MCAsks
  MaxCount = 1
SPECIFICATION FairSpec
CHECK_DEADLOCK FALSE
INVARIANTS
  ReportsNothingOld
  RegistryStays
  RefusalMeansNotRun
PROPERTIES
  HttpKeepsPromise
  RequestAnswered
  ShutdownEnds
  CatchesUp
