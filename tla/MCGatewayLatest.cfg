CONSTANTS
  None = None
  Loop = loop
  Others = {w1}
  Clients = {}
  PoolSize = 2
  Catalog <- MCCatalog
  Asks <- NoAsks
  MaxCount = 1
SPECIFICATION Spec
CHECK_DEADLOCK FALSE
PROPERTY LatestSnapshot
