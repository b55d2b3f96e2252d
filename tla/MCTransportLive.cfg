CONSTANTS
  None = None
  Callers = {c1}
  Probers = {p1}
  Controller <- MCController
  Asks <- SucceedsOrEscapes
  MaxActive = 1
  MaxPolls = 1
  MaxCalls = 2
  MaxRestarts = 0
SPECIFICATION FairSpec
CHECK_DEADLOCK FALSE
INVARIANTS
  TypeOK
  ActiveReleased
PROPERTIES
  CallReturns
  RequestServed
  KeepsPromise
