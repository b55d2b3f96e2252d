CONSTANTS
  None = None
  Callers = {c1, c2}
  Probers = {}
  Controller <- MCController
  Asks <- AllAsks
  MaxActive = 1
  MaxPolls = 1
  MaxCalls = 1
  MaxRestarts = 1
SPECIFICATION FairSpec
CHECK_DEADLOCK FALSE
INVARIANTS
  AtMostOnce
  TruthfulOutcomes
PROPERTIES
  CallReturns
  KeepsPromise
