CONSTANTS
  None = None
  Callers = {c1, c2}
  Probers = {}
  Controller <- MCController
  Asks <- TwoAsks
  MaxActive = 2
  MaxPolls = 1
  MaxCalls = 2
  MaxRestarts = 0
SPECIFICATION Spec
CHECK_DEADLOCK FALSE
SYMMETRY Symmetry
INVARIANTS
  AtMostOnce
  AnswersFitRequests
