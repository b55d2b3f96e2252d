CONSTANTS
  None = None
  Segments <- MCSegments
  Controllers <- MCControllers
  RawRequests <- MCRequests
SPECIFICATION Spec
CHECK_DEADLOCK FALSE
INVARIANTS
  DescriptorMatchesDispatch
  RunsOnlyAdmitted
  CodeTellsTheEffect
