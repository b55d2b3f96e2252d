CONSTANTS
  None = None
  Segments <- MCSegments
  Services <- MCServices
  Snapshots <- MCSnapshots
  Requests <- MCRequests
SPECIFICATION Spec
CHECK_DEADLOCK FALSE
INVARIANTS
  ListedRoutesLead
  FixedPathsStay
  AliasAlwaysLeads
  AmbiguityResolved
  StatusTellsTheEffect
