SPECIFICATION PlanSpec
CONSTANTS
  n1 = n1
  n2 = n2
  n3 = n3
  A = A
  B = B
  None = None
  Nodes <- MCNodes
  Elements <- MCElements
  FirstPages <- MCFirstPages
  Places <- MCPlaces
  OriginOf <- MCOriginOf
  AllowOrigins = {"ours"}
  FormSelector <- MCFormSelector
  Requests <- MCRequests
  MaxChanges = 1
CHECK_DEADLOCK FALSE
INVARIANTS
  SubmitIsReviewed
  ActsWhereAllowed
  UnchangedPasses
