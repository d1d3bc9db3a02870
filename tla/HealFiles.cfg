SPECIFICATION HealSpec
CONSTANTS
  Runs = {r1}
  Files = {f1, f2, f3}
  Calls <- WriteCalls
  Steps <- HealSteps
  None = None
  NotGiven = NotGiven
  Overlap = FALSE
  Form <- MCForm
  FindingLists <- MCFindings
  MaxEdits = 1
SYMMETRY Symm
CHECK_DEADLOCK FALSE
INVARIANTS
  LeftoversAreNamed
  RestoreAfterDefinite
  LicensedRewrites
PROPERTIES
  EditsLostInWindow
