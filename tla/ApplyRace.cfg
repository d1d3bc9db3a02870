SPECIFICATION ApplySpec
CONSTANTS
  Runs = {r1, r2}
  Calls <- MCCalls
  Steps <- MCSteps
  Fields <- OneField
  SubmitStep <- MCSubmit
  Identified = TRUE
  Overlap = TRUE
  None = None
  kName = kName
  kTerms = kTerms
  kSend = kSend
SYMMETRY Symm
CHECK_DEADLOCK FALSE
INVARIANTS
  PlanSubmittedOnce
