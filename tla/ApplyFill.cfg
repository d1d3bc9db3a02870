SPECIFICATION ApplySpec
CONSTANTS
  Runs = {r1, r2}
  Calls <- MCCalls
  Steps <- MCSteps
  Fields <- TwoFields
  SubmitStep <- MCSubmit
  Identified = TRUE
  Overlap = FALSE
  None = None
  kName = kName
  kTerms = kTerms
  kSend = kSend
SYMMETRY Symm
CHECK_DEADLOCK FALSE
INVARIANTS
  ClickAfterFill
  OneStrayAct
PROPERTIES
  ImplementsSubmitOnce
