SPECIFICATION FlowFairSpec
CONSTANTS
  Runs = {r1, r2}
  Calls <- MCCalls
  Steps <- MCSteps
  Flow <- TwoSubmits
  Overlap = TRUE
  None = None
  kFill = kFill
  kSend = kSend
  kConfirm = kConfirm
CHECK_DEADLOCK FALSE
INVARIANTS
  DefiniteIsTrue
  ResultMatchesStore
PROPERTIES
  GateClosedForGood
  ImplementsSubmitOnce
  RunsEnd
