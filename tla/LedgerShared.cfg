SPECIFICATION Spec
CONSTANTS
  Runs = {r1, r2}
  Calls = {c1, c2, c3}
  None = None
  kWrite = kWrite
  kBad = kBad
  Steps <- MixedSteps
  Overlap = TRUE
SYMMETRY Symm
CHECK_DEADLOCK FALSE
INVARIANTS
  RepeatsOverlap
PROPERTIES
  NoBlindRepeat
  ImplementsInterlock
