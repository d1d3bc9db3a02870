\* Two steps of a session over the DevTools connection.
CONSTANTS
  Steps = 2
  MaxMoves = 2
  MaxDialogs = 1
  None = None
  StepSet <- MCStepSet
SPECIFICATION Spec
INVARIANTS
  DefiniteIsUnsent
  AppliedIsWhole
  StrayOnlyInWindow
  UndeclaredNeverSubmits
  ScriptOnce
