SPECIFICATION StdioFairSpec
CONSTANTS
  Commands = {c1, c2}
  MaxNoise = 2
  None = None
CHECK_DEADLOCK FALSE
INVARIANTS
  RefusedNeverRan
  AnswerIsOwn
PROPERTIES
  EveryCallAnswered
