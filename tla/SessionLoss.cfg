SPECIFICATION SessionFairSpec
CONSTANTS
  Acts = {read, click}
  Open = Open
  CloseTab = CloseTab
  Wants <- MCWants
  Commands <- MCCommands
  MaxNoise = 0
  None = None
  read = read
  click = click
CHECK_DEADLOCK FALSE
INVARIANTS
  AtMostOnce
  InterruptedIsUnsent
PROPERTIES
  LossIsFinal
  StepsEnd
  ClosedLeavesNoChild
