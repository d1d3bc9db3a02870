SPECIFICATION TestFairSpec
CONSTANTS
  cli = cli
  web = web
  surf = surf
  Agents <- MCAgents
  Commands <- MCCommands
  Leaves <- MCLeaves
  Kind <- MCKind
  Configs <- MCConfigs
  Texts <- MCTexts
  None = None
CHECK_DEADLOCK FALSE
INVARIANTS
  VerifiedIsEarned
  RootCauseIsAgreed
  TimedOutOutlived
  OnlyQuietOutlive
PROPERTIES
  RunReports
