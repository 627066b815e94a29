SPECIFICATION FairSpec
CONSTANTS
  MaxPid = 6
  Reuse = FALSE
  Commands <- StartStop
  Operator = "orderly"
  Modes <- MasterOnly
  Crashes = TRUE
PROPERTIES
  CrashRepaired
  StopTakesEffect
CHECK_DEADLOCK FALSE
