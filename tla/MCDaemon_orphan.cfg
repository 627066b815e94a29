SPECIFICATION FairSpec
CONSTANTS
  MaxPid = 6
  Reuse = FALSE
  Commands <- StartStop
  Operator = "patient"
  Modes <- MasterOnly
  Crashes = TRUE
PROPERTY StopTakesWorkerDown
CHECK_DEADLOCK FALSE
