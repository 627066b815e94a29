SPECIFICATION Spec
CONSTANTS
  MaxPid = 8
  Reuse = FALSE
  Commands <- AllCommands
  Operator = "patient"
  Modes <- MasterOnly
  Crashes = FALSE
INVARIANT RestartReportsNewDaemon
CHECK_DEADLOCK FALSE
