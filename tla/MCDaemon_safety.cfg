SPECIFICATION Spec
CONSTANTS
  MaxPid = 8
  Reuse = TRUE
  Commands <- AllCommands
  Operator = "patient"
  Modes <- BothModes
  Crashes = TRUE
INVARIANTS
  TypeOK
  DaemonOnRecord
  WorkerAttended
PROPERTIES
  UnlinksOwnPidfile
  RefusedOnlyWhenRunning
CHECK_DEADLOCK FALSE
