SPECIFICATION FairSpec
CONSTANTS
  t1 = t1
  t2 = t2
  Threads <- TwoThreads
  MAX_LINE_NUMBER = 1
  MaxLines = 3
  MaxMinute = 2
  OpenFails = TRUE
  Signals = TRUE
INVARIANTS
  TypeOK
  StreamsOpen
  LinesInOrder
PROPERTIES
  LostOnlyByClash
  LogReturns
CHECK_DEADLOCK FALSE
