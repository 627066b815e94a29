SPECIFICATION Spec
CONSTANTS
  MaxClient = 3
  MaxBackend = 2
  kDefaultBufferSize = 2
  HdsNeed = 2
  GreetLen = 2
  Requests <- GoodRequests
  Segmented = FALSE
  ShortWrites = TRUE
INVARIANT ToBackendFaithful
