SPECIFICATION FairSpec
CONSTANTS
  MaxClient = 4
  MaxBackend = 4
  kDefaultBufferSize = 3
  HdsNeed = 2
  GreetLen = 2
  Requests <- AllRequests
  Segmented = TRUE
  ShortWrites = FALSE
INVARIANTS
  BuffersExclusive
  WritesNeverCancelled
  ToBackendFaithful
  NothingLostUpwards
  NothingLostDownwards
PROPERTIES
  RefinesRelay
  TeardownWhenBothGone
  DeadPeerFreesItsHalf
  HandshakeAnswered
  RelayDelivers
