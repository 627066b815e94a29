SPECIFICATION FairSpec
CONSTANTS
  c1 = c1
  c2 = c2
  t1 = t1
  t2 = t2
  a1 = a1
  a2 = a2
  a3 = a3
  a4 = a4
  NoClient = NoClient
  Clients <- TwoClients
  Threads <- TwoThreads
  Addresses <- FourAddresses
  Descriptors = 2
  Exceptions = TRUE
INVARIANTS
  SessionOutlivesItsHandlers
  AcceptsIntoFreshSession
  NothingLeaked
PROPERTIES
  WaitingAccepted
  SessionsEnd
CHECK_DEADLOCK FALSE
