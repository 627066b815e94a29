SPECIFICATION FairSpec
CONSTANTS
  Characters <- Chars
  Handshakes <- Clients
  Malformed <- Packets
  Address = 40
INVARIANTS
  TypeOK
  WholeUnderstood
  CutNeverMisrouted
  OwnerExact
PROPERTY BothReturn
CHECK_DEADLOCK FALSE
