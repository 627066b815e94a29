SPECIFICATION Spec
CONSTANTS
  Files <- Tables
  Owners <- Names
  Addresses <- Machines
  SignedChar = TRUE
INVARIANTS
  TypeOK
  RoutedByName
CHECK_DEADLOCK FALSE
