SPECIFICATION Spec
CONSTANTS
  Files <- Tables
  Owners <- Names
  Addresses <- Machines
  SignedChar = TRUE
INVARIANT EmptyContentUsesDefault
CHECK_DEADLOCK FALSE
