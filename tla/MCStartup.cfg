SPECIFICATION Spec
CONSTANTS
  Starts <- MCStarts
  Lines <- MCLines
  Begins <- MCBegins
  PastEnd = {"null", "wild"}
  Digits <- MCDigits
  TooLong <- MCTooLong
  OutOfRange <- MCOutOfRange
  Wide <- MCWide
  Worth <- MCWorth
  MaxThreads = 1000
INVARIANTS
  TypeOK
  OptionsAsWritten
  OperandsBehindOptions
  ValidUnderstood
  
  ServesAsWritten
