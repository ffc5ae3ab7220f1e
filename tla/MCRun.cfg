SPECIFICATION RSpec
CONSTANTS
  JSP_MAX_DEPTH = 3
  Letter = {"a"}
  Blank = {"_"}
  Paths <- SomePaths
  BytesTokens <- SomeTokens
  MaxOctets = 5
INVARIANTS
  FaultIsLocated
  LinesHoldOneScalar
  ErrnoIsOfFirstFailure
CHECK_DEADLOCK FALSE
