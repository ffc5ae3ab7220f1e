SPECIFICATION RSpec
CONSTANTS
  JSP_MAX_DEPTH = 3
  Letter = {"a"}
  Blank = {"_"}
  Paths <- SomePaths
  BytesTokens <- SomeTokens
  MaxOctets = 4
INVARIANT OkMeansClosed
CHECK_DEADLOCK FALSE
