SPECIFICATION ESpec
CONSTANTS
  JSP_MAX_DEPTH = 3
  Letter = {"a", "backslash"}
  Blank = {"_"}
  Paths <- SomePaths
  BytesTokens <- SomeTokens
PROPERTY OnlyQuoteEndsString
CHECK_DEADLOCK FALSE
