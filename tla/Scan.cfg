SPECIFICATION Spec
CONSTANTS
  WordWidth = 4
  MaxBlocks = 2
INVARIANTS
  ScanMatchesText
  StringsEndAtQuotes
  TraceShowsTokens
PROPERTY TokensTile
CHECK_DEADLOCK FALSE
