SPECIFICATION JSpec
CONSTANTS
  JSP_MAX_DEPTH = 4
  Letter = {"a", "b"}
  Blank = {"_"}
  Paths <- SomePaths
  BytesTokens <- SomeTokens
  Keys <- SomeKeys
  MaxOpen = 5
INVARIANTS
  WritesWhatIsPicked
  MatchesWhatIsSpelled
  StopsWhenDue
CHECK_DEADLOCK FALSE
