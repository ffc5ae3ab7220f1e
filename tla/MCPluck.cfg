SPECIFICATION Spec
CONSTANTS
  JSP_MAX_DEPTH = 4
  Letter = {"a", "b"}
  Blank = {"_"}
  Paths <- SomePaths
  BytesTokens <- SomeTokens
INVARIANTS
  TypeOK
  MatchesAreOpen
  PhaseFitsWalk
  PhaseFitsString
  KeyTextIsSuffix
  LinesStayFlat
PROPERTIES
  PassesConsume
CHECK_DEADLOCK FALSE
