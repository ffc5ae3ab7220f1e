SPECIFICATION PSpec
CONSTANTS
  JSP_MAX_DEPTH = 3
  Letter = {"a", "backslash"}
  Blank = {"_"}
  Paths <- SomePaths
  BytesTokens = {}
  MaxOctets = 32
  WordWidth = 4
  StreamOctet = {"a", "backslash", "_", "lbrace", "rbrace", "lbracket", "rbracket", "colon", "comma", "quote"}
  KindOf <- ItsKind
  Nul = "a"
  Cap = 8
  MaxStream = 32
  Texts <- SomeTexts
INVARIANTS
  OutputIsPicked
  ZeroMeansWhole
  StopIsLocated
PROPERTIES
  ProgramExits
CHECK_DEADLOCK FALSE
