SPECIFICATION LSpec
CONSTANTS
  INT_MAX = 1297
  SIZE_MAX = 2047
  JSP_DEFAULT_BUF_SIZE = 128
  Paths <- SpelledPaths
  Args <- AllArgs
  Lines <- SomeLines
  PathOctet = {".", "a"}
  JSP_PATH_MAX_SEGMENTS = 3
  MaxText = 8
INVARIANTS
  Saturates
  LineIsObeyed
  CapIsSmallest
  PathIsItsSegments
  DotsCutText
CHECK_DEADLOCK FALSE
