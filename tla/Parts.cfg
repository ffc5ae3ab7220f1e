SPECIFICATION PartsSpec
CONSTANTS
  WordWidth = 8
  Fillers = {0, 32, 34, 43, 47, 58, 61, 91, 92, 125, 208, 255}
  Places = {0, 1, 15, 16, 31, 32, 62, 63}
  JSP_MAX_DEPTH = 5
  AnyOctet = {"a", "b"}
  MaxLen = 4
INVARIANTS
  TricksWork
  MasksAreKinds
  NestingTypeOK
  AllOrFailure
PROPERTIES
  ImplementsStack
  CallReturns
CHECK_DEADLOCK FALSE
