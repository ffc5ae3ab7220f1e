SPECIFICATION KSpec
CONSTANTS
  WordWidth = 2
  StreamOctet = {"quote", "backslash", "bracket", "text"}
  KindOf <- ItsKind
  Nul = "text"
  Cap = 4
  MaxStream = 6
INVARIANT ViewsAreStream
PROPERTY ImplementsScan
CHECK_DEADLOCK FALSE
