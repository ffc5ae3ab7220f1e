SPECIFICATION FairSpec
CONSTANTS
  Octet = {0, 1}
  BlockSize = 2
  Cap = 4
  MaxStream = 7
INVARIANTS
  TypeOK
  BlocksAreStream
  FullWidthReadable
  ReadsHaveRoom
PROPERTIES
  ImplementsBlockSource
  EveryOctetDelivered
