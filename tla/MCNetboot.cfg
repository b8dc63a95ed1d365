SPECIFICATION FairSpec
CONSTANTS
  Byte = 3
  HeaderLen = 2
  BufSize = 3
  Lengths = {0, 3, 8}
  MaxPolls = 2
  MaxLoads = 2
INVARIANT TypeOK
INVARIANT ReceivedIsStream
INVARIANT ShortOnlyIfCut
PROPERTY LoadEnds
CHECK_DEADLOCK FALSE
