SPECIFICATION MCSpec
CONSTANTS
  t1 = t1
  t2 = t2
  i1 = i1
  b0 = b0
  b1 = b1
  Tags <- MCTags
  Idxs <- MCIdxs
  Byte <- MCByte
  Addrs <- MCAddrs
  Targets = {"sdram", "device"}
  RMW = TRUE
  None = None
  REFRESH_INT = 7
  MaxLatency = 0
PROPERTY WritesLand
