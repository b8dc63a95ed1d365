SPECIFICATION SocFairSpec
CONSTANTS
  t1 = t1
  t2 = t2
  i1 = i1
  b0 = b0
  Tags <- MCTags
  Idxs <- MCIdxs
  Byte <- MCByte
  Addrs <- MCAddrs
  Targets = {"sdram", "device", "bridge", "unmapped", "iack"}
  RMW = TRUE
  None = None
  REFRESH_INT = 14
  MaxLatency = 1
  TIMEOUT = 24
  BOOT_CYCLE_MAX = 1
  MaxSetup = 1
  MaxAck = 1
INVARIANT NoFalseBusError
INVARIANT NoRefreshLost
PROPERTY EveryCycleAnswered
