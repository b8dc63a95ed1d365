SPECIFICATION MCSpec
CONSTANTS
  REFRESH_CYCLE_CNT = 40
  CLK_MIN = 2
  CLK_MAX = 3
  Addrs <- MCAddrs
  Kinds <- MCKinds
  Byte = {0, 1}
  MaxSlow = 5
  MaxResets = 1
INVARIANT MemoryCorrect
INVARIANT ReadSeesMemory
INVARIANT NoContention
INVARIANT NoRefreshLost
PROPERTY Ends
