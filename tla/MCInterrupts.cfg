SPECIFICATION Spec
CONSTANTS
  Reload <- MCReload
  Enter = Enter
  Other = Other
  FifoSize = 2
  RxSize = 2
  DelayTurns = 24
  Slack = 3
  GuardLimit = 14
  MaxTyped = 3
INVARIANT TicksCounted
INVARIANT BytesInOrder
INVARIANT HonestVerdict
INVARIANT TimeMeasured
CHECK_DEADLOCK FALSE
