SPECIFICATION SysFairSpec
CONSTANTS
  IDE_WAIT = 3
  DUART_WAIT = 0
  TIMER_DIVIDER = 5
  BOOT_CYCLE_MAX = 2
  Spaces = {"sram", "dram", "duart", "ide", "on", "off", "hole"}
  MaxResets = 1
INVARIANT NoEventLost
INVARIANT QuietWhenDisabled
INVARIANT DuartWaitHeld
INVARIANT SpacedIdeWaitHeld
PROPERTY CycleEnds
