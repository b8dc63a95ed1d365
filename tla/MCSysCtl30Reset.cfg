SPECIFICATION SysSpec
CONSTANTS
  IDE_WAIT = 3
  DUART_WAIT = 0
  TIMER_DIVIDER = 5
  BOOT_CYCLE_MAX = 2
  Spaces = {"ide"}
  MaxResets = 1
INVARIANT VectorsFromRom
