SPECIFICATION MCSpec
CONSTANTS
  Clusters = {2, 3, 4, 5, 6}
  Entries = 2
  Cmd0Tries = 2
  ReadyTries = 2
  ResetTries = 2
  LateErrors = FALSE
  Disks <- MCDisks
  Cards <- MCCards
  Lights = 2
  Pins = {5, 6}
  ReadLimit = 9
  MaxCommands <- MCCommands
  Ranges <- MCRanges
  ZeroSizes = {0, 3, 29, 39}
  RandomReads = 2
INVARIANT TypeOK
INVARIANT ReadHonest
INVARIANT HitIsCurrent
INVARIANT StartedIsFile
INVARIANT Verdict
INVARIANT CacheCurrent
INVARIANT ZeroExact
PROPERTY CardReleased
PROPERTY CommandEnds
CHECK_DEADLOCK FALSE
