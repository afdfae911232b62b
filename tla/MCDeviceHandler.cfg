CONSTANTS
  Address = {a1, a2}
  RunOnce = {FALSE, TRUE}
  FastReads = 1
  SlowReads = 1
  PackReads = 1
  PackNumMax = 2
  SelectsPack = TRUE
  MaxWrites = 1
  MaxOpen = 2
SPECIFICATION FairSpec
CHECK_DEADLOCK FALSE
INVARIANTS
  TypeOK
  ReconnectDropsNoCommand
  OneConnectionPerDevice
PROPERTIES
  StopStartsNothing
  RunEnds
  BrokenSessionNoticed
