CONSTANTS
  Device = {d1, d2}
  RunOnce = {FALSE, TRUE}
  Fields = 2
SPECIFICATION FairSpec
CHECK_DEADLOCK FALSE
PROPERTIES
  SignalEndsProcess
