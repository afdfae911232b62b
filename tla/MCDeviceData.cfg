CONSTANTS
  Command <- Commands
  Register <- Held
  ExceptionCode = {5}
  Damage <- Masks
  DamageAt = {1, 2, 4, 6, 7}
  ChunkSize = {5, 20}
  Sample <- MCSample
  Sensor <- MCSensor
  MaxCommands = 2
  MaxDeviceChanges = 1
SPECIFICATION DataSpec
CHECK_DEADLOCK FALSE
INVARIANTS
  FrameSaysCommand
  IntactReplyDecidesWhenWhole
  NoiseIsRejected
  ConfusesOnlyLookalikes
  CommandWritesItsField
  SchemaFitsWindows
PROPERTIES
  StateFollowsCommand
