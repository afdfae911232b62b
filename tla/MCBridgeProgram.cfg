CONSTANTS
  Device = {d1, d2}
  RunOnce = {FALSE}
  Fields = 2
  Arguments <- MCArguments
  Files <- MCFiles
  Seconds <- MCSeconds
  Address <- MCAddress
  Levels = {"debug", "info", "warn", "error"}
  ReadablePem = {"pem", "pem2"}
SPECIFICATION ProgramSpec
CHECK_DEADLOCK FALSE
INVARIANTS
  TypeOK
  ReleasedWhenOver
  ClientOutlivesPolling
  OneJobPerDevice
  EffectiveOptions
PROPERTIES
  SignalEndsRun
