SPECIFICATION ParseSpec
CONSTANTS
  Arguments <- MCArguments
  Files <- MCFiles
  Seconds <- MCSeconds
  Address <- MCAddress
  Levels = {"debug", "info", "warn", "error"}
  ReadablePem = {"pem", "pem2"}
INVARIANTS
  FlagsOverrideFile
CHECK_DEADLOCK FALSE
