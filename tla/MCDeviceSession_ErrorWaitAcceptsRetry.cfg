CONSTANTS
  Command = {c1, c2, c3}
  NoCommand = NoCommand
  RetryCount = 3
SPECIFICATION Spec
CHECK_DEADLOCK FALSE
PROPERTIES
  ErrorWaitAcceptsRetry
