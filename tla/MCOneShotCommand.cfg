SPECIFICATION CommandSpec
CONSTANTS
  Own = own
  Transport = {own}
  RetryCount = 3
  MaxNotes = 1
INVARIANTS NothingMissed OutcomeOfWork
PROPERTY ImplementsContract
CHECK_DEADLOCK FALSE
