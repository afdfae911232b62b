CONSTANTS
  Command = {c1, c2, c3}
  NoCommand = NoCommand
  RetryCount = 3
SPECIFICATION FairSpec
CHECK_DEADLOCK FALSE
INVARIANTS
  TypeOK
  AnswersOwnCommand
  UsableSessionIsQuiet
PROPERTIES
  NoSelfHeal
  PerformSettles
