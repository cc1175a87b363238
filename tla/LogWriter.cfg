SPECIFICATION FairSpec
CONSTANTS
  l1 = l1
  l2 = l2
  Loggers <- MCLoggers
  QLen = 2
  Pill = pill
  MaxWrites = 3
INVARIANTS
  TypeOK
  InOrder
PROPERTIES
  ImplementsLossyLog
  AcceptedIsWritten
  CloseReturns
CHECK_DEADLOCK FALSE
