SPECIFICATION FairSpec
CONSTANTS
  h1 = h1
  h2 = h2
  a1 = a1
  a2 = a2
  Handlers <- MCHandlers
  Agents <- MCAgents
  ConfigLists <- MCShortLists
  Direct = direct
  Rotator = rotator
  InitRetries = 0
  Rotate = TRUE
  MaxAttempts = 2
  MaxTicks = 2
PROPERTIES
  TransactionEnds
  TickServed
  AuthReturns
CHECK_DEADLOCK FALSE
