SPECIFICATION Spec
CONSTANTS
  h1 = h1
  h2 = h2
  a1 = a1
  a2 = a2
  Handlers <- MCHandlers
  Agents <- MCAgents
  ConfigLists <- MCConfigLists
  Direct = direct
  Rotator = rotator
  InitRetries = 2
  Rotate = TRUE
  MaxAttempts = 2
  MaxTicks = 2
INVARIANTS
  TypeOK
  HeadersAreGrants
  HeaderNeverTorn
  FailoverExhaustive
  AgentsWereLive
  GivesUpWhenSpent
PROPERTIES
  ImplementsRegister
CHECK_DEADLOCK FALSE
SYMMETRY MCSymmetry
