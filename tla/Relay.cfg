SPECIFICATION FairSpec
CONSTANTS
  MaxChunks = 2
INVARIANTS
  TypeOK
  DeliversAll
  NothingLeft
PROPERTIES
  RelayReturns
CHECK_DEADLOCK FALSE
