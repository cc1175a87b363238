SPECIFICATION Spec
CONSTANTS
  h1 = h1
  h2 = h2
  c1 = c1
  c2 = c2
  c3 = c3
  Handlers <- MCHandlers
  Conns <- MCConns
  RequestFields <- MCRequestFields
  MaxIdle = 1
  MaxChunks = 1
  MaxRotations = 1
INVARIANTS
  NothingHeld
  RequestForwarded
CHECK_DEADLOCK FALSE
