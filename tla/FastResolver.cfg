SPECIFICATION FairSpec
CONSTANTS
  u1 = u1
  u2 = u2
  u3 = u3
  Upstreams <- MCUpstreams
  NoUpstream = none
INVARIANTS
  TypeOK
  ResultJustified
PROPERTIES
  CallerReturns
  NoGoroutineLeak
CHECK_DEADLOCK FALSE
