SPECIFICATION FairSpec
CONSTANTS
  Initials <- MCInitials
  Deadlines <- MCDeadlines
  MaxInterval = 4
  Timeouts <- MCTimeouts
  Least <- MCLeast
  MaxElapsed = 20
INVARIANTS
  DeadlineBound
PROPERTIES
  TunnelsEnds
CHECK_DEADLOCK FALSE
