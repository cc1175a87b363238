SPECIFICATION FairReadSpec
CONSTANTS
  CR = cr
  LF = lf
  Others = {zero, other}
  Zero = zero
  MaxBytes = 7
INVARIANTS
  HeadIsExact
PROPERTIES
  ResponseEnds
CHECK_DEADLOCK FALSE
