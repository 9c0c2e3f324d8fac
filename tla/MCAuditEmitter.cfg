SPECIFICATION FairSpec
CONSTANTS
  s1 = s1
  a1 = a1
  Services <- OneService
  Admins <- OneAdmin
  MaxTries <- Tries
  None = none
  MaxParts = 1
  MaxFaults = 1
INVARIANT TypeOK
INVARIANT LinesNeverInterleave
INVARIANT LogVerifies
INVARIANT NothingLostUntold
INVARIANT StartOrLoneEnd
PROPERTY FailureEnds
CHECK_DEADLOCK FALSE
