SPECIFICATION Spec
CONSTANTS
  s1 = s1
  a1 = a1
  Services <- OneService
  Admins <- OneAdmin
  MaxTries <- Tries
  None = none
  MaxParts = 0
  MaxFaults = 1
INVARIANT HeartbeatGoesOn
CHECK_DEADLOCK FALSE
