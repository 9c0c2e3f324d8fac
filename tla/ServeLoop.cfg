\* One loop over both sources: an interval, a poll of the log and one of the
\* users file of a tick each, which together are all that health tolerates;
\* a backlog longer than a poll, one stop, one fault.
SPECIFICATION FairSpec
CONSTANTS
  Interval = 1
  LeastAge = 3
  RoundTime = 1
  UsersTime = 1
  BatchRows = 2
  RoundRows = 3
  MaxWaiting = 3
  MaxStops = 1
  MaxFaults = 2
INVARIANTS
  TypeOK
  NoFalseAlarm
  HealthyHasRead
  StopInTime
  StopsShort
PROPERTIES
  LoginsAreExported
  EditsAreSeen
  StopEnds
