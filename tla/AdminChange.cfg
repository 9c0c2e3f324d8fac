SPECIFICATION Spec
CONSTANTS
  Operators = {o1, o2}
  MaxStops = 2
  MaxSignals = 2
  MaxFailures = 1
INVARIANT TypeOK
INVARIANT OkMeansChanged
INVARIANT InterruptedIsNoSuccess
INVARIANT UnrecordedIsTold
CHECK_DEADLOCK FALSE
