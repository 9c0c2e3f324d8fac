SPECIFICATION Spec
CONSTANTS
  BatchRows = 2
  RoundRows = 3
  MaxLogins = 3
  MaxInstances = 2
  MaxRestores = 1
  MaxFaults = 1
  QuietRestore = FALSE
INVARIANT NoneSkipped
