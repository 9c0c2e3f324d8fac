SPECIFICATION FairSpec
CONSTANTS
  BatchRows = 2
  RoundRows = 3
  QuietRestore = TRUE
  MaxLogins = 3
  MaxInstances = 2
  MaxRestores = 1
  MaxFaults = 1
INVARIANT TypeOK
INVARIANT NoneSkipped
INVARIANT TrailTellsPosition
INVARIANT NoSpuriousRewind
PROPERTY DatabaseChangeIsTold
PROPERTY ImplementsLedger
PROPERTY EveryLoginRecorded
