SPECIFICATION Spec
CONSTANTS
  a = a
  b = b
  Instances <- TwoChains
  MaxEvents <- EventsOf
  Genesis = genesis
  Silence = 1
  MaxWindows = 3
  MaxHarm = 2
INVARIANT TypeOK
INVARIANT NoFalseAlarm
INVARIANT CleanMeansComplete
INVARIANT EndedMeansWhole
INVARIANT WindowsHideNothing
INVARIANT LostEndIsNoticed
CHECK_DEADLOCK FALSE
