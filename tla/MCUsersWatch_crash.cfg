SPECIFICATION Spec
CONSTANTS
  Names = {1, 2}
  Groups = {1}
  Versions <- TwoVersions
  ChunkIds = 1
  QuietCrash = FALSE
  MaxEdits = 3
  MaxStops = 1
  MaxFaults = 1
INVARIANT TrailTellsAccounts
