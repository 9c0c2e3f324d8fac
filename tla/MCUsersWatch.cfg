SPECIFICATION FairSpec
CONSTANTS
  Names = {1, 2}
  Groups = {1}
  Versions <- FewVersions
  ChunkIds = 1
  QuietCrash = TRUE
  MaxEdits = 3
  MaxStops = 1
  MaxFaults = 1
INVARIANT TypeOK
INVARIANT TrailTellsAccounts
INVARIANT NothingToldTwice
PROPERTY RoundTellsOneVersion
PROPERTY LastingVersionIsRecorded
