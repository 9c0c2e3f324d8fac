SPECIFICATION FairSpec
CONSTANTS
  Names = {1, 2}
  Groups = {1}
  Versions <- FewVersions
  ChunkIds = 1
  QuietCrash = TRUE
  MaxEdits = 2
  MaxStops = 1
  MaxFaults = 0
PROPERTY UnreadableIsRecorded
