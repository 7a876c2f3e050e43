SPECIFICATION FairSpec
CONSTANTS
  Writers = {w1, w2}
  Capacity = 1
  Lens = {1}
  AutoFlush = 2
  SyncModes <- MCBothModes
  Faults = {"sync"}
  MaxRecords = 2
  MaxBarriers = 1
  MaxTruncates = 1
PROPERTY WaitersReturn
