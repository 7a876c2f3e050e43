SPECIFICATION Spec
CONSTANTS
  Writers = {w1, w2}
  Capacity = 3
  Lens = {1}
  AutoFlush = 2
  SyncModes <- MCSyncOnly
  Faults = {}
  MaxRecords = 2
  MaxBarriers = 0
  MaxTruncates = 0
INVARIANT AckedIsDurable
