SPECIFICATION Spec
CONSTANTS
  Writers = {w1, w2}
  Capacity = 3
  Lens <- MCLens
  AutoFlush = 3
  SyncModes <- MCBothModes
  Faults = {"append", "sync", "truncate", "torn_truncate"}
  MaxRecords = 2
  MaxBarriers = 1
  MaxTruncates = 1
INVARIANTS LogIsReservationOrder FlushedIsLowerBound BarrierDurable ResetFindsDrainedRing
SYMMETRY MCSymmetry
