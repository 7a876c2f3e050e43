SPECIFICATION Spec
CONSTANTS
  Guid = {g1, g2}
  Reader = {r1}
  g1 = g1
  g2 = g2
  r1 = r1
  NumSlots = 3
  MaxBatch = 2
  MaxWrites = 3
  MaxCrashes = 2
  MaxFaults = 1
  Faults = {"write", "sync", "append", "torn_append", "snapshot", "dir_sync", "truncate", "copy"}
  NoGuid = NoGuid
SYMMETRY Symmetric
CONSTRAINT ReadersOrCrashes
INVARIANTS TypeOK RecoveredIsPrefix   SlotsHaveOneUse ReadIsOfResolvedFrame
CHECK_DEADLOCK FALSE
