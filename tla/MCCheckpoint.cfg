SPECIFICATION Spec
CONSTANTS
    w1 = w1
    w2 = w2
    k1 = k1
    k2 = k2
    c1 = c1
    c2 = c2
    Root = Root
    None = None
    Writers <- MCWriters2
    Keys <- MCKeys
    Kids <- MCKids1
    MaxInFlight = 2
    MaxManual = 0
    MaxOps = 3
    MaxFaults = 2
    MaxFaultyOps = 2
    MaxCrashes = 1
    Faults = {"write", "flush", "wal", "submit"}
SYMMETRY MCSymmetry
CONSTRAINT FaultsOrWriters
INVARIANTS DurableTreeClosed   UnflushedIsCached  FlushingCountsOwners
CHECK_DEADLOCK FALSE
