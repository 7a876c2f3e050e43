SPECIFICATION FairSpec
CONSTANTS
    w1 = w1
    w2 = w2
    k1 = k1
    k2 = k2
    c1 = c1
    c2 = c2
    Root = Root
    None = None
    Writers <- MCWriters1
    Keys <- MCKeys
    Kids <- MCKids1
    MaxInFlight = 1
    MaxManual = 1
    MaxOps = 2
    MaxFaults = 0
    MaxFaultyOps = 2
    MaxCrashes = 0
    Faults = {}
PROPERTY CheckpointConverges
