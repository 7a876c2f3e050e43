CONSTANTS
    Clients = {"c1", "c2"}
    Cases <- MCCases
    MaxRecord = 60
    FlushThreshold = 3
    MaxId = 20
    MinPrefix = 2
    MaxLen = 6
    Frames = {0, 1}
    FrameOf <- MCFrame
    Shard <- MCShard
    ReplayOf <- MCReplay
    ChainOf <- MCChain
    PageFor <- MCPage
    Upgraded <- MCUpgrade
    HeaderOf <- MCHeader
    Persisted <- MCPersist
    Torn <- MCTear
    GenerationsOf <- MCGenerations
    SlotsFor <- MCSlots
    AdmitBatch <- Preflight
    RunBatch <- ApplyOps
    Encoded <- EncodeOps
    ImageOf <- EncodeImage
    FamiliesOf <- DecodeImage
SPECIFICATION Spec
CONSTRAINT Inside
INVARIANTS   LiveRootsDurable StreamIsVolatile
  
