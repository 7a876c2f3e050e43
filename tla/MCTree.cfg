CONSTANTS
    NodeSize <- MCNodeSize
    Capacity <- MCCapacity
    ValLen <- MCValLen
    PageSize = 14
    MaxSlots = 20
    Reservation = 3
    PrefixMaxInline = 3
    RouteMinLeaf = 6
    RoutePage = 2
    DeadLimit = 4
    MergeReserve = 3
    MinFill = 4
    TargetFill = 8
    Slash = 9
    Root = 1
    Keys <- MCKeys
    Writers = {w1, w2}
    Readers = {r1}
    Cases <- MCCases
    MaxAttempts = 8
    LookupIn <- LookupKey
    LongestIn <- LongestPrefixAt
    VisitFrame <- InBlob
    RepointAt <- RepointBlobNode
    Compacted <- CompactBlob
    NeedsCompaction <- BlobNeedsCompaction
    WantsCompaction <- BlobWantsCompaction
    MergePass <- TryMergeChildren
    EdgesOf <- Edges
    ReachFrom <- Reach
    ContentsOf <- Contents
    TreeOf <- Loaded
    HeaderIsExact <- HeaderExact
    StepIn <- StepInBlob
    EnterIn <- EnterBlob
    EnterCold <- EnterIndexed
    Hash <- MCHash
    MinBuckets = 1
    MaxBuckets = 2
    InlineMax = 0
    MaxValues = 1
    MaxComponents = 9
    Delimiters <- MCDelimiters
    Forgotten <- ForgetPath
    KeyLess <- LexLess
    NoLowerBound = NoBound
    NoBound = NoBound
    ByteMax = 2
    NoRecord = NoRecord
    Idle = Idle
SPECIFICATION Spec
INVARIANTS NoDanglingEdge CountersExact SnapshotFramesShared ScanOrdered 
PROPERTIES RefinesKVMap ScanEmitsCurrent
CHECK_DEADLOCK FALSE
