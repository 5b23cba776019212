SPECIFICATION MCSpec
CONSTANTS
    N = 3
    AcquireTop = 2
    MaxUnranked = 2
    MaxUnrankedBytes = 1
    MaxSampleBytes = 1
    MaxTargets = 2
    WriteOut = TRUE
    Deep = TRUE
    DiskFails = TRUE
    c1 = c1
    c2 = c2
    NoContent = NoContent
    TornFile = TornFile
    NoBitmap = NoBitmap
    MaxWriteFailures = 1
    MaxRecorded = 1
    Blocks = 2
    BlockSize = 2
    Rest = 1
    Slots = 2
    PerBlock = 1
    MaxListBlocks = 2
    MaxDescriptors = 2
    MaxUncertain = 2
CHECK_DEADLOCK FALSE
INVARIANTS
    TypeOK
    ChainTypeOK
    SavedFileIsTheReportedOne
    IdentityIsVouchedFor
    EarliestUnprovableIsReported
    SavedBytesAreOnDisk
    OverrunIsOneSample
    HitsAreWholeAndFirst
    ExhaustiveMeansCompared
    TheSnapshotIsServed
PROPERTIES
    OneDecision
    RecoveredBytesAreKept
    Termination
