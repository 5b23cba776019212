SPECIFICATION MCSpec
CONSTANTS
    Length = 5
    BlockSize = 2
    BlockCount = 2
    MaxOffset = 6
    MaxWant = 4
    Junk = Junk
    c1 = c1
    c2 = c2
    p1 = p1
    p2 = p2
    NoPath = NoPath
    NoDigest = NoDigest
    MaxObservations = 4
    MaxHarvested = 2
    MaxDeletions = 1
    MaxAcquired = 1
    Pools <- MCPools
    Stores <- MCStores
    Unsupported = {5}
    MaxChain = 3
    MaxWork = 5
    LastRecord = 2
    Volumes <- MCVolumes
    DirectoryNames <- MCDirectoryNames
    LengthOf <- MCLengthOf
    Window = 3
    Overlap = 2
    MaxRecords = 2
    MaxBytes = 3
    MaxResolutions = 2
    MaxPath = 2
    MaxRows = 2
    MaxTime = 2
    MaxChanges = 2
    Zones <- MCZones
    NameForms <- MCNames
    Statements <- MCStatements
    MaxStatements = 2
    Censuses <- MCCensuses
    RowGroup <- GroupOf
    RowWeight <- LogLR
SYMMETRY Symmetry
CHECK_DEADLOCK FALSE
INVARIANTS
    TypeOK
    CacheIsTheDevice
    TheSplitIsTheSameInAnyOrder
    NothingIsMergedOnResemblance
    EveryObservationIsAccountedFor
    DetectionOfAFileHereIsKept
    DeferredNameNoCandidateAlone
    PresentFilesAreKnownPresent
    EvidenceIsOfTheReport
    SharedDigestsAreMutual
    ChainsAreFound
    ScoreIsTheSameInAnyOrder
    SignatureVerdictsAreOrdered
    NamesAreJudgedByOtherFiles
    JournalIsReadInOrder
    DatesAreTrue
PROPERTIES
    ServesTheDevice
    ShortOnlyWhereTheDeviceWas
