SPECIFICATION FairSpec
CONSTANTS
    Total = 5
    Chunk = 2
    Window = 1
    Targets <- MCTargets
    Images <- MCImages
    MaxRead = 8
    MaxHeaders = 4
    MaxHashed = 2
    MaxLength = 4
    MaxBad = 1
CHECK_DEADLOCK FALSE
INVARIANT
    ExhaustiveMeansCovered
