SPECIFICATION Spec
CONSTANTS
    N = 3
    AcquireTop = 1
    MaxUnranked = 1
    MaxUnrankedBytes = 4
    MaxSampleBytes = 1
    MaxTargets = 3
    WriteOut = TRUE
    Deep = TRUE
    DiskFails = FALSE
CHECK_DEADLOCK FALSE
INVARIANT
    UnrankedIsCapped
