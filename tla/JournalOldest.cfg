SPECIFICATION Spec
CONSTANTS
    LastRecord = 1
    Volumes <- MCVolumes
    DirectoryNames <- MCDirectoryNames
    LengthOf <- MCLengthOf
    Window = 3
    Overlap = 2
    MaxRecords = 2
    MaxBytes = 3
    MaxResolutions = 2
    MaxDepth = 2
    MaxRows = 3
    MaxTime = 2
    MaxChanges = 0
CHECK_DEADLOCK FALSE
INVARIANT
    OlderEventsWereNotRead
