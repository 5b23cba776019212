SPECIFICATION Spec
CONSTANTS
    c1 = c1
    c2 = c2
    Contents <- MCContents
    NoContent = NoContent
    TornFile = TornFile
    NoBitmap = NoBitmap
    WriteOut = TRUE
    MaxWriteFailures = 0
    MaxRecorded = 1
SYMMETRY ContentSymmetry
CHECK_DEADLOCK FALSE
INVARIANT
    NoBytesNoFile
