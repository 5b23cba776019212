SPECIFICATION MCSpec
CONSTANTS
    h1 = h1
    h2 = h2
    h3 = h3
    Handles <- MCHandles
    First = h1
    Length = 2
    MaxOffset = 3
    f1 = f1
    f2 = f2
    f3 = f3
    f4 = f4
    Files <- MCFiles
    DiskDirectories <- MCDirectories
    Bodies <- MCBodies
    Vdis <- MCVdis
    MaxChain = 2
    MaxParentScan = 2
    NoFile = NoFile
    Base = Base
    Zero = Zero
    Junk = Junk
    Records = {r1, r2}
    Leaves = {n1, n2}
    SectorSize = 2
    GrainSectors = 2
    BlockSize = 3
    BlockExtra = 1
    MaxWant = 5
    Modulus = 4
    MaxReuse = 2
    MaxSlack = 2
CHECK_DEADLOCK FALSE
INVARIANTS
    TypeOK
    AnchorIsTrue
    NoParentIsGuessed
    PathsAreTrue
    LossesAreTold
    CarvedIsTheNamedFile
    FateIsTrue
PROPERTIES
    HandlesAreIndependent
    ServesTheDisk
