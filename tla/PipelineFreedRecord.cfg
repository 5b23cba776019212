SPECIFICATION Spec
CONSTANTS
    c1 = c1
    c2 = c2
    Contents <- MCContents
    NoDigest = NoDigest
    Claims <- MCClaims
    MaxHarvested = 2
    MaxDeletions = 1
    MaxAcquired = 1
SYMMETRY Symmetry
CHECK_DEADLOCK FALSE
INVARIANT TranslatedPathsCarryTheAnswer
