SPECIFICATION Spec
CONSTANTS
    Blocks = 2
    BlockSize = 2
    Rest = 0
    Slots = 2
    PerBlock = 1
    MaxListBlocks = 2
    MaxDescriptors = 2
    MaxUncertain = 2
CHECK_DEADLOCK FALSE
INVARIANT
    NoPartialMapIsServed
