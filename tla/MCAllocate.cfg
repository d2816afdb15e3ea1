SPECIFICATION Spec
CONSTANTS
    Groups = 4
    BlocksPerGroup = 32
    FirstDataBlock = 1
    LenBlocks = 106
    InodeTableBlocks = 1
    BgDescBlocks = 1
    BgDescReserveBlocks = 0
    U32 = 1024
    Lens <- MCLens
INVARIANTS
    FreeCountExact
    BlocksAccounted
    RequestSatisfied
    SplitTakesWholeGroups
PROPERTIES
    ImplementsPool
    AllocationTerminates
