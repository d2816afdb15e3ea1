SPECIFICATION Spec
CONSTANTS
    Groups = 3
    BlocksPerGroup = 16
    FirstDataBlock = 0
    LenBlocks = 35
    InodeTableBlocks = 1
    BgDescBlocks = 1
    BgDescReserveBlocks = 0
    U32 = 1024
    Lens <- MCLens
PROPERTIES
    AllocationTerminates
