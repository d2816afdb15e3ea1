SPECIFICATION IndirectSpec
CONSTANTS
    BlockSize = 10
    EntryBytes = 2
    SectorSize = 5
    Layouts <- MCLayouts
    Tails <- MCTails
    EXT4_NDIR_BLOCKS = 3
    blocks_per_ind = 2
    FileBlocks <- MCFileBlocks
    FirstBlock = 100
    Cuts <- MCCuts
CHECK_DEADLOCK FALSE
INVARIANTS
    BlocksKept
    MapsExact
    DataFollowsMap
    PointersPrecedeData
