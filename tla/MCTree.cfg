SPECIFICATION Spec
CONSTANTS
    groups = 2
    inodes_per_group = 4
    FirstInodes = 3
    ReservedFiles <- MCReservedFiles
    BlockSize = 44
    U16 = 4
    NameLens <- MCNameLens
    MaxEntries = 5
    SourceTrees <- MCSourceTrees
CHECK_DEADLOCK FALSE
INVARIANTS
    BitmapExact
    NoInodeTwice
    CountsWritten
    WalkFindsEveryEntry
    SpaceIsEnough
    EntriesHoldTheirNames
    TreeMirrored
    NoOrphans
    LinkCounts
PROPERTIES
    InodesSpec
    StoredOnce
