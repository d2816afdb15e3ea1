SPECIFICATION PartsSpec
CONSTANTS
    Pieces <- MCPieces
    BlockSize = 2
    Lengths <- MCLengths
    Modes <- MCModes
    Sizes <- MCSizes
CHECK_DEADLOCK FALSE
INVARIANTS
    Sorted
    NothingLost
    StreamConsistent
    AccountingHolds
