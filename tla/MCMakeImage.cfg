SPECIFICATION Spec
CONSTANTS
    BlockSize = 2
    Lengths <- MCLengths
    Modes <- MCModes
    Sizes <- MCSizes
    ZeroBufs <- AnyZeroBuf
    Pieces <- MCPieces
    DescBlocks = 1
    Kilos <- MCKilos
CHECK_DEADLOCK FALSE
INVARIANTS
    ImageExact
    OnlyKnownErrors
    AcceptedIsExact
    RejectsOnlyBadImages
