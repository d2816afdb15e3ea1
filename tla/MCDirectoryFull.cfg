SPECIFICATION DirectorySpec
CONSTANTS
    BlockSize = 44
    NameLens <- MCNameLens
    MaxEntries = 5
CHECK_DEADLOCK FALSE
INVARIANT
    NoInternalError
