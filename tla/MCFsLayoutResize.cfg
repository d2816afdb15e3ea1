SPECIFICATION Spec
CONSTANTS
    Infos <- MCInfos
    U32 = 65536
CHECK_DEADLOCK FALSE
INVARIANT
    ResizeMapsReserve
