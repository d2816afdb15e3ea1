SPECIFICATION Spec
CONSTANTS
    Infos <- MCInfos
    U32 = 65536
CHECK_DEADLOCK FALSE
INVARIANTS
    GeometryHolds
    MetadataApart
    DescriptorsPoint
    ResizeInOrder
