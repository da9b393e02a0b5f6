\* one parse of each of many texts, and three of a few texts by one object
CONSTANTS
    Buffers <- MCBuffers
    Reused <- MCReused
    MaxParses = 3
    MaxNodes = 12
    NoTree = NoTree
SPECIFICATION Spec
INVARIANTS
    TypeOK
    TopLive
    Forest
PROPERTIES
    DataSetOnce
    LostOnlyKnown
    Terminates
    ImplementsDocument
CHECK_DEADLOCK FALSE
