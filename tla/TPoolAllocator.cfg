SPECIFICATION Spec
CONSTANTS
    Sizes <- MCSizes
    MaxPools = 4
    MaxItems = 3
INVARIANTS
    ItemsDistinct
    FreeListIsRest
    ChainComplete
    FaultWithoutPool
CHECK_DEADLOCK FALSE
