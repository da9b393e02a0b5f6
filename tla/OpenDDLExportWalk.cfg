SPECIFICATION Spec
CONSTANTS
    Node <- MCNode
    Children <- MCChildren
    MaxExports = 2
INVARIANTS
    TypeOK
    WritesInOrder
    NoFileLeftOpen
PROPERTIES
    FileOnlyGrows
CHECK_DEADLOCK FALSE
