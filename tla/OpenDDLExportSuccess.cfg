SPECIFICATION Spec
CONSTANTS
    Node <- MCNode
    Children <- MCChildren
    MaxExports = 1
INVARIANT TrueMeansWritten
CHECK_DEADLOCK FALSE
