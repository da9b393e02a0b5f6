\* three addresses, two payload objects, three creations: every tree of three nodes,
\* moves, addresses used again, properties and values that change hands
CONSTANTS
    n1 = n1
    n2 = n2
    n3 = n3
    Node = {n1, n2, n3}
    d1 = d1
    d2 = d2
    Payload = {d1, d2}
    Null = Null
    MaxSlots = 3
SPECIFICATION OwnerSpec
INVARIANTS
    TypeOK
    NoDoubleDelete
    LinksAgree
    RegistryExact
    PayloadOwnedOnce
PROPERTIES
    DeleteCompletes
    ImplementsForest
CHECK_DEADLOCK FALSE
