SPECIFICATION Spec
CONSTANTS
    t1 = t1
    t2 = t2
    Thread <- MCThread
    Null = Null
    MaxCreates = 2
SYMMETRY Swaps
INVARIANTS
    NoFaultUnraced
    LivingRegistered
    ExactUnmixed
PROPERTIES
    ClearsOwnOnly
CHECK_DEADLOCK FALSE
