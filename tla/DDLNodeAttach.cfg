CONSTANTS
    n1 = n1
    n2 = n2
    n3 = n3
    Node = {n1, n2, n3}
    Payload = {}
    Null = Null
    MaxSlots = 3
SPECIFICATION Spec
PROPERTY OlderParentReleased
CHECK_DEADLOCK FALSE
