\* literals of every type, written and parsed again up to twice
SPECIFICATION ValueSpec
CONSTANTS
    Byte = 4
    Numbers <- MCNumbers
    Precision = 3
    FloatWhole = 4096
    Wholes <- MCWholes
    MaxPlaces = 6
    MaxTrips = 2
INVARIANTS
    LiteralKept
PROPERTY WrittenReadsBack
CHECK_DEADLOCK FALSE
