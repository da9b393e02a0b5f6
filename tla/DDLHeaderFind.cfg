SPECIFICATION HeaderSpec
CONSTANTS
    HeaderTexts <- MCTexts
    Headers <- MCHeaders
    Null = Null
INVARIANTS
    FindsOnlyItsName
CHECK_DEADLOCK FALSE
