SPECIFICATION HeaderSpec
CONSTANTS
    HeaderTexts <- MCTexts
    Headers <- MCHeaders
    Null = Null
INVARIANTS
    OwnedOnce
    ReadsBack
    LosesNoOther
    SummaryAgrees
CHECK_DEADLOCK FALSE
