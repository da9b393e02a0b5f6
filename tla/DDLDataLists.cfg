SPECIFICATION Spec
CONSTANT Texts <- MCTexts
INVARIANTS
    ValuesOwned
    NamesOwned
    ListsMatch
PROPERTY Terminates
CHECK_DEADLOCK FALSE
