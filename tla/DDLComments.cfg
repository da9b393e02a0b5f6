\* every text of up to five characters, and some longer ones
CONSTANT Texts <- MCTexts
SPECIFICATION Spec
INVARIANTS
    OnlyRemoves
    CommentsStripped
PROPERTY Terminates
CHECK_DEADLOCK FALSE
