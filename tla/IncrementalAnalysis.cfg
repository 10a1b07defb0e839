CONSTANTS
    Paths <- ABC
    Texts <- ABCTexts
    Projects <- ABCProjects
    Files <- Ages
    Remarks <- Wording
    MaxChanges = 2
SPECIFICATION Spec
INVARIANTS
    TypeOK
    SameAnswer
    StateIsFull
CHECK_DEADLOCK FALSE
