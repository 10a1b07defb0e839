CONSTANTS
    Paths <- ABC
    Texts <- ConflictingTexts
    Projects <- ConflictingProjects
    Files <- Ages
    Remarks <- Wording
    MaxChanges = 2
SPECIFICATION Spec
INVARIANTS
    ConflictsAreErrors
CHECK_DEADLOCK FALSE
