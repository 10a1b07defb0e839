CONSTANTS
    Paths <- ABC
    Texts <- BreakingTexts
    Projects <- BreakingProjects
    Files <- Ages
    Remarks <- Wording
    MaxChanges = 2
SPECIFICATION Spec
INVARIANTS
    SameArtifacts
CHECK_DEADLOCK FALSE
