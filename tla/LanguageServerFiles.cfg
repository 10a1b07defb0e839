SPECIFICATION FairServer
CONSTANTS
    Paths = {"a", "b"}
    Texts = {"decl", "use"}
    Callers = {"diagnostics"}
    Verdicts <- CrossVerdicts
    Imports <- CrossImports
    Entry = "a"
    Missing = "missing"
    Unreadable = "unreadable"
    FileRoots = {FALSE}
    AllReadable = FALSE
    EditBound <- None
    WriteBound <- Twice
    GenerationBound = 3
CHECK_DEADLOCK FALSE
INVARIANTS ViewIsCurrent
PROPERTIES WatchApplied Settles CoordinatorStops
