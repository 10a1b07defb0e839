SPECIFICATION ServerSpec
CONSTANTS
    Paths = {"a", "b"}
    Texts = {"decl", "use"}
    Callers = {"diagnostics"}
    Verdicts <- CrossVerdicts
    Imports <- CrossImports
    Entry = "a"
    Missing = "missing"
    Unreadable = "unreadable"
    FileRoots = {TRUE, FALSE}
    AllReadable = TRUE
    EditBound <- ThriceOrTwice
    WriteBound <- OnceIfRoot
    GenerationBound = 4
CHECK_DEADLOCK FALSE
INVARIANTS TypeOK NeverBlocked BuffersAnalyzed RenameFitsBuffers
PROPERTIES NoStaleRanges
