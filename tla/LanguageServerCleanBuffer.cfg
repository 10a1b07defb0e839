SPECIFICATION ServerSpec
CONSTANTS
    Paths = {"a", "b"}
    Texts = {"decl", "use"}
    Callers = {"diagnostics"}
    Verdicts <- CrossVerdicts
    Imports <- CrossImports
    Entry = "a"
    Missing = "missing"
    Unreadable = "unreadable"
    FileRoots = {FALSE}
    AllReadable = TRUE
    EditBound <- Once
    WriteBound <- Once
    GenerationBound = 3
CHECK_DEADLOCK FALSE
INVARIANTS BuffersAnalyzed
