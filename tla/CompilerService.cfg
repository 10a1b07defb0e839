SPECIFICATION RecordedSpec
CONSTANTS
    Paths = {"a", "b"}
    Texts = {"decl", "use"}
    Callers = {"lsp", "tool"}
    Verdicts <- CrossVerdicts
    GenerationBound = 3
INVARIANTS ServiceTypeOK SnapshotIsCurrent ShowsLastGood
PROPERTIES AnalysisIsAtomic
