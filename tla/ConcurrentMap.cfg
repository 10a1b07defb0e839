SPECIFICATION FairSpec
CONSTANTS
    Backends = {"go", "ruby", "typescript", "repl"}
    Calls <- TreeCalls
    Root = "root"
    NoCall = "no call"
    Length <- TreeLength
    Limit <- TreeLimit
    DefaultLimit = 3
    Nested <- TreeNested
    InFunction = {"deep"}
CHECK_DEADLOCK FALSE
INVARIANTS Bounded Collected
PROPERTIES Terminates
