SPECIFICATION Spec
CONSTANTS
    Backends = {"repl"}
    Calls <- TreeCalls
    Root = "root"
    NoCall = "no call"
    Length <- TreeLength
    Limit <- TreeLimit
    DefaultLimit = 3
    Nested <- TreeNested
    InFunction = {"left"}
CHECK_DEADLOCK FALSE
INVARIANT Bounded
