SPECIFICATION Spec
CONSTANTS
    Backends = {"go"}
    Calls <- TreeCalls
    Root = "root"
    NoCall = "no call"
    Length <- TreeLength
    Limit <- TreeLimit
    DefaultLimit = 3
    Nested <- TreeNested
    InFunction = {"deep"}
CHECK_DEADLOCK FALSE

PROPERTY AdmissionStops
