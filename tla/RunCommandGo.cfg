SPECIFICATION PlainSpec
CONSTANTS
    Workspaces = {"w1"}
    Command = "w1"
    Reapers = {"r1"}
    Mortal = {}
    Connections = {"c1"}
    Short = TRUE
    SignalBound = 1
CHECK_DEADLOCK FALSE
INVARIANTS ProgramStopped
