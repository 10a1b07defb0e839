SPECIFICATION PlainFairSpec
CONSTANTS
    Workspaces = {"w1"}
    Command = "w1"
    Reapers = {"r1"}
    Mortal = {}
    Connections = {"c1", "c2"}
    Short = TRUE
    SignalBound = 2
CHECK_DEADLOCK FALSE
INVARIANTS SourceWhileRunning
PROPERTIES GivesTime CommandEnds
