SPECIFICATION FairSpec
CONSTANTS
    Workspaces = {"w1"}
    Reapers = {"r1", "r2"}
    Mortal = {"r2"}
CHECK_DEADLOCK FALSE
INVARIANTS TypeOK LeaseProtects NothingLeft
PROPERTIES AbandonedReaped
