SPECIFICATION FairSpec
CONSTANTS
    p1 = p1
    p2 = p2
    f1 = f1
    f2 = f2
    Procs = {p1, p2}
    Families = {f1}
    MaxGen = 3
    MaxFaults = 1
    MaxCalls = 1
INVARIANT ReplayNeedsAFault
PROPERTY OrphansAreReclaimed
CHECK_DEADLOCK FALSE
