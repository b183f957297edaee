SPECIFICATION FairSpec
CONSTANTS
    r1 = r1
    r2 = r2
    Reps = {r1, r2}
    MaxPids = 2
    MaxConns = 2
    MaxOps = 2
    GarbagePid = 9
INVARIANTS
    ReplyToThisCall
    HeldIsServed
PROPERTIES
    GetReturns
CHECK_DEADLOCK FALSE
