SPECIFICATION Spec
CONSTANTS
    c1 = c1
    c2 = c2
    Clients = {c1, c2}
    Slow = {}
    MaxFd = 1
    ConnTimeout = 1
    MaxTime = 1
    Main = Main
    Nobody = Nobody
    NULL = NULL
INVARIANTS
    RepliesToAsker
CHECK_DEADLOCK FALSE
