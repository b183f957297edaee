SPECIFICATION FairSpec
CONSTANTS
    c1 = c1
    c2 = c2
    Clients = {c1, c2}
    Slow = {c2}
    MaxFd = 1
    ConnTimeout = 1
    MaxTime = 3
    Main = Main
    Nobody = Nobody
    NULL = NULL
INVARIANTS
    TypeOK
    PortsNotDangling
PROPERTIES
    MainReturns
    NoDescriptorLeak
CHECK_DEADLOCK FALSE
