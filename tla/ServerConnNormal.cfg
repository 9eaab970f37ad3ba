SPECIFICATION FairSpec
CONSTANTS
    IOThreads = 2
    BufferSize = 2
    MaxSockets = 1
    PairDealCount = 1
    Fds = {3, 4}
    Env = {"timeout"}
    MaxConn = 3
    MaxReq = 1
INVARIANTS
    NoFdLeak
    CountsExact
    NoStalePackage
PROPERTIES
    EveryCloseCompletes
    
CHECK_DEADLOCK FALSE
