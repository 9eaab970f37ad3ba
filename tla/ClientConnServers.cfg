SPECIFICATION Spec
CONSTANTS
    Servers = {s1, s2}
    s1 = s1
    s2 = s2
    IOThreads = 1
    PairDealCount = 1
    BufferSize = 2
    FdLimit = 3
    Env = {"cut", "no_bev"}
    MaxSent = 1
    MaxReq = 1
INVARIANTS
    AgentsFound

    
CHECK_DEADLOCK FALSE
