SPECIFICATION FairSpec
CONSTANTS
    Servers = {s1}
    s1 = s1
    IOThreads = 1
    PairDealCount = 1
    BufferSize = 2
    FdLimit = 3
    Env = {"cut", "no_bev"}
    MaxSent = 1
    MaxReq = 2
INVARIANTS
    
    NoServerForgotten
PROPERTIES
    EveryEndIsReported
    EveryEndIsFollowedUp
    EveryRequestLeaves
CHECK_DEADLOCK FALSE
