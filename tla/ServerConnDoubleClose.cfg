SPECIFICATION Spec
CONSTANTS
    IOThreads = 2
    BufferSize = 2
    MaxSockets = 2
    PairDealCount = 1
    Fds = {3, 4}
    Env = {"write_error"}
    MaxConn = 2
    MaxReq = 1
INVARIANTS
    CloseFindsSocket
CHECK_DEADLOCK FALSE
