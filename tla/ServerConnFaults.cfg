SPECIFICATION Spec
CONSTANTS
    IOThreads = 1
    BufferSize = 2
    MaxSockets = 1
    PairDealCount = 1
    Fds = {3, 4}
    Env = {"timeout", "write_error", "accept_fail", "bev_fail", "ws_close", "short"}
    MaxConn = 2
    MaxReq = 2
INVARIANTS
    AgentsLive
    SendTargetsLive
    ClosesUnderway
    RequestsToOwnAgent
    FdsOwned
PROPERTIES
    ServiceSpec
CHECK_DEADLOCK FALSE
