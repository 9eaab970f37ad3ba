SPECIFICATION FairSpec
CONSTANTS
    Producers = {p1, p2}
    PairDealCount = 1
    PairCap = 3
    RecvMax = 3
    QueueBound = 4
INVARIANTS
    NoLostWakeup
    PopNeverEmpty
PROPERTIES
    OwnerYields
    ChannelSpec
