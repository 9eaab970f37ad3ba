SPECIFICATION FairSpec
CONSTANTS
    PackageLens = {2, 3}
    Spelled = {0, 1, 3}
    HEADLEN = 2
    MAX_BUFFER_SIZE = 5
    MaxRead = 3
    MaxPackages = 4
INVARIANTS
    TypeOK
    FramesWhole
    BytesKept
    CodecExact
PROPERTIES
    EveryPackageGoesUp
CHECK_DEADLOCK FALSE
