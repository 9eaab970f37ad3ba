CONSTANTS
    t1 = t1
    t2 = t2
    b1 = b1
    b2 = b2
    Null = Null
    SizeClasses = {1, 2, 3}
    mem_max_size = 3
    Blocks = {b1, b2}
    Holders = {t1, t2, "app"}
    Threads = {t1, t2}
    NodeSize = 1
    AppSizes = {1, 2, 3}
    MaxPush = 3

SPECIFICATION Spec
SYMMETRY Symmetry

INVARIANTS
    
    TailSwingSucceeds

PROPERTIES
    ZeroedOnHandOut
    QueueSpec
