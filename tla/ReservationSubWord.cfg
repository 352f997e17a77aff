SPECIFICATION Spec
CONSTANTS
    MemSize = 8
    ByteValues = 2
    t1 = t1
    t2 = t2
    Task <- MCTask
    LinkAddrs = {0}
    NarrowAddrs = {1, 2}
    PteWords = {}
    KernelClears = TRUE
INVARIANTS
    ReservationFresh
