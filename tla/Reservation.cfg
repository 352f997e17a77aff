SPECIFICATION Spec
CONSTANTS
    MemSize = 8
    ByteValues = 2
    t1 = t1
    t2 = t2
    Task <- MCTask
    LinkAddrs = {0, 2}
    NarrowAddrs = {5, 6}
    PteWords = {4}
    KernelClears = TRUE
INVARIANTS
    TypeOK
    ReservationFresh
