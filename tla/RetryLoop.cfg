SPECIFICATION RFairSpec
CONSTANTS
    MemSize = 8
    ByteValues = 2
    t1 = t1
    t2 = t2
    Task <- MCTask
    LinkAddrs = {4}
    NarrowAddrs = {}
    PteWords = {}
    KernelClears = TRUE
    Counter = 4
    Scratch = 0
INVARIANTS
    RTypeOK
    NoLostUpdate
PROPERTIES
    UndisturbedProgress
