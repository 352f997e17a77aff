SPECIFICATION HFairSpec
CONSTANTS
    AddrSpace = 128
    Entries <- MCEntries
    Program <- MCProgram
    MaxLeft = 6
    Period = 6
INVARIANTS
    HTypeOK
    MContextKept
    SContextKept
PROPERTIES
    ReturnRestores
    MHandlerUninterrupted
    TimerDelivered
    UserProgress
CHECK_DEADLOCK FALSE
