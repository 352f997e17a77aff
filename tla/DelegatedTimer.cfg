SPECIFICATION HSpec
CONSTANTS
    AddrSpace = 128
    Entries <- MCEntries
    Program <- MCProgram
    MaxLeft = 6
    Period = 6
PROPERTIES
    SHandlerUninterrupted
CHECK_DEADLOCK FALSE
