SPECIFICATION HSpec
CONSTANTS
    AddrSpace = 128
    Entries <- MCEntries
    Program <- MCProgram
    MaxLeft = 6
    Period = 6
PROPERTIES
    ReturnsToTrappedPc
CHECK_DEADLOCK FALSE
