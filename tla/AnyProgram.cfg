SPECIFICATION Spec
CONSTANTS
    AddrSpace = 24
    Entries <- MCEntries
    Program <- MCProgram
    MaxLeft = 0
INVARIANTS
    TypeOK
PROPERTIES
    ImplementsProtection
    HandlersKeepRunning
CHECK_DEADLOCK FALSE
