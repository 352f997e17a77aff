SPECIFICATION Spec
CONSTANTS
    Fanout = 2
    MemPages = 3
    Ppn <- MCPpn
    Roots <- MCRoots
    Images <- MCImages
    StoreWords <- MCStoreWords
INVARIANTS
    TypeOK
    Isolation
    BitsRecordUse
