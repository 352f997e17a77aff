\* What the documentation says of the bare machine, tried on words of 16 bits.
CONSTANTS
    XLEN = 16
    Pow2 <- MCPow2
    BitAnd <- MCAnd
    BitOr <- MCOr
    BitXor <- MCXor
    ExpCount = 64
    FracBits = 9
    HostArith <- MCHostArith
    MemSize = 1024
    MaxWrite = 6
    CSR_MMIO_UART = 8192
    CLINT_MTIMECMP_LO = 16384
    CLINT_MTIME_LO = 49144
    TEXT = 512
    DATA = 256
    Boots <- MCBoots
SPECIFICATION TSpec
INVARIANT NoTestFails
CHECK_DEADLOCK FALSE
