\* Any sequence of operations in the host's floating-point environment.
CONSTANTS
    XLEN = 16
    Pow2 <- MCPow2
    BitAnd <- MCAnd
    BitOr <- MCOr
    BitXor <- MCXor
    ExpCount = 64
    FracBits = 9
    HostArith <- MCHostArith
    HostMode = "TONEAREST"
    Instructions <- MCInstructions
    FrmWrites <- MCFrmWrites
    FlagWrites <- MCFlagWrites
SPECIFICATION Spec
PROPERTY OperationsAreTheirOwn
