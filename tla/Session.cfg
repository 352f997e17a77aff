SPECIFICATION FairSSpec
CONSTANTS
    MemSize = 4
    Byte = {0, 1, 2, 3}
    AddressSpace = 16
    Files <- MCFiles
    BreakAddr = {0, 1, 2}
    MaxBreakpoints = 2
    ContinueLimit = 3
    StepCounts = {0, 2}
    StepBudgets = {0, 2}
    Outcomes <- MCOutcomes
INVARIANTS
    STypeOK
    StartsOnItsImage
    BreakpointsStop
PROPERTIES
    TableIsASet
    EndIsFinal
    EndsForAReason
    LoopsEnd
CHECK_DEADLOCK FALSE
