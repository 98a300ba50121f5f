SPECIFICATION Spec
CONSTANTS
    WordSize = 16
    Reg <- MCReg
    CauseExternal = 15
    CauseInvalid = 2
    CauseBreak = 3
    CauseEcall = 11
    VectorReset = 0
    VectorException = 2
    Program <- MCProgram
    Halt <- MCHalt
    ZeroInstr <- MCZeroInstr
    LoadData <- MCLoadData
    InitRegs <- MCInitRegs
    MaxInstr = 3
    None = None
INVARIANTS
    TypeOK
PROPERTIES
    ImplementsIsa
    RequestHeld
