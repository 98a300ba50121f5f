SPECIFICATION Spec
CONSTANTS
    NumWords = 2
    BankWords = 1
    InitMem <- MCInitMem
    StoreData <- MCStoreData
    VgaByte = 99
    MaxVgaRun = 1
    ResetCycles = 3
    MaxAccesses = 1
    MayIssue <- MCMayIssue
    None = None
INVARIANTS
    LoadReturnsMemory
