SPECIFICATION FairSpec
CONSTANTS
    NumWords = 2
    BankWords = 2
    InitMem <- MCInitMem
    StoreData <- MCStoreData
    VgaByte = 99
    MaxVgaRun = 2
    ResetCycles = 3
    MaxAccesses = 2
    MayIssue <- MCMayIssue
    None = None
INVARIANTS
    TypeOK
    BeatsAccounted
    LoadReturnsMemory
PROPERTIES
    ImplementsByteMemory
    StalledBeatHeld
    EveryAccessServed
