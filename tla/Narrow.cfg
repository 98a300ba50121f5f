SPECIFICATION Spec
CONSTANTS
    StoreData <- MCStoreData
    MaxVgaRun = 2
    ResetCycles = 4
    MaxAccesses = 2
    MayIssue <- MCMayIssue
    None = None
    ByteRam = 5
    WordRam = 6
    ByteInit <- MCByteInit
    WordInit <- MCWordInit
    Junk = 99
INVARIANTS
    AnswersMatch
PROPERTIES
    ImplementsByteMemory
    EveryAccessServed
