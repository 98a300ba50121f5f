SPECIFICATION FairSpec
CONSTANTS
    BufLen = 2
    FILEHANDLES = 2
    NoFile = NoFile
    Path <- MCPath
    Contents <- MCContents
    NoiseBytes <- MCNoise
    MaxCommands = 3
    MaxFailures = 2
    MaxDamage = 1
INVARIANTS
    TypeOK
    GetDelivers
    InStep
    HandlesReturned
PROPERTIES
    PutDelivers
    CommandsEnd
CHECK_DEADLOCK FALSE
