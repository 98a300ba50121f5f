SPECIFICATION CheckedSpec
CHECK_DEADLOCK FALSE
VIEW Lasting
CONSTANTS
    volbase = 1
    SS = 2
    FPS = 4
    csize = 2
    n_fatent = 11
    n_fats = 2
    n_rootdir = 4
    MAX_DIR = 100
    FF_FS_LOCK = 3
    Handles <- MCHandles
    Paths <- MCPaths
    Modes <- MCModes
    Writes <- MCWrites
    Counts = {1, 5}
    Positions = {0, 5}
    Patterns <- MCPatterns
    Renames <- MCRenames
    Starts <- MCStarts
    FaultKinds = {"refused", "unanswered", "dead"}
    MaxCalls = 3
    MaxFaults = 0
    PowerCuts = TRUE
INVARIANT LocksHeld
PROPERTIES ImplementsFileTree NothingLeaks
