SPECIFICATION CheckedSpec
CHECK_DEADLOCK FALSE
VIEW Lasting
CONSTANTS
    volbase = 1
    SS = 2
    FPS = 4
    csize = 2
    n_fatent = 11
    n_fats = 2
    n_rootdir = 4
    MAX_DIR = 100
    FF_FS_LOCK = 3
    Handles <- MCHandles
    Paths <- FewPaths
    Modes <- FewModes
    Writes <- FewWrites
    Counts = {5}
    Positions = {5}
    Patterns = {}
    Renames = {}
    Starts <- FewStarts
    FaultKinds = {"refused", "unanswered", "dead"}
    MaxCalls = 3
    MaxFaults = 1
    PowerCuts = TRUE
INVARIANT ChainsSound
PROPERTIES BystandersSafe OkMeansDone
