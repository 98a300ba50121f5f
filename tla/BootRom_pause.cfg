SPECIFICATION Spec
CONSTANTS
  Files <- TwoFiles
  Tasks = {"upload", "program"}
  FlashBase = 2
  FlashSize = 6
  BLOCK = 2
  UPLOADSIZE = 2
  CHUNKSIZE = 2
  LOADSIZE = 3
  BusyPolls = 1
  Pauses = "anywhere"
INVARIANT RunsWhatWasLoaded
CHECK_DEADLOCK FALSE
