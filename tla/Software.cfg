SPECIFICATION Spec
CONSTANTS
  TERM_COLS = 3
  TERM_ROWS = 3
  Chars = {8, 10, 13, 27, 32, 36, 49, 50, 51, 72, 74, 91, 97, 109}
  BUFLEN = 4
  ARG0LEN = 3
  Keys = {13, 27, 32, 97, 127}
  Prompt <- MCPrompt
  Outputs <- MCOutputs
  MaxKeys = 4
  MaxLines = 1
  BlockBytes = 2
  CmdPolls = 3
  ResetTries = 1
  ReadyTries = 1
  TokenPolls = 2
  CsdPolls = 3
  Blocks = {0, 1}
  Contents <- MCContents
  Kinds = {"v1", "bytes", "blocks"}
  Delays = {0, 2}
  FsResults = {"OK", "ERR"}
  Files <- MCFiles
  FlashBase = 2
  FlashSize = 6
  BLOCK = 2
  UPLOADSIZE = 2
  CHUNKSIZE = 2
  LOADSIZE = 3
  BusyPolls = 1
  RAMPAGES = 128
  BIOS_PAGES = 6
  STAGE2_PAGE = 16
  SHELL_STACK = 3
  Sizes = {1, 2, 112, 113}
  MAXX = 2
  MAXY = 1
INVARIANTS
  CursorOnScreen
  ScreenShowsInput
  RunsWhatWasTyped
  ServedOnce
  UploadKept
  TurnPossible
PROPERTIES
  ImplementsBlockDevice
  StartsWhole
  ItEnds
CHECK_DEADLOCK FALSE
