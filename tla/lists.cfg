SPECIFICATION ListsSpec
CONSTANTS
  ChunkSize = 3
  VirtualStarts = {0, 1}
  ReadSizes = {0, 4}
  MaxSize = 10
  MaxCount = 7
  Watched = {3, 7}
  Values = {a}
  Junk = junk
  Calls = {"read", "write", "seek", "hole", "flush", "close"}
  Failures = {"realloc", "target"}
  Base = 30
  AllowDropFrame = TRUE
  VITCs <- MC_VITCs
  LTCs <- MC_LTCs
  MaxFrames = 4
  Alone = {"vitc"}
  Clients = {}
INVARIANTS FlushIsWhole IndexTellsFrames SearcherAgrees FindsNext
PROPERTIES ImplementsFile DualMatches SearchesReturn
CHECK_DEADLOCK FALSE
