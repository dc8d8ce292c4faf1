SPECIFICATION PhysicalSpec
CONSTANTS
  KeyLen = 16
  MinLLen = 4
  PackLen = 104
  KagSizes = {1, 48}
  ContentSizes <- MCSizes
  Spaces = {20}
  BodyOffset = 300
  MinRoom = 20
  HeaderHasIndex = TRUE
  MaxPartitions = 4
  Start = 3
  Prefix = 4
  KeySize = 6
  Window = 8
  MaxIterations = 3
  MaxRunIn = 3
  MaxBody = 2
  MaxFooter = 19
  MaxCut = 7
  Files <- MCFiles
  Leftovers <- MCLeftovers
  LocalBits = 6
  MaxDeltas = 12
  MaxEntries = 8
  SliceCounts = {0, 1}
  PosTableCounts = {0, 1}
  OptionSets <- MCOptionSets
  BlockSize = 3
  PageSize = 2
  CachePages = 2
  MaxWriters = 3
  MaxCount = 4
  Failures = {"write"}
INVARIANTS Walkable KagKept AllOrHeader HeaderFound FooterFound SegmentsReadBack RoundIsBounded PaceKept InTurn
PROPERTIES UpdateCompletes
CHECK_DEADLOCK FALSE
