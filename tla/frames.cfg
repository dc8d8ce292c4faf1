SPECIFICATION FramesSpec
CONSTANTS
  Files <- MCFiles
  Elements <- MCElements
  Opened = "frame"
  Clients = {}
  LocalBits = 6
  EssenceTypes <- MCTypes
  ArraySize = 3
  FrameSizes = {1, 2}
  SampleNumbers = {9, 19}
  MaxLen = 10
  MaxSound = 28
  InPieces <- MCInPieces
  Companions <- MCCompanions
  TailLen = 7
  MaxFrame = 6
INVARIANTS InStep FramesAreFound LastWrittenIsLast FramesAreDelivered LastWrittenIsThere DurationIsRight
PROPERTIES ReadsWhatIsFollowed
CHECK_DEADLOCK FALSE
