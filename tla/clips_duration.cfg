SPECIFICATION ClipSpec
CONSTANTS
  LocalBits = 6
  EssenceTypes <- MCTypes
  ArraySize = 3
  FrameSizes = {1, 2}
  SampleNumbers = {3, 8}
  MaxLen = 12
  MaxSound = 12
  InPieces <- MCInPieces
  Companions <- MCCompanions
  TailLen = 7
  MaxFrame = 4
INVARIANT ShortestTrack
CHECK_DEADLOCK FALSE
