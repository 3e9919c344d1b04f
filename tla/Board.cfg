SPECIFICATION FairSpec
CONSTANTS
  NBlocks = 40
  Size <- MCSize
  Frames <- MCFrames
INVARIANTS
  TypeOK
  RoomForAll
  RetryInVain
PROPERTIES
  HandlerEnds
CHECK_DEADLOCK FALSE
