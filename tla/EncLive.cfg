SPECIFICATION FairSpec
CONSTANTS
  FifoRoom = 3
  MaxFrames = 3
  AllocMayFail = FALSE
  PktifExact = TRUE
PROPERTIES
  FrameDelivered
  SendReturns
