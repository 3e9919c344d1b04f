SPECIFICATION Spec
CONSTANTS
  FifoRoom = 2
  MaxFrames = 6
  AllocMayFail = TRUE
  PktifExact = FALSE
INVARIANTS
  TypeOK
  NoSleep
  BusExclusive
  LagBounded
  InOrder
  OneLossHarmless
PROPERTIES
  PrimaskBracketed
