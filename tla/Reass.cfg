SPECIFICATION Spec
CONSTANTS
  PoolSize = 5
  MaxPbufs = 5
  MaxData = 3
  Ids = {1, 2, 3, 4}
  Parts = {1, 2, 3, 4}
INVARIANTS
  TypeOK
  NothingLost
  NoneWaitsComplete
PROPERTIES
  DeadForGood
  HoleJustBelow
CHECK_DEADLOCK FALSE
