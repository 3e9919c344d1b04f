SPECIFICATION Spec
CONSTANTS
  NBlocks = 4
  Sizes <- MCSizes
INVARIANTS
  TypeOK
  Accounted
PROPERTIES
  FailsOnlyWhenFull
  AtomicPool
