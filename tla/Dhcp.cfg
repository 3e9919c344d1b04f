SPECIFICATION LiveSpec
CONSTANTS
  Leases = {"a", "b"}
INVARIANTS
  TypeOK
  WatchdogRuns
  LeaseHeld
  BoundHasAddress
PROPERTIES
  LeaseAdopted
  Decided
CHECK_DEADLOCK FALSE
