SPECIFICATION LiveSpec
CONSTANTS
  Keys = TRUE
  MemMayFail = TRUE
INVARIANTS
  TypeOK
  MotorOnce
  NothingLeft
  OutdatedIsUnread
PROPERTIES
  GateReopens
  Answered
CHECK_DEADLOCK FALSE
