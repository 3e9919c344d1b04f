SPECIFICATION Spec
CONSTANTS
  Leases = {"a", "b"}
INVARIANTS
  AnswerAwaited
CHECK_DEADLOCK FALSE
