SPECIFICATION Spec
CONSTANTS
  Pbufs = {p1, p2, p3, p4}
  Nil = Nil
  Longest = 2
INVARIANTS
  SoleOwner
CHECK_DEADLOCK FALSE
