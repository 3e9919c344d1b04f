SPECIFICATION FairSpec
CONSTANTS
  Intervals <- MCIntervals
  Wrap = 13
  Delays = {1, 2}
  MotorDelay = 2
  Longest = 9
INVARIANTS
  TypeOK
  NeverEarly
  DelayKept
PROPERTIES
  TimersRun
