SPECIFICATION FairSpec
CONSTANTS
  Procs = {p1, p2, p3, p4}
  C = 2
  HasCallback = TRUE
INVARIANTS
  GateInv
  CallbackAlone
  WindowBounded
  NeverBroken
  NoLostWakeup
PROPERTIES
  StopEnds
  SleepersWake
