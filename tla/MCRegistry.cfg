SPECIFICATION Spec
CONSTANTS
  Callers = {p1, p2, p3}
  Files = {f1, f2}
  Channels = {c1, c2, c3}
  MaxVdevs = 2
  MaxCalls = 3
  NoChannel = none
SYMMETRY CallerSymmetry
CHECK_DEADLOCK FALSE
INVARIANTS
  OpenIsBacked
  CountIsExact
  NoForgottenChannel
  UnloadIsClean
PROPERTIES
  ImplementsDeviceTable
