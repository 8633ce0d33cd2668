SPECIFICATION FairSpec
INVARIANTS
  LineFollowsFlag
  CallbacksHaveDevice
  NothingLeftBehind
PROPERTIES
  SignalledIsServed
  UnloadEnds
