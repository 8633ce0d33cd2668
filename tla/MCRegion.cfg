SPECIFICATION LiveSpec
CONSTANTS
  Before = {"blank", "V2", "V3"}
CHECK_DEADLOCK FALSE
INVARIANTS
  AcceptedIsReady
PROPERTIES
  SubscriberSettles
