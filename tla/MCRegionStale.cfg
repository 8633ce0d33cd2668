SPECIFICATION LiveSpec
CONSTANTS
  Before = {"V3"}
CHECK_DEADLOCK FALSE
PROPERTIES
  NoAcceptWhileResetting
