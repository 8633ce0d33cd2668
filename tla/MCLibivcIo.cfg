SPECIFICATION IoSpec
CONSTANTS
  IntMax = 7
  MaxRw = 6
  Counts = {0, 1, 6, 7, 8, 22}
  MaxCalls = 3
CHECK_DEADLOCK FALSE
INVARIANTS
  ReportIsTrue
PROPERTIES
  SentIsReceivable
