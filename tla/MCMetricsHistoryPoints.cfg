SPECIFICATION FilledSpec
CONSTANTS
  Retain = 6
  MaxLen = 5
  Queries <- AllWindow
  Values = {1, 2, 3, 4, 5}
  MaxTime = 6
  MaxRecords = 5
  MaxBack = 0
INVARIANT AtMostMaxPoints
CHECK_DEADLOCK FALSE
