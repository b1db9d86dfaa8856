SPECIFICATION Spec
CONSTANTS
  NPorts = 2
  Intervals = {1, 2, 4}
  MaxHigh = 2
  MaxEndpoints = 2
  MaxReports = 3
  MaxUnplugs = 1
  NQtds = 4
  ListLength = 5
  FrameCount = 8
  Races = FALSE
INVARIANT
  AssertionsHold
CHECK_DEADLOCK FALSE
