SPECIFICATION Spec
CONSTANTS
  Cores = {c1}
  Regions = {r1}
  RegionPages = 1
  MaxTries = 2
INVARIANT
  SummonReported
CHECK_DEADLOCK FALSE
