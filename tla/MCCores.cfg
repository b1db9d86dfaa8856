SPECIFICATION SpecBoot
CONSTANTS
  Cores = {1, 2}
  Regions = {r1, r2}
  RegionPages = 2
  MaxTries = 2
  Deadlines = {5, 8, 9, 10, 11}
INVARIANTS
  
  AllocatorExclusive
  OwnMailbox
  BootExclusive
PROPERTY
  AnsweredFromBoot
CHECK_DEADLOCK FALSE
