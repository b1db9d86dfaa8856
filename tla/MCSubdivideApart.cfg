SPECIFICATION SpecTree
CONSTANTS
  W = 3
  MaxPage = 15
  BitmapPages = 1
  BootstrapBase = 2
  BootstrapPages = 1
  MemoryMaps <- MCMemoryMaps
  Images <- MCImages
  Sizes = {0, 2, 12}
  SlackBits = {17}
  MaxLive = 2
  SubSizes = {3, 4}
  WordsPerPage = 8
  FakeBase = 5
INVARIANT
  ChildrenApart
CHECK_DEADLOCK FALSE
