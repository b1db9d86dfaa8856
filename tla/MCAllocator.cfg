SPECIFICATION Spec
CONSTANTS
  W = 4
  MaxPage = 12
  BitmapPages = 2
  BootstrapBase = 3
  BootstrapPages = 1
  MemoryMaps <- MCMemoryMaps
  Images <- MCImages
  Sizes = {0, 1, 2, 5}
  SlackBits = {12, 15}
  MaxLive = 3
INVARIANTS
  TypeOK
  NoDoubleAllocation
  BitmapExact
  OnlyFreeMemory
