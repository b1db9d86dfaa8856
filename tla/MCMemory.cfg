SPECIFICATION SpecMemory
CONSTANTS
  W = 3
  MaxPage = 15
  BitmapPages = 1
  BootstrapBase = 2
  BootstrapPages = 1
  MemoryMaps <- MCMemoryMaps
  Images <- MCImages
  Sizes = {0, 2, 12}
  SlackBits = {17}
  MaxLive = 2
  SubSizes = {3, 4}
  WordsPerPage = 8
  FakeBase = 5
  Fan = 2
  Top = 6
  Hosts = {"core"}
  Guests = {}
  Frames = {0, 1, 2, 3, 4, 5, 6, 8, 9}
  DataFrames = {8, 9}
  Mapped = {0, 1, 4}
  Flags = {{"P"}, {"P", "RW", "PAT"}}
  BigSections = FALSE
  NBuckets = 5
  NEntries = 13
  Start = 2
  MaximumEntries = 8
  MapSizes = {2}
  MaxMaps = 2
  Names <- MCNames
  Links = {1}
  StringSlots = 4
INVARIANTS
  
  ChildBitmapExact
  
  DirectoryNamesKept
  DirectorySlotsCounted
PROPERTY
  PagerImplementsAddressSpace
CHECK_DEADLOCK FALSE
