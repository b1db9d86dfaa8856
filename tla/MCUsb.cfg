SPECIFICATION SpecUsb
CONSTANTS
  NumDevices = 2
  Polled = {2}
  RingSize = 4
  PollTrbs = 2
  NPorts = 2
  Races = FALSE
  MaxPackets = {8, 64}
  UEndpoints <- MCEndpoints
  ConfigLength = 25
  Frames = 4
  ControlInterval = 2
  NPages = 2
  UListLength = 4
  UMaxReports = 4
  OIntervals = {1, 8, 32, 64}
  MaxKeyboards = 1
  OMaxReports = 2
  EIntervals = {1, 2, 4}
  MaxHigh = 1
  MaxEndpoints = 2
  EMaxReports = 3
  MaxUnplugs = 1
  NQtds = 4
  EListLength = 5
  FrameCount = 8
INVARIANTS
  UsbSignalIsOwn
  UsbScheduleExact
  
  UhciTransfersExact
  UsbReportsInPlace
  XhciRingsExact
  SlotsOwn
PROPERTIES
  OhciIntervalKept
  
  UsbPollsRearmed
CHECK_DEADLOCK FALSE
