SPECIFICATION SpecDrivers
CONSTANTS
  Cores = {"bsp"}
  Bsp = "bsp"
  QueuesOf <- BspOnly
  MayFail = TRUE
  Size = 5
  MaxCommands = 3
  Devices <- MCDevices
  NPorts = 2
  MaxDevices = 3
  MaxHids = 6
  Keys = {4, 47, 57, 116}
  MaxKeys = 3
  Direct = 12
  Indirect = 4
  PerPage = 2
  PerList = 3
  DiskBlocks = 60
  Bulks = {3, 16}
  Files <- MCFiles
INVARIANTS
  DispatchDone
  QuiescentAgree
  RegisterSettersExact
  
  ConfigurationParsedExact
  ConfigurationKeyboardStarted
  KeyboardReportExact
  FileReadExact
  NvmePrpExact
PROPERTY
  DispatchReturns
CHECK_DEADLOCK FALSE
