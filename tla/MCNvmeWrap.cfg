SPECIFICATION Spec
CONSTANTS
  Cores = {"bsp"}
  Bsp = "bsp"
  QueuesOf <- BspOneQueue
  MayFail = FALSE
  Size = 4
  MaxCommands = 4
INVARIANT
  NoQueueFailure
CHECK_DEADLOCK FALSE
