SPECIFICATION PrjSpec
CONSTANTS
  NTasks = 3
  NMicro = 0
  MaxPriority = 2
  NumEvents = 0
  NumTypes = 0
  Devices = {}
  Lens = {1}
  PriorityArgs = {0, 1}
  Ops <- MCOps
  GenLimit <- MCGenLimit
CHECK_DEADLOCK FALSE
INVARIANT ScheduleFindsReady
