SPECIFICATION WatchedSpec
CONSTANTS
  Tasks = {t1, t2}
  Null = null
  WordSize = 5
  Tick = 2
  MaxTicks = 6
SYMMETRY Alike
PROPERTIES SyscallTimeCounted
