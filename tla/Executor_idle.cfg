\* A limit above eps_time and a program that waits.
SPECIFICATION Spec
CONSTANTS
  N = 1
  TimeLimit = 3
  MemoryLimit = 1
  Eps = 1
  TickRange = 6
  CpuRange = 8
  StillActive = 259
  ExitCodes = {0, 1}
  Threads = 1
  MaxTime = 5
  MaxDelay = 0
  MaxMemory = 2
  QueriesFail = TRUE
  NoFile = NoFile
  NotEnded = NotEnded
  Killed = Killed
CHECK_DEADLOCK FALSE
INVARIANT TLEIsOverTime
