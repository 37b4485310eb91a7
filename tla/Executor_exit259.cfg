\* A program that returns 259.
SPECIFICATION Spec
CONSTANTS
  N = 1
  TimeLimit = 1
  MemoryLimit = 1
  Eps = 1
  TickRange = 4
  CpuRange = 3
  StillActive = 259
  ExitCodes = {0, 259}
  Threads = 1
  MaxTime = 3
  MaxDelay = 0
  MaxMemory = 2
  QueriesFail = FALSE
  NoFile = NoFile
  NotEnded = NotEnded
  Killed = Killed
CHECK_DEADLOCK FALSE
INVARIANT NonzeroExitIsCrash
