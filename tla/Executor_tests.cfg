\* Two tests; programs that run, idle, exit or are slow to be gone.
SPECIFICATION FairSpec
CONSTANTS
  N = 2
  TimeLimit = 0
  MemoryLimit = 0
  Eps = 1
  TickRange = 3
  CpuRange = 2
  StillActive = 259
  ExitCodes = {0, 1}
  Threads = 1
  MaxTime = 2
  MaxDelay = 0
  MaxMemory = 1
  QueriesFail = TRUE
  NoFile = NoFile
  NotEnded = NotEnded
  Killed = Killed
CHECK_DEADLOCK FALSE
INVARIANT TypeOK
INVARIANT VerdictMatchesEnd
INVARIANT NoChildLeftBehind
INVARIANT WithinLimits
INVARIANT FreshOutput
PROPERTY TickWrapHarmless
PROPERTY AllTestsJudged
