\* Two calls; check.exe may not start, hang, lie, and write late.
SPECIFICATION FairSpec
CONSTANTS
  N = 2
  TimeLimit = 0
  Eps = 1
  TickRange = 4
  StillActive = 259
  ExitCodes <- Codes
  Threads = 2
  MaxTime = 3
  NoFile = NoFile
  Empty = Empty
  NotEnded = NotEnded
  Killed = Killed
CHECK_DEADLOCK FALSE
INVARIANT TypeOK
INVARIANT ReportSettled
INVARIANT ResultIsExitCode
PROPERTY KilledInTime
PROPERTY ImplementsAnswers
PROPERTY AllAnswered
