\* One kill, one lost statement, one failing file operation, in any order.
SPECIFICATION FairSpec
CONSTANTS
  s1 = s1
  s2 = s2
  s3 = s3
  NoSolution = NoSolution
  Empty = Empty
  Solutions = {s1, s2, s3}
  Unloadable = {s3}
  Malformed = {s3}
  Aborting = {s2}
  Limit = 2
  MaxKills = 1
  MaxDbErrors = 1
  MaxIoErrors = 1
CHECK_DEADLOCK FALSE
INVARIANT TypeOK
INVARIANT Attribution
INVARIANT OneIoErrorNoMixup
INVARIANT OneCheckerAtATime
PROPERTY JudgedOnce
PROPERTY ImplementsJudging
PROPERTY EventuallyChecked
PROPERTY LossEndsDaemon
