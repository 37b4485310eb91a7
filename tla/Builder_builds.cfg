\* Two solutions, each in any language and with any name.
SPECIFICATION FairSpec
CONSTANTS
  J = 2
  NoFile = NoFile
CHECK_DEADLOCK FALSE
INVARIANT VerdictIsBuild
INVARIANT OwnExecutable
PROPERTY BuildsEnd
