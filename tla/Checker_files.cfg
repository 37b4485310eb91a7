\* Two checkers in one directory, whatever compilers and check.exe may do.
SPECIFICATION Spec
CONSTANTS
  J = 2
  N = 2
  MaxLate = 1
  NoFile = NoFile
  Pending = Pending
  Aborted = Aborted
CHECK_DEADLOCK FALSE
INVARIANT CompleteReport
INVARIANT OwnProgram
INVARIANT OwnReport
PROPERTY ImplementsGrading
PROPERTY ImplementsAnswers
