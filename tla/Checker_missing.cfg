\* A check.exe that is missing, or exits without a report.
SPECIFICATION Spec
CONSTANTS
  J = 1
  N = 2
  MaxLate = 0
  NoFile = NoFile
  Pending = Pending
  Aborted = Aborted
CHECK_DEADLOCK FALSE
INVARIANT WrongEndsInAssert
