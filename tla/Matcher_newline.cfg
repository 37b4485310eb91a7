\* A report with a newline at its end, and the same report without it.
SPECIFICATION Matching
CONSTANTS
  Chars = {a, nl}
  Newline = nl
  MaxLen = 3
  MaxAnswers = 2
CHECK_DEADLOCK FALSE
INVARIANT NewlineHasNoInfluence
