\* A clock that ends at 8 and begins anew at -8, or fails; delays of 3.
SPECIFICATION Spec
CONSTANTS
  Half = 8
  Delay = 3
  MaxTime = 36
CHECK_DEADLOCK FALSE
INVARIANT SleepsUntilDue
INVARIANT PollsSpaced
