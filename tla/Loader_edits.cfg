\* Two edits, anywhere, while a solution is loaded.
SPECIFICATION Spec
CONSTANTS
  g1 = g1
  g2 = g2
  t1 = t1
  t2 = t2
  r1 = r1
  NoGroup = NoGroup
  Groups = {g1, g2}
  Tests = {t1, t2}
  Results = {r1}
  MaxEdits = 2
SYMMETRY Symmetric
CHECK_DEADLOCK FALSE
INVARIANT RegularLoad
INVARIANT FailureJustified
PROPERTY EditsDelayNothing
