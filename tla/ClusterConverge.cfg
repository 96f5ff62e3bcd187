\* Two observers; the subject starts again once.
SPECIFICATION Spec
CONSTANTS
  Node = {x, a, b}
  Subject = x
  MaxLTime = 2
  MaxStarts = 1
INVARIANTS
  Converged
CHECK_DEADLOCK FALSE
