\* Two observers; the subject starts again once.
SPECIFICATION FairSpec
CONSTANTS
  Node = {x, a, b}
  Subject = x
  MaxLTime = 2
  MaxStarts = 1
INVARIANTS
  LeaveHasCause
PROPERTIES
  
  LeaveSpreads
CHECK_DEADLOCK FALSE
