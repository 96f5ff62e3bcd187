\* One member and two failed file operations.
SPECIFICATION FairSpec
CONSTANTS
  Node = {a}
  BufferCap = 2
  MaxTime = 1
  Timed = {"query"}
  Failing = 2
INVARIANTS
  FileMatchesMemory
  TimesBehind
  LeaveForgets
PROPERTIES
  WaitReturns
CHECK_DEADLOCK FALSE
