\* The member coalescer and a query that arrives while it waits.
SPECIFICATION FairSpec
CONSTANTS
  n1 = n1  x = x
  Node = {n1}
  Name = {x}
  Event <- Events
  Setups <- Options
  Cap = 1
PROPERTIES
  CoalescedIsFlushed
CHECK_DEADLOCK FALSE
