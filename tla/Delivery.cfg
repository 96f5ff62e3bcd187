\* Two to four events of one member, one name and queries, and channels of one slot.
SPECIFICATION FairSpec
CONSTANTS
  n1 = n1  x = x
  Node = {n1}
  Name = {x}
  Event <- Events
  Setups <- Options
  Cap = 1
INVARIANTS
  TypeOK
  PlainInOrder
  MemberNewsArrives
  NewestEventArrives
PROPERTIES
  HandlerGetsOn
  PlainArrives
CHECK_DEADLOCK FALSE
