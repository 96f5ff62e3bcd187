\* Two times wrap around a buffer of one slot, one node joins and ignores old events; gossip is
\* unreliable and push/pull is not.
SPECIFICATION FairSpec
CONSTANTS
  Node = {a, b}
  Event = {e}
  BufferSize = 1
  Ignoring = {b}
  MaxLTime = 2
  MaxCalls = 1
  LateJoin = 3
CONSTRAINT EarlyJoins
INVARIANTS
  NoDoubleDelivery
  JoinIgnoresOld

  
