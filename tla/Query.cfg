\* Two queries of one node, which may share a time, in a ring buffer of one slot, at nodes
\* with and without a snapshot.  q1 asks for acks, which are relayed, q2 is responded to and
\* may be closed by the application; channels have room for one answer; every deadline passes.
SPECIFICATION FairSpec
CONSTANTS
  a = a  b = b  q1 = q1  q2 = q2
  Node = {a, b}
  Query = {q1, q2}
  Origin <- Origins
  Filters <- Split
  RequestAck = {q1}
  RelayFactor <- RelayQ1
  Online = {1}
  BufferSize = 1
  OldClocks = {1}
  Pulling = {b}
  Responding = {q2}
  Expiring = {q1, q2}
  Closing = {q2}
CONSTRAINT Apart
INVARIANTS
  NoDoubleDelivery
  
  NoDoubleAnswer
  AnswersMatch
PROPERTIES
  QueryCloses
