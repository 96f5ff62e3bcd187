\* A response that is relayed.
SPECIFICATION Spec
CONSTANTS
  a = a  b = b  q1 = q1  q2 = q2
  Node = {a, b}
  Query = {q1, q2}
  Origin <- Origins
  Filters <- Split
  RequestAck = {q1}
  RelayFactor <- OneRelay
  Online = {1}
  BufferSize = 2
  OldClocks = {}
  Pulling = {}
  Responding = {q2}
  Expiring = {q1}
  Closing = {}
INVARIANT RelayToSender
