\* Two queries of one node, which may share a time; every deadline passes.
SPECIFICATION FairSpec
CONSTANTS
  a = a  b = b  q1 = q1  q2 = q2
  Node = {a}
  Query = {q1, q2}
  Origin <- Origins
  Filters <- NoFilters
  RequestAck = {}
  RelayFactor <- NoRelays
  Online = {1}
  BufferSize = 2
  OldClocks = {}
  Pulling = {}
  Responding = {q1, q2}
  Expiring = {q1, q2}
  Closing = {q2}
PROPERTIES ChannelCloses
