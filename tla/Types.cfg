\* Times and values below the width of the counter; each message type with all its values
\* over small sets; five pings of a peer, with windows that they fill.
SPECIFICATION TypesSpec
CONSTANTS
  Thread = {t1, t2}
  Width = 16
  MaxTime = 3
  MaxValue = 5
  Ltimes = {0, 1}
  Ids = {"a", "b"}
  Texts = {"", "x"}
  MaxRepeat = 2
  Peer = {p1}
  RTTs = {0, 1, 3}
  MaxRTT = 2
  adjustment_window_size = 2
  latency_filter_size = 3
  MaxPings = 5
CHECK_DEADLOCK FALSE
INVARIANTS
  
  LengthsMatch
  MedianOfRecent
  
  OwnCacheFresh
PROPERTIES
  AtomicSpec
  WitnessReturns
