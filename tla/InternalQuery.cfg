\* Two members that rotate from one key to the next; two claimants and three voters.
SPECIFICATION Spec
CONSTANTS
  Node = {a, b}
  Keys = 2
  Claimant = {c, d}
  Voter = {u, v, w}
  MaxQueries = 4
  MaxAny = 3
  Limit = 3
  LongList = 6
INVARIANTS
  RotationKeepsContact
  ErrorsAreCounted
  
  OneClaimantStays
  UnanimousStays
CHECK_DEADLOCK FALSE
