\* Intents about the peer, while the local node starts and stops; and intents about the local
\* node, while it joins, leaves and refutes.
SPECIFICATION FairSpec
CONSTANTS
  Local = local
  Node = {local, a}
  Subjects = {local, a}
  MaxLTime = 1
  MaxCalls = 1
CONSTRAINT Apart
INVARIANTS
  ListsMatchStates
  EventsTellStatus
  MemberlistAgreement
  LocalMemberPresent
PROPERTIES
  NoResurrection
  LeaveReturns
  RefutationTold
CHECK_DEADLOCK FALSE
