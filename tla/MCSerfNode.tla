----------------------------- MODULE MCSerfNode -----------------------------
(* Instances of SerfNode for TLC.                                          *)
EXTENDS SerfNode

\* Something happened that is about another node,
PeerUsed ==
  \E n \in Node \ {Local} :
    \/ m[n] # EmptyTable[n] \/ n \in ml
    \/ \E c \in calls : c.id = n

\* something that is about this one.
LocalUsed ==
  \/ joining # "idle" \/ leaving.pc # "idle" \/ refutes # {}
  \/ told # [join |-> 0, leave |-> 0]
  \/ \E c \in calls : c.id = Local

\* What TLC explores: the life of a peer or the life of the local node, and of their
\* combinations the first state.  The rows of the table are changed one at a time.
Apart == ~ (PeerUsed /\ LocalUsed)
=============================================================================
