---------------------------- MODULE MCUserEvents ----------------------------
(* An instance of UserEvents for TLC.                                      *)
EXTENDS UserEvents

\* What TLC explores: joins that ignore old events only while the clocks are below LateJoin.
CONSTANT LateJoin

EarlyJoins ==
  (\E n \in Node : event_join_ignore[n] \/ min_time[n] > 0 \/ \E p \in pulls : p.join)
    => \A n \in Node : event_clock[n] < LateJoin
=============================================================================
