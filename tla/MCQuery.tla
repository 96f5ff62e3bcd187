------------------------------ MODULE MCQuery ------------------------------
(***************************************************************************)
(* Queries q1 and q2 of node a for TLC.                                    *)
(***************************************************************************)
EXTENDS Query

CONSTANTS a, b, q1, q2

Origins == [x \in Query |-> a]

\* No filter; or q1 has one that only a matches, and q2 two that only b matches both.
NoFilters == [x \in Query |-> {}]
Split     == [x \in Query |-> IF x = q1 THEN {{a}} ELSE {{b}, Node}]

\* No relays, one for each answer of q1, or one for each answer.
NoRelays == [x \in Query |-> 0]
RelayQ1  == [x \in Query |-> IF x = q1 THEN 1 ELSE 0]
OneRelay == [x \in Query |-> 1]

\* What TLC explores: the answers only where no node has a snapshot and no push/pull state
\* is on its way.  Those move the clocks and the minimum times, no answer reads them.
Apart == (\E n \in Node : pulls[n] # {} \/ min_time[n] > 0) => net = {}
=============================================================================
