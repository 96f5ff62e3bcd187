----------------------------- MODULE MCDelivery -----------------------------
(* Events of every kind for TLC.                                           *)
EXTENDS Delivery

CONSTANTS n1, x

\* What happens to a member.
News(types) == [kind : {"member"}, ty : types, nodes : {{n1}}]

Events == News({"Join", "Failed"})
            \cup [kind : {"user"}, name : {x}, ltime : {1, 2}, cc : {TRUE}]
            \cup [kind : {"query", "internal"}, ltime : {1}]

\* A snapshot, nothing (there the handlers fill every channel), and one or both coalescers.
Options == {<<TRUE, {}, 3>>, <<FALSE, {}, 4>>, <<FALSE, {"user"}, 3>>, <<FALSE, {"member"}, 3>>,
            <<FALSE, Coalescer, 2>>}
=============================================================================
