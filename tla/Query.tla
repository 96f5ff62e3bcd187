------------------------------- MODULE Query -------------------------------
(***************************************************************************)
(* Queries in a cluster: query_in and the timer it starts, handle_query    *)
(* with the ring buffer (QueryCore) that tells a query that was handled    *)
(* from a new one, the answers, their relays, and the QueryResponse in     *)
(* which the origin collects them.                                         *)
(*                                                                         *)
(* A query stands for its random id: ids are taken to be distinct.         *)
(* Messages may be lost, delayed, reordered and duplicated.  Every call    *)
(* that waits for a lock after it read or changed something is two steps.  *)
(***************************************************************************)
EXTENDS Integers, FiniteSets

CONSTANTS Node, Query,
          Origin,         \* the node that makes each query
          Filters,        \* of each query; a filter is the set of the nodes that match it
          RequestAck,     \* the queries with request_ack
          RelayFactor,    \* relay_factor of each query
          Online,         \* what num_online_members() may return
          BufferSize,     \* query_buffer_size
          OldClocks,      \* the last_query_clock a node may find in its snapshot
          Pulling,        \* bound: the nodes that receive push/pull states
          Responding,     \* bound: the queries that applications respond to
          Expiring,       \* bound: the queries whose deadline passes
          Closing         \* bound: the queries that the application closes

ASSUME QueryAssumption ==
  /\ Origin \in [Query -> Node]
  /\ Filters \in [Query -> SUBSET SUBSET Node]
  /\ RequestAck \subseteq Query
  /\ RelayFactor \in [Query -> Nat]
  /\ Online \subseteq Nat \ {0}
  /\ BufferSize \in Nat \ {0}
  /\ OldClocks \subseteq Nat
  /\ Pulling \subseteq Node
  /\ Responding \subseteq Query /\ Expiring \subseteq Query /\ Closing \subseteq Query

VARIABLES
  query_clock, min_time, buffer,   \* of each node; a slot without ids is None
  calls,        \* the queries that are in handle_query between the witness and the lock
  pulls,        \* the query_ltime of push/pull states on their way to a node
  stage, ltime, \* how far query_in came, and the time it read
  registered,   \* the queries in `responses` of their origin
  timers,       \* the queries whose timer is running
  expired,      \* the queries whose deadline has passed
  closed,       \* QueryResponseCore.closed
  seen,         \* QueryResponseCore.acks and .responses
  capacity, queued, \* of the two channels of a QueryResponse
  answering,    \* answers that were found new, waiting for the write lock
  net, relays,  \* the answers and the relay messages that were ever sent
  open,         \* the query events of each node that may still respond
  delivered, again,   \* the queries each node handled, and the ones it handled twice
  given, twice        \* the answers each query was given, and the ones given twice

clockVars  == <<query_clock, min_time, buffer, calls, pulls>>
callVars   == <<stage, ltime>>
timeVars   == <<registered, timers, expired, closed>>
chanVars   == <<seen, capacity, queued, answering, given, twice>>
answerVars == <<net, relays, open>>
doneVars   == <<delivered, again>>
vars == <<clockVars, callVars, timeVars, chanVars, answerVars, doneVars>>

Slot   == 0 .. BufferSize - 1
Kind   == {"ack", "response"}
Answer == [query : Query, kind : Kind, from : Node]
Packet == [answer : Answer, to : Node, via : Node]

RingTypeOK ==
  /\ query_clock \in [Node -> Nat \ {0}]
  /\ min_time \in [Node -> Nat]
  /\ buffer \in [Node -> [Slot -> [ltime : Nat, ids : SUBSET Query]]]
  /\ calls \in [Node -> SUBSET Query]
  /\ pulls \in [Node -> SUBSET Nat]
  /\ stage \in [Query -> {"idle", "stamped", "registered", "called", "sent"}]
  /\ ltime \in [Query -> Nat]
  /\ delivered \in [Node -> SUBSET Query]
  /\ again \in [Node -> SUBSET Query]

AnswerTypeOK ==
  /\ registered \subseteq Query /\ timers \subseteq Query
  /\ expired \subseteq Query /\ closed \subseteq Query
  /\ seen \in [Query -> [Kind -> SUBSET Node]]
  /\ capacity \in [Query -> Nat]
  /\ queued \in [Query -> [Kind -> Nat]]
  /\ answering \subseteq Packet
  /\ net \subseteq Packet /\ relays \subseteq Packet
  /\ open \in [Node -> SUBSET Query]
  /\ given \in [Query -> [Kind -> SUBSET Node]]
  /\ twice \subseteq Answer

TypeOK == RingTypeOK /\ AnswerTypeOK

NoSnapshot == -1

\* A node without a snapshot starts at 1; one with a snapshot also ignores the queries
\* that are not newer than the last one it saw before it stopped.
Init ==
  /\ \E old \in [Node -> OldClocks \cup {NoSnapshot}] :
       /\ min_time = [n \in Node |-> old[n] + 1]
       /\ query_clock = [n \in Node |-> IF old[n] < 1 THEN 1 ELSE old[n] + 1]
  /\ buffer = [n \in Node |-> [i \in Slot |-> [ltime |-> 0, ids |-> {}]]]
  /\ calls = [n \in Node |-> {}] /\ pulls = [n \in Node |-> {}]
  /\ stage = [q \in Query |-> "idle"] /\ ltime = [q \in Query |-> 0]
  /\ registered = {} /\ timers = {} /\ expired = {} /\ closed = {}
  /\ seen = [q \in Query |-> [k \in Kind |-> {}]]
  /\ capacity = [q \in Query |-> 0]
  /\ queued = [q \in Query |-> [k \in Kind |-> 0]]
  /\ answering = {} /\ net = {} /\ relays = {}
  /\ open = [n \in Node |-> {}]
  /\ delivered = [n \in Node |-> {}] /\ again = [n \in Node |-> {}]
  /\ given = [q \in Query |-> [k \in Kind |-> {}]] /\ twice = {}

\* LamportClock::witness, as one atomic step (see LamportClock.tla).
Witness(clock, time) == IF time < clock THEN clock ELSE time + 1

-----------------------------------------------------------------------------
(* query_in: read the clock, register the response, handle the query        *)
(* locally, queue the broadcast.                                            *)

\* (A query that is too large is an error, and changes nothing.)
query_in(q) ==
  /\ stage[q] = "idle"
  /\ stage' = [stage EXCEPT ![q] = "stamped"]
  /\ ltime' = [ltime EXCEPT ![q] = query_clock[Origin[q]]]
  /\ UNCHANGED <<clockVars, timeVars, chanVars, answerVars, doneVars>>

\* The entries of `responses` that have the key of q.
SameKey(q) == {r \in registered : Origin[r] = Origin[q] /\ ltime[r] = ltime[q]}

\* Mutant: the timer is not started.
RegisterNoTimer(q, online) ==
  /\ stage[q] = "stamped"
  /\ stage' = [stage EXCEPT ![q] = "registered"]
  /\ registered' = (registered \ SameKey(q)) \cup {q}
  /\ capacity' = [capacity EXCEPT ![q] = online]
  /\ UNCHANGED <<clockVars, ltime, timers, expired, closed, seen, queued, answering, given, twice,
                 answerVars, doneVars>>

\* An entry with the same time is replaced; nobody closes it.
register_query_response(q, online) ==
  /\ stage[q] = "stamped"
  /\ stage' = [stage EXCEPT ![q] = "registered"]
  /\ registered' = (registered \ SameKey(q)) \cup {q}
  /\ timers' = timers \cup {q}
  /\ capacity' = [capacity EXCEPT ![q] = online]
  /\ UNCHANGED <<clockVars, ltime, expired, closed, seen, queued, answering, given, twice,
                 answerVars, doneVars>>

\* handle_query witnesses the time of the query and waits for the lock.
Begin(n, q) ==
  /\ calls' = [calls EXCEPT ![n] = @ \cup {q}]
  /\ query_clock' = [query_clock EXCEPT ![n] = Witness(@, ltime[q])]

HandleLocally(q) ==
  /\ stage[q] = "registered"
  /\ stage' = [stage EXCEPT ![q] = "called"]
  /\ Begin(Origin[q], q)
  /\ UNCHANGED <<min_time, buffer, pulls, ltime, timeVars, chanVars, answerVars, doneVars>>

notify_message(n, q) ==
  /\ stage[q] = "sent"
  /\ q \notin calls[n]
  /\ Begin(n, q)
  /\ UNCHANGED <<min_time, buffer, pulls, callVars, timeVars, chanVars, answerVars, doneVars>>

-----------------------------------------------------------------------------
(* handle_query under the lock.                                             *)

SlotOf(time) == time % BufferSize

\* Mutant: the minimum time is ignored.
IsOldNoMin(n, time) == query_clock[n] > BufferSize /\ time < query_clock[n] - BufferSize

\* Before the minimum time of the node, or too old for the buffer.
IsOld(n, time) ==
  \/ time < min_time[n]
  \/ query_clock[n] > BufferSize /\ time < query_clock[n] - BufferSize

\* The slot holds this time and this id.
IsSeen(n, q) ==
  LET slot == buffer[n][SlotOf(ltime[q])] IN slot.ltime = ltime[q] /\ q \in slot.ids

\* Mutant: the id is appended to a stale entry.
RememberStale(slot, q) ==
  [ltime |-> IF slot.ids = {} THEN ltime[q] ELSE slot.ltime, ids |-> slot.ids \cup {q}]

\* The id joins the ids of its time; an entry of another time is dropped.
Remember(slot, q) ==
  [ltime |-> ltime[q], ids |-> IF slot.ltime = ltime[q] THEN slot.ids \cup {q} ELSE {q}]

\* Every filter has to match: a filter of a received query that cannot be decoded matches
\* no node.  (The tags of a node are taken to be fixed.)
should_process_query(n, q) == \A filter \in Filters[q] : n \in filter

\* The answer of n, sent to the origin directly,
Direct(n, q, kind) ==
  [answer |-> [query |-> q, kind |-> kind, from |-> n], to |-> Origin[q], via |-> n]

\* and what relay_response wraps for each chosen member.
Wrapped(n, q, kind, node, members) ==
  {[answer |-> [query |-> q, kind |-> kind, from |-> n], to |-> node, via |-> m] : m \in members}

\* Who may be chosen: up to relay_factor alive members other than n; none if there are too
\* few of them, or if the relay message is too large.
RelayMembers(n, q) == {members \in SUBSET (Node \ {n}) : Cardinality(members) <= RelayFactor[q]}

\* A query that passes its filters is acked, if that is asked for, and given to the
\* application as an event that can respond.
Accept(n, q, members) ==
  IF should_process_query(n, q)
  THEN /\ delivered' = [delivered EXCEPT ![n] = @ \cup {q}]
       /\ again' = IF q \in delivered[n] THEN [again EXCEPT ![n] = @ \cup {q}] ELSE again
       /\ open' = [open EXCEPT ![n] = @ \cup {q}]
       /\ net' = IF q \in RequestAck THEN net \cup {Direct(n, q, "ack")} ELSE net
       /\ relays' = IF q \in RequestAck
                    THEN relays \cup Wrapped(n, q, "ack", Origin[q], members)
                    ELSE relays
  ELSE UNCHANGED <<delivered, again, open, net, relays>>

\* query_in then queues the broadcast, whatever came out.
Finish(n, q, members) ==
  /\ q \in calls[n]
  /\ calls' = [calls EXCEPT ![n] = @ \ {q}]
  /\ stage' = [stage EXCEPT ![q] = "sent"]
  /\ \/ /\ ~ IsOld(n, ltime[q]) /\ ~ IsSeen(n, q)
        /\ buffer' = [buffer EXCEPT ![n][SlotOf(ltime[q])] = Remember(@, q)]
        /\ Accept(n, q, members)
     \/ /\ IsOld(n, ltime[q]) \/ IsSeen(n, q)
        /\ members = {}
        /\ UNCHANGED <<buffer, delivered, again, answerVars>>
  /\ UNCHANGED <<query_clock, min_time, pulls, ltime, timeVars, chanVars>>

-----------------------------------------------------------------------------
(* The query clock also travels in push/pull states.                        *)

local_state(from, to) ==
  /\ to \in Pulling /\ pulls[to] = {}
  /\ pulls' = [pulls EXCEPT ![to] = {query_clock[from]}]
  /\ UNCHANGED <<query_clock, min_time, buffer, calls, callVars, timeVars, chanVars, answerVars,
                 doneVars>>

merge_remote_state(n, time) ==
  /\ pulls' = [pulls EXCEPT ![n] = {}]
  /\ query_clock' = [query_clock EXCEPT ![n] = IF time > 0 THEN Witness(@, time - 1) ELSE @]
  /\ UNCHANGED <<min_time, buffer, calls, callVars, timeVars, chanVars, answerVars, doneVars>>

-----------------------------------------------------------------------------
(* Answers.                                                                 *)

\* QueryEvent::respond sends to the origin and relays; a relay message names its `node`,
\* for which the code passes resp.from, the responder.  If the relay message is too large
\* the answer was sent but the event can still respond.  (Past its timeout the event
\* refuses, which changes nothing.)
respond(n, q, members, tooLarge) ==
  /\ q \in Responding /\ q \in open[n]
  /\ tooLarge => members = {} /\ RelayFactor[q] > 0
  /\ net' = net \cup {Direct(n, q, "response")}
  /\ relays' = relays \cup Wrapped(n, q, "response", n, members)
  /\ open' = IF tooLarge THEN open ELSE [open EXCEPT ![n] = @ \ {q}]
  /\ UNCHANGED <<clockVars, callVars, timeVars, chanVars, doneVars>>

\* A member that receives a relay message sends the wrapped answer to the node it names.
Relay(packet) ==
  /\ packet \in relays \ net
  /\ net' = net \cup {packet}
  /\ UNCHANGED <<clockVars, callVars, timeVars, chanVars, relays, open, doneVars>>

-----------------------------------------------------------------------------
(* QueryResponse: collecting the answers, the timer, close().               *)

\* Mutant: the ids are not compared.
LookupAnyId(packet) ==
  {q \in registered : Origin[q] = packet.to /\ ltime[q] = ltime[packet.answer.query]}

\* The registered query of the receiver with the time and the id of the answer.
Lookup(packet) ==
  {q \in registered : /\ Origin[q] = packet.to /\ ltime[q] = ltime[packet.answer.query]
                      /\ q = packet.answer.query}

\* Checked under the read lock: the query runs, and the answer is no duplicate.
handle_query_response(packet) ==
  \E q \in Lookup(packet) :
    /\ q \notin closed \cup expired
    /\ packet.answer.from \notin seen[q][packet.answer.kind]
    /\ answering' = answering \cup {[packet EXCEPT !.answer.query = q]}
    /\ UNCHANGED <<clockVars, callVars, timeVars, seen, capacity, queued, given, twice,
                   answerVars, doneVars>>

\* Mutant: the write lock does not check for duplicates again.
IsNewUnchecked(answer) == answer.query \notin closed

\* Checked again under the write lock.
IsNew(answer) ==
  /\ answer.from \notin seen[answer.query][answer.kind]
  /\ answer.query \notin closed

\* The channel has room.
Push(answer) ==
  LET q == answer.query k == answer.kind
  IN  /\ queued[q][k] < capacity[q]
      /\ queued' = [queued EXCEPT ![q][k] = @ + 1]
      /\ seen' = [seen EXCEPT ![q][k] = @ \cup {answer.from}]
      /\ given' = [given EXCEPT ![q][k] = @ \cup {answer.from}]
      /\ twice' = IF answer.from \in given[q][k] THEN twice \cup {answer} ELSE twice

\* send_ack and send_response.  An answer that finds the channel full is dropped, and not
\* recorded: a relayed copy of it may still be taken.
send(packet) ==
  /\ answering' = answering \ {packet}
  /\ \/ IsNew(packet.answer) /\ Push(packet.answer)
     \/ /\ \/ ~ IsNew(packet.answer)
           \/ queued[packet.answer.query][packet.answer.kind] >= capacity[packet.answer.query]
        /\ UNCHANGED <<queued, seen, given, twice>>
  /\ UNCHANGED <<clockVars, callVars, timeVars, capacity, answerVars, doneVars>>

\* The application takes an answer from a channel.
Receive(q, k) ==
  /\ queued[q][k] > 0
  /\ queued' = [queued EXCEPT ![q][k] = @ - 1]
  /\ UNCHANGED <<clockVars, callVars, timeVars, seen, capacity, answering, given, twice,
                 answerVars, doneVars>>

\* The deadline passes; the timer was started after it was computed, and fires later.
Expire(q) ==
  /\ q \in Expiring /\ q \in timers \ expired
  /\ expired' = expired \cup {q}
  /\ UNCHANGED <<clockVars, callVars, registered, timers, closed, chanVars, answerVars, doneVars>>

\* The timer closes and removes the entry it finds under the time of its query.
Timer(q) ==
  /\ q \in timers \cap expired
  /\ timers' = timers \ {q}
  /\ registered' = registered \ SameKey(q)
  /\ closed' = closed \cup SameKey(q)
  /\ UNCHANGED <<clockVars, callVars, expired, chanVars, answerVars, doneVars>>

\* close() called by the application, which has the QueryResponse once query_in returned.
close(q) ==
  /\ q \in Closing /\ stage[q] = "sent" /\ q \notin closed
  /\ closed' = closed \cup {q}
  /\ UNCHANGED <<clockVars, callVars, registered, timers, expired, chanVars, answerVars, doneVars>>

Next ==
  \/ \E q \in Query :
       \/ query_in(q) \/ HandleLocally(q) \/ Expire(q) \/ Timer(q) \/ close(q)
       \/ \E online \in Online : register_query_response(q, online)
       \/ \E k \in Kind : Receive(q, k)
       \/ \E n \in Node :
            \/ notify_message(n, q)
            \/ \E members \in RelayMembers(n, q) :
                 \/ Finish(n, q, members)
                 \/ \E tooLarge \in BOOLEAN : respond(n, q, members, tooLarge)
  \/ \E n \in Node :
       \/ \E from \in Node \ {n} : local_state(from, n)
       \/ \E time \in pulls[n] : merge_remote_state(n, time)
  \/ \E packet \in relays : Relay(packet)
  \/ \E packet \in net : handle_query_response(packet)
  \/ \E packet \in answering : send(packet)

Spec == Init /\ [][Next]_vars

\* Time passes, the runtime runs its tasks; nothing is assumed of the network or of the
\* application.
Fairness ==
  \A q \in Query :
    /\ WF_vars(Expire(q)) /\ WF_vars(Timer(q))

FairSpec == Spec /\ Fairness

-----------------------------------------------------------------------------
(* Safety.                                                                 *)

\* No application is given a query twice, although gossip repeats it, times wrap around
\* the ring buffer, and handlers wait for the lock while the clock moves on.
NoDoubleDelivery == \A n \in Node : again[n] = {}

\* An origin is given at most one ack and one response of each node, although direct
\* and relayed copies are handled concurrently.
NoDoubleAnswer == twice = {}

\* An answer is given to the query it answers: its sender handled that query, even when
\* queries of one origin share a time, or an answer comes to a node that is not its origin.
AnswersMatch ==
  \A q \in Query, k \in Kind : \A n \in given[q][k] : q \in delivered[n]

\* A node that restarts from its snapshot does not handle again what it had seen.
NothingOld == \A n \in Node : \A q \in delivered[n] : ltime[q] >= min_time[n]

\* Once a query is closed its channels are given nothing more, also not by an answer that
\* was found in time before the timer took the lock.
NothingAfterClose == [][\A q \in closed : given'[q] = given[q]]_vars

-----------------------------------------------------------------------------
(* Liveness.                                                               *)

\* Every query whose time is its own is closed, and leaves the table of its origin.
Alone(q) == \A r \in Query \ {q} : Origin[r] = Origin[q] => ltime[r] # ltime[q]
QueryCloses ==
  \A q \in Query : q \in registered ~> (q \in closed \ registered \/ ~ Alone(q))

-----------------------------------------------------------------------------
(* Disagreements between the documentation and the code.                   *)

\* "Channel will be closed when the query is finished."
ChannelCloses == \A q \in Query : stage[q] = "sent" ~> q \in closed

\* "relay back to the sender through other nodes": a relay message names the node that
\* sent the query.
RelayToSender == \A packet \in relays : packet.to = Origin[packet.answer.query]
=============================================================================
