----------------------------- MODULE UserEvents -----------------------------
(***************************************************************************)
(* User events in a cluster: the API call, gossip, the push/pull exchange  *)
(* and the ring buffer (EventCore) with which a node tells an event it has *)
(* delivered from a new one.                                               *)
(*                                                                         *)
(* Gossip is unreliable: a message that was broadcast may reach any node   *)
(* at any time, any number of times, or never.  handle_user_event raises   *)
(* the event clock before it takes the lock of the buffer: a call is two   *)
(* steps, and calls are in flight between them.                            *)
(***************************************************************************)
EXTENDS Integers, FiniteSets

CONSTANTS Node,
          Event,          \* the pairs of a name and a payload
          BufferSize,     \* event_buffer_size
          Ignoring,       \* the nodes that call join(.., ignore_old = true)
          MaxLTime,       \* bound: events are not sent once the clock is above this time
          MaxCalls        \* bound: handlers in flight at a node

ASSUME BufferAssumption == BufferSize \in Nat \ {0}
ASSUME NodeAssumption == Ignoring \subseteq Node
ASSUME EventBounds == MaxLTime \in Nat /\ MaxCalls \in Nat

VARIABLES
  event_clock,      \* of each node
  min_time,         \* event_core.min_time
  buffer,           \* event_core.buffer; a slot without events is None
  event_join_ignore,
  calls,            \* handle_user_event between the witness and the lock
  sent,             \* the messages that were ever given to event_broadcasts
  pulls,            \* push/pull states on their way to a node or being merged there
  delivered,        \* the messages the application of each node was given
  again,            \* the messages it was given a second time
  skipped           \* the messages that were in time, never delivered, and taken for known

vars == <<event_clock, min_time, buffer, event_join_ignore, calls, sent, pulls,
          delivered, again, skipped>>

Msg  == [ltime : Nat, event : Event]
Slot == 0 .. BufferSize - 1
Call == [msg : Msg, by : {"stamped", "api", "gossip", "pull"}]
Pull == [to : Node, event_ltime : Nat, events : SUBSET Msg, join : BOOLEAN, own : BOOLEAN,
         at : {"sent", "witnessed", "merging"}]

TypeOK ==
  /\ event_clock \in [Node -> Nat \ {0}]
  /\ min_time \in [Node -> Nat]
  /\ buffer \in [Node -> [Slot -> [ltime : Nat, events : SUBSET Event]]]
  /\ event_join_ignore \in [Node -> BOOLEAN]
  /\ calls \in [Node -> SUBSET Call]
  /\ sent \subseteq Msg
  /\ pulls \subseteq Pull
  /\ delivered \in [Node -> SUBSET Msg]
  /\ again \in [Node -> SUBSET Msg]
  /\ skipped \in [Node -> SUBSET Msg]

Init ==
  /\ event_clock = [n \in Node |-> 1]
  /\ min_time = [n \in Node |-> 0]
  /\ buffer = [n \in Node |-> [i \in Slot |-> [ltime |-> 0, events |-> {}]]]
  /\ event_join_ignore = [n \in Node |-> FALSE]
  /\ calls = [n \in Node |-> {}]
  /\ sent = {} /\ pulls = {}
  /\ delivered = [n \in Node |-> {}]
  /\ again = [n \in Node |-> {}]
  /\ skipped = [n \in Node |-> {}]

\* LamportClock::witness, as one atomic step (see LamportClock.tla).
Witness(clock, ltime) == IF ltime < clock THEN clock ELSE ltime + 1

-----------------------------------------------------------------------------
(* handle_user_event.                                                      *)

\* Witness the time of the message, wait for the lock.
Begin(n, msg, by) ==
  /\ calls' = [calls EXCEPT ![n] = @ \cup {[msg |-> msg, by |-> by]}]
  /\ event_clock' = [event_clock EXCEPT ![n] = Witness(@, msg.ltime)]

SlotOf(ltime) == ltime % BufferSize

\* Before the minimum time of the node, or too old for the buffer.
IsOld(n, ltime) ==
  \/ ltime < min_time[n]
  \/ event_clock[n] > BufferSize /\ ltime < event_clock[n] - BufferSize

\* Mutant: the time of the slot is compared, but Remember does not move it.
IsSeenAtTime(n, msg) ==
  LET slot == buffer[n][SlotOf(msg.ltime)]
  IN  msg.event \in slot.events /\ slot.ltime = msg.ltime

\* The slot holds the event; the code does not look at the time of the slot.
IsSeen(n, msg) == msg.event \in buffer[n][SlotOf(msg.ltime)].events

\* The slot with the event added; a slot that is in use keeps its time.
Remember(slot, msg) ==
  [ltime  |-> IF slot.events = {} THEN msg.ltime ELSE slot.ltime,
   events |-> slot.events \cup {msg.event}]

Deliver(n, msg) ==
  /\ buffer' = [buffer EXCEPT ![n][SlotOf(msg.ltime)] = Remember(@, msg)]
  /\ delivered' = [delivered EXCEPT ![n] = @ \cup {msg}]
  /\ again' = IF msg \in delivered[n] THEN [again EXCEPT ![n] = @ \cup {msg}] ELSE again
  /\ UNCHANGED skipped

\* The body under the lock; user_event then queues its message, whatever came out.
\* (A received message is only queued again, and a merged one never is.)
Finish(n, c) ==
  /\ c.by # "stamped"
  /\ calls' = [calls EXCEPT ![n] = @ \ {c}]
  /\ sent' = IF c.by = "api" THEN sent \cup {c.msg} ELSE sent
  /\ \/ /\ ~ IsOld(n, c.msg.ltime) /\ ~ IsSeen(n, c.msg)
        /\ Deliver(n, c.msg)
     \/ /\ IsOld(n, c.msg.ltime) \/ IsSeen(n, c.msg)
        /\ skipped' = IF IsOld(n, c.msg.ltime) \/ c.msg \in delivered[n]
                      THEN skipped
                      ELSE [skipped EXCEPT ![n] = @ \cup {c.msg}]
        /\ UNCHANGED <<buffer, delivered, again>>
  /\ UNCHANGED <<event_clock, min_time, event_join_ignore, pulls>>

-----------------------------------------------------------------------------
(* Sending and receiving.                                                  *)

\* The API call stamps the message with the clock (a message that is too large is an
\* error, and changes nothing),
user_event(n, event) ==
  /\ event_clock[n] <= MaxLTime
  /\ Cardinality(calls[n]) < MaxCalls
  /\ calls' = [calls EXCEPT ![n] =
                 @ \cup {[msg |-> [ltime |-> event_clock[n], event |-> event], by |-> "stamped"]}]
  /\ UNCHANGED <<event_clock, min_time, buffer, event_join_ignore, sent, pulls, delivered,
                 again, skipped>>

\* then increments the clock and handles the message; the two are not one atomic step.
Increment(n, c) ==
  /\ c.by = "stamped"
  /\ calls' = [calls EXCEPT ![n] = (@ \ {c}) \cup {[c EXCEPT !.by = "api"]}]
  /\ event_clock' = [event_clock EXCEPT ![n] = Witness(@ + 1, c.msg.ltime)]
  /\ UNCHANGED <<min_time, buffer, event_join_ignore, sent, pulls, delivered, again, skipped>>

notify_message(n, msg) ==
  /\ Cardinality(calls[n]) < MaxCalls
  /\ Begin(n, msg, "gossip")
  /\ UNCHANGED <<min_time, buffer, event_join_ignore, sent, pulls, delivered, again, skipped>>

\* Mutant: the first slot is left out.
BufferedButFirst(n) ==
  UNION {{[ltime |-> buffer[n][i].ltime, event |-> e] : e \in buffer[n][i].events} : i \in Slot \ {0}}

\* What a buffer sends: every event under the time of its slot.
BufferedMsgs(n) ==
  UNION {{[ltime |-> buffer[n][i].ltime, event |-> e] : e \in buffer[n][i].events} : i \in Slot}

\* One direction of a push/pull exchange.  A join exchange is marked as such on both
\* sides; it is the receiver's own when the receiver is the one inside join().  (The
\* mark only matters to a node that may ignore old events.)
local_state(from, to, join, own) ==
  /\ \A p \in pulls : p.to # to
  /\ join => to \in Ignoring
  /\ own => join /\ event_join_ignore[to]
  /\ pulls' = pulls \cup {[to |-> to, event_ltime |-> event_clock[from],
                           events |-> BufferedMsgs(from), join |-> join, own |-> own,
                           at |-> "sent"]}
  /\ UNCHANGED <<event_clock, min_time, buffer, event_join_ignore, calls, sent,
                 delivered, again, skipped>>

\* merge_remote_state witnesses the clock of the other node minus one,
MergeClock(p) ==
  /\ p.at = "sent"
  /\ event_clock' = [event_clock EXCEPT ![p.to] =
                       IF p.event_ltime > 0 THEN Witness(@, p.event_ltime - 1) ELSE @]
  /\ pulls' = (pulls \ {p}) \cup {[p EXCEPT !.at = "witnessed"]}
  /\ UNCHANGED <<min_time, buffer, event_join_ignore, calls, sent, delivered, again, skipped>>

\* Mutant: the minimum time is one too low.
MinTimeOffByOne(p) ==
  /\ p.at = "witnessed"
  /\ min_time' = IF p.join /\ event_join_ignore[p.to] /\ p.event_ltime > min_time[p.to]
                 THEN [min_time EXCEPT ![p.to] = p.event_ltime - 1]
                 ELSE min_time
  /\ pulls' = (pulls \ {p}) \cup {[p EXCEPT !.at = "merging"]}
  /\ UNCHANGED <<event_clock, buffer, event_join_ignore, calls, sent, delivered, again, skipped>>

\* raises the minimum time if it is a join and old events are ignored,
MergeMinTime(p) ==
  /\ p.at = "witnessed"
  /\ min_time' = IF p.join /\ event_join_ignore[p.to] /\ p.event_ltime > min_time[p.to]
                 THEN [min_time EXCEPT ![p.to] = p.event_ltime]
                 ELSE min_time
  /\ pulls' = (pulls \ {p}) \cup {[p EXCEPT !.at = "merging"]}
  /\ UNCHANGED <<event_clock, buffer, event_join_ignore, calls, sent, delivered, again, skipped>>

\* and handles the events one after the other.
MergeEvent(p, msg) ==
  /\ p.at = "merging"
  /\ \A c \in calls[p.to] : c.by # "pull"
  /\ Begin(p.to, msg, "pull")
  /\ pulls' = (pulls \ {p}) \cup {[p EXCEPT !.events = @ \ {msg}]}
  /\ UNCHANGED <<min_time, buffer, event_join_ignore, sent, delivered, again, skipped>>

MergeEnd(p) ==
  /\ p.at = "merging" /\ p.events = {}
  /\ \A c \in calls[p.to] : c.by # "pull"
  /\ pulls' = pulls \ {p}
  /\ UNCHANGED <<event_clock, min_time, buffer, event_join_ignore, calls, sent,
                 delivered, again, skipped>>

\* The exchange fails, or the state never arrives.
PullLost(p) ==
  /\ p.at = "sent"
  /\ pulls' = pulls \ {p}
  /\ UNCHANGED <<event_clock, min_time, buffer, event_join_ignore, calls, sent,
                 delivered, again, skipped>>

\* join(.., ignore_old): the flag is up while memberlist contacts the other nodes.
JoinBegin(n) ==
  /\ ~ event_join_ignore[n]
  /\ event_join_ignore' = [event_join_ignore EXCEPT ![n] = TRUE]
  /\ UNCHANGED <<event_clock, min_time, buffer, calls, sent, pulls, delivered, again, skipped>>

JoinEnd(n) ==
  /\ event_join_ignore[n]
  /\ \A p \in pulls : ~ (p.to = n /\ p.own)
  /\ event_join_ignore' = [event_join_ignore EXCEPT ![n] = FALSE]
  /\ UNCHANGED <<event_clock, min_time, buffer, calls, sent, pulls, delivered, again, skipped>>

Next ==
  \/ \E n \in Node : \/ \E c \in calls[n] : Increment(n, c) \/ Finish(n, c)
                     \/ \E event \in Event : user_event(n, event)
                     \/ \E msg \in sent : notify_message(n, msg)
  \/ \E n \in Ignoring : JoinBegin(n) \/ JoinEnd(n)
  \/ \E from, to \in Node, join, own \in BOOLEAN : from # to /\ local_state(from, to, join, own)
  \/ \E p \in pulls : \/ MergeClock(p) \/ MergeMinTime(p) \/ MergeEnd(p) \/ PullLost(p)
                     \/ \E msg \in p.events : MergeEvent(p, msg)

Spec == Init /\ [][Next]_vars

\* Tasks run, and memberlist's periodic push/pull tries every pair of nodes again and
\* again and does not fail forever.  Nothing is assumed of gossip.
Fairness ==
  \A n \in Node :
    /\ WF_vars(\E c \in calls[n] : Increment(n, c) \/ Finish(n, c))
    /\ \A k \in Node \ {n} : WF_vars(local_state(k, n, FALSE, FALSE))
    /\ SF_vars(\E p \in pulls : p.to = n /\ MergeClock(p))
    /\ WF_vars(\E p \in pulls : p.to = n /\ \/ MergeMinTime(p) \/ MergeEnd(p)
                                            \/ \E msg \in p.events : MergeEvent(p, msg))

FairSpec == Spec /\ Fairness

-----------------------------------------------------------------------------
(* Safety.                                                                 *)

\* However a message comes back - gossip, push/pull, a handler that waited while the
\* clock moved on - no application is given it twice.
NoDoubleDelivery == \A n \in Node : again[n] = {}

\* Every time in the buffer was witnessed: a message stamped with the clock is newer than
\* everything the node remembers, whatever was merged or reordered.
BufferBelowClock ==
  \A n \in Node : \A i \in Slot :
    buffer[n][i].events # {} => buffer[n][i].ltime < event_clock[n]

\* join(.., ignore_old) ignores every event that the contacted node had when it answered:
\* the minimum time is above all of them before the first one is handled.
JoinIgnoresOld ==
  \A p \in pulls : p.own /\ p.at = "merging" => \A msg \in p.events : msg.ltime < min_time[p.to]

-----------------------------------------------------------------------------
(* Liveness.                                                               *)

\* An event that was broadcast reaches every node even if gossip loses it everywhere, unless
\* the clock of the node has overrun it, or some node (its sender, say) did not store it: since
\* a join that ignores old events, or because the slot held an equal event of an earlier round.
Overrun(n, ltime) == event_clock[n] > BufferSize /\ ltime < event_clock[n] - BufferSize
EventsSpread ==
  \A n \in Node, ltime \in 1 .. MaxLTime, event \in Event :
    LET msg == [ltime |-> ltime, event |-> event]
    IN  msg \in sent ~> \/ msg \in delivered[n]
                        \/ Overrun(n, ltime)
                        \/ \E k \in Ignoring : ltime < min_time[k]
                        \/ \E k \in Node : msg \in skipped[k]
=============================================================================
