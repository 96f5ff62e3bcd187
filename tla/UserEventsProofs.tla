-------------------------- MODULE UserEventsProofs --------------------------
(***************************************************************************)
(* Proofs about UserEvents for any set of nodes and events, any size of    *)
(* the buffer, any number of calls in flight and any times.                *)
(***************************************************************************)
EXTENDS UserEvents, TLAPS

-----------------------------------------------------------------------------
(* The inductive invariant.                                                *)

\* A slot is never emptied: what was delivered stays in its slot, whatever the time of
\* the slot.  This is all that keeps a message from being delivered again.
DeliveredStay ==
  \A n \in Node : \A msg \in delivered[n] : msg.event \in buffer[n][SlotOf(msg.ltime)].events

\* Only the message of a call that is not past its increment may carry the clock itself.
CallsBelowClock ==
  \A n \in Node : \A c \in calls[n] :
    /\ c.msg.ltime <= event_clock[n]
    /\ c.by # "stamped" => c.msg.ltime < event_clock[n]

\* A push/pull state carries a clock above its events; a join that ignores old events
\* does not end before its own exchanges do.
PullsOK ==
  \A p \in pulls :
    /\ \A msg \in p.events : msg.ltime < p.event_ltime
    /\ p.own => p.join /\ event_join_ignore[p.to]
    /\ p.own /\ p.at = "merging" => p.event_ltime <= min_time[p.to]

IInv ==
  /\ TypeOK /\ NoDoubleDelivery /\ BufferBelowClock
  /\ DeliveredStay /\ CallsBelowClock /\ PullsOK

-----------------------------------------------------------------------------
(* The operators.                                                          *)

\* The remainder of a time is an index of the buffer.
LEMMA SlotRange == ASSUME NEW ltime \in Nat PROVE SlotOf(ltime) \in Slot
BY BufferAssumption DEF SlotOf, Slot

\* witness never lowers a clock, and leaves it above the time.
LEMMA WitnessAbove ==
  ASSUME NEW clock \in Nat \ {0}, NEW ltime \in Nat
  PROVE  Witness(clock, ltime) \in Nat \ {0} /\ clock <= Witness(clock, ltime)
         /\ ltime < Witness(clock, ltime)
BY DEF Witness

\* A message of the buffer has the time of a slot that is in use.
LEMMA BufferedTyped ==
  ASSUME TypeOK, BufferBelowClock, NEW n \in Node, NEW msg \in BufferedMsgs(n)
  PROVE  msg \in Msg /\ msg.ltime < event_clock[n]
<1>1. PICK i \in Slot : \E e \in buffer[n][i].events :
                          msg = [ltime |-> buffer[n][i].ltime, event |-> e]
  BY DEF BufferedMsgs
<1>2. buffer[n][i] \in [ltime : Nat, events : SUBSET Event]
  BY DEF TypeOK
<1> QED
  BY <1>1, <1>2 DEF BufferBelowClock, Msg

-----------------------------------------------------------------------------
(* One lemma per group of actions.                                         *)

\* Init establishes the invariant.
LEMMA InitIInv == Init => IInv
BY BufferAssumption DEF Init, IInv, TypeOK, NoDoubleDelivery, BufferBelowClock, DeliveredStay,
   CallsBelowClock, PullsOK

\* A step that puts a call in flight, or moves one on, and raises the clock of that node
\* at least above the message keeps the invariant.
LEMMA ClockIInv ==
  ASSUME IInv, NEW n \in Node, NEW clock \in Nat, event_clock[n] <= clock,
         event_clock' = [event_clock EXCEPT ![n] = clock],
         UNCHANGED <<min_time, buffer, event_join_ignore, sent, delivered, again, skipped>>,
         calls' \in [Node -> SUBSET Call],
         \A k \in Node : \A c \in calls'[k] :
           \/ c \in calls[k]
           \/ /\ k = n /\ c.msg.ltime <= clock
              /\ c.by # "stamped" => c.msg.ltime < clock,
         pulls' \subseteq Pull, PullsOK'
  PROVE  IInv'
<1>0. event_clock' \in [Node -> Nat \ {0}]
  BY DEF IInv, TypeOK
<1>1. TypeOK' /\ NoDoubleDelivery' /\ DeliveredStay'
  <2>1. TypeOK'
    BY <1>0 DEF IInv, TypeOK
  <2>2. NoDoubleDelivery' /\ DeliveredStay'
    BY DEF IInv, NoDoubleDelivery, DeliveredStay
  <2> QED
    BY <2>1, <2>2
<1>2. \A k \in Node : event_clock[k] <= event_clock'[k]
  BY DEF IInv, TypeOK
<1>3. BufferBelowClock'
  <2> SUFFICES ASSUME NEW k \in Node, NEW i \in Slot, buffer[k][i].events # {}
               PROVE  buffer[k][i].ltime < event_clock'[k]
    BY DEF BufferBelowClock
  <2>1. buffer[k][i] \in [ltime : Nat, events : SUBSET Event]
    BY DEF IInv, TypeOK
  <2>2. buffer[k][i].ltime < event_clock[k]
    BY DEF IInv, BufferBelowClock
  <2>3. /\ buffer[k][i].ltime \in Nat /\ event_clock[k] \in Nat
        /\ event_clock'[k] \in Nat /\ event_clock[k] <= event_clock'[k]
    BY <2>1, <1>0, <1>2 DEF IInv, TypeOK
  <2> QED
    BY <2>2, <2>3
<1>4. CallsBelowClock'
  <2> SUFFICES ASSUME NEW k \in Node, NEW c \in calls'[k]
               PROVE  /\ c.msg.ltime <= event_clock'[k]
                      /\ c.by # "stamped" => c.msg.ltime < event_clock'[k]
    BY DEF CallsBelowClock
  <2>1. c.msg.ltime \in Nat
    BY DEF Call, Msg
  <2>2. CASE c \in calls[k]
    BY <2>1, <2>2, <1>1, <1>2 DEF IInv, TypeOK, CallsBelowClock
  <2>3. CASE c \notin calls[k]
    BY <2>3 DEF IInv, TypeOK
  <2> QED
    BY <2>2, <2>3
<1> QED
  BY <1>1, <1>3, <1>4 DEF IInv

\* Sending, receiving and stamping keep the invariant.
LEMMA CallIInv ==
  ASSUME IInv, NEW n \in Node,
         \/ \E event \in Event : user_event(n, event)
         \/ \E msg \in sent : notify_message(n, msg)
         \/ \E c \in calls[n] : Increment(n, c)
  PROVE  IInv'
<1>0. event_clock[n] \in Nat \ {0} /\ calls \in [Node -> SUBSET Call]
  BY DEF IInv, TypeOK
<1>1. ASSUME NEW event \in Event, user_event(n, event)
      PROVE  IInv'
  <2> DEFINE c == [msg |-> [ltime |-> event_clock[n], event |-> event], by |-> "stamped"]
  <2>1. c \in Call
    BY <1>0 DEF Call, Msg
  <2>2. calls' = [calls EXCEPT ![n] = @ \cup {c}]
    BY <1>1 DEF user_event
  <2>3. event_clock' = [event_clock EXCEPT ![n] = event_clock[n]]
    BY <1>1, <1>0 DEF user_event, IInv, TypeOK
  <2>4. UNCHANGED <<min_time, buffer, event_join_ignore, sent, delivered, again, skipped, pulls>>
    BY <1>1 DEF user_event
  <2>5. PullsOK' /\ pulls' \subseteq Pull
    BY <2>4 DEF PullsOK, IInv, TypeOK
  <2>6. calls' \in [Node -> SUBSET Call]
    BY <2>1, <2>2, <1>0
  <2>7. c.msg.ltime = event_clock[n] /\ c.by = "stamped"
    OBVIOUS
  <2>8. \A k \in Node : \A d \in calls'[k] : d \in calls[k] \/ (k = n /\ d = c)
    BY <2>2, <1>0
  <2> HIDE DEF c
  <2>9. \A k \in Node : \A d \in calls'[k] :
           \/ d \in calls[k]
           \/ /\ k = n /\ d.msg.ltime <= event_clock[n]
              /\ d.by # "stamped" => d.msg.ltime < event_clock[n]
    BY <2>7, <2>8, <1>0
  <2>10. event_clock[n] \in Nat /\ event_clock[n] <= event_clock[n]
    BY <1>0
  <2> QED
    BY <2>10, <2>3, <2>4, <2>5, <2>6, <2>9, ClockIInv
<1>2. ASSUME NEW msg \in sent, notify_message(n, msg)
      PROVE  IInv'
  <2> DEFINE c == [msg |-> msg, by |-> "gossip"]
             w == Witness(event_clock[n], msg.ltime)
  <2>1. c \in Call /\ msg.ltime \in Nat /\ c.msg = msg
    BY DEF Call, IInv, TypeOK, Msg
  <2>2. /\ calls' = [calls EXCEPT ![n] = @ \cup {c}]
        /\ event_clock' = [event_clock EXCEPT ![n] = w]
    BY <1>2 DEF notify_message, Begin
  <2>3. w \in Nat /\ event_clock[n] <= w /\ msg.ltime < w
    BY <1>0, <2>1, WitnessAbove
  <2>4. UNCHANGED <<min_time, buffer, event_join_ignore, sent, delivered, again, skipped, pulls>>
    BY <1>2 DEF notify_message
  <2>5. PullsOK' /\ pulls' \subseteq Pull
    BY <2>4 DEF PullsOK, IInv, TypeOK
  <2>6. calls' \in [Node -> SUBSET Call]
    BY <2>1, <2>2, <1>0
  <2>8. \A k \in Node : \A d \in calls'[k] : d \in calls[k] \/ (k = n /\ d = c)
    BY <2>2, <1>0
  <2> HIDE DEF c, w
  <2>9. \A k \in Node : \A d \in calls'[k] :
           \/ d \in calls[k]
           \/ /\ k = n /\ d.msg.ltime <= w
              /\ d.by # "stamped" => d.msg.ltime < w
    BY <2>1, <2>3, <2>8
  <2> QED
    BY <2>2, <2>3, <2>4, <2>5, <2>6, <2>9, ClockIInv
<1>3. ASSUME NEW b \in calls[n], Increment(n, b)
      PROVE  IInv'
  <2> DEFINE c == [b EXCEPT !.by = "api"]
             w == Witness(event_clock[n] + 1, b.msg.ltime)
  <2>1. b \in Call
    BY <1>0
  <2>2. c \in Call /\ b.msg.ltime \in Nat /\ c.msg = b.msg
    BY <2>1 DEF Call, Msg
  <2>3. /\ calls' = [calls EXCEPT ![n] = (@ \ {b}) \cup {c}]
        /\ event_clock' = [event_clock EXCEPT ![n] = w]
    BY <1>3, <1>0 DEF Increment, IInv, TypeOK
  <2>4. w \in Nat /\ event_clock[n] <= w /\ b.msg.ltime < w
    <3>1. event_clock[n] + 1 \in Nat \ {0}
      BY <1>0
    <3>2. w \in Nat /\ event_clock[n] + 1 <= w /\ b.msg.ltime < w
      BY <3>1, <2>2, WitnessAbove
    <3> HIDE DEF w
    <3> QED
      BY <3>2, <1>0
  <2>5. UNCHANGED <<min_time, buffer, event_join_ignore, sent, delivered, again, skipped, pulls>>
    BY <1>3 DEF Increment
  <2>6. PullsOK' /\ pulls' \subseteq Pull
    BY <2>5 DEF PullsOK, IInv, TypeOK
  <2>7. calls' \in [Node -> SUBSET Call]
    BY <2>2, <2>3, <1>0
  <2>8. \A k \in Node : \A d \in calls'[k] : d \in calls[k] \/ (k = n /\ d = c)
    BY <2>3, <1>0
  <2> HIDE DEF c, w
  <2>9. \A k \in Node : \A d \in calls'[k] :
           \/ d \in calls[k]
           \/ /\ k = n /\ d.msg.ltime <= w
              /\ d.by # "stamped" => d.msg.ltime < w
    BY <2>2, <2>4, <2>8
  <2> QED
    BY <2>3, <2>4, <2>5, <2>6, <2>7, <2>9, ClockIInv
<1> QED
  BY <1>1, <1>2, <1>3

\* The body under the lock keeps the invariant.
LEMMA FinishIInv ==
  ASSUME IInv, NEW n \in Node, NEW c \in calls[n], Finish(n, c)
  PROVE  IInv'
<1> DEFINE msg == c.msg
           i   == SlotOf(msg.ltime)
           s   == Remember(buffer[n][i], msg)
<1>0. TypeOK /\ c \in Call
  BY DEF IInv, TypeOK
<1>1. msg \in Msg /\ msg.ltime \in Nat /\ msg.event \in Event
  BY <1>0 DEF Call, Msg
<1>2. i \in Slot
  BY <1>1, SlotRange
<1>3. buffer[n][i] \in [ltime : Nat, events : SUBSET Event]
  BY <1>0, <1>2 DEF TypeOK
<1>4. s \in [ltime : Nat, events : SUBSET Event]
      /\ s.events = buffer[n][i].events \cup {msg.event}
      /\ s.ltime = (IF buffer[n][i].events = {} THEN msg.ltime ELSE buffer[n][i].ltime)
  BY <1>1, <1>3 DEF Remember
<1>5. /\ UNCHANGED <<event_clock, min_time, event_join_ignore, pulls>>
      /\ calls' = [calls EXCEPT ![n] = @ \ {c}]
      /\ sent' \subseteq Msg /\ c.by # "stamped"
  BY <1>0, <1>1 DEF Finish, TypeOK
<1>6. CallsBelowClock' /\ PullsOK'
  <2>1. PullsOK'
    BY <1>5 DEF IInv, PullsOK
  <2>2. \A k \in Node : calls'[k] \subseteq calls[k]
    BY <1>0, <1>5 DEF TypeOK
  <2> QED
    BY <2>1, <2>2, <1>5 DEF IInv, CallsBelowClock
<1>7. calls' \in [Node -> SUBSET Call]
  BY <1>0, <1>5 DEF TypeOK
<1>8. CASE Deliver(n, msg) /\ ~ IsSeen(n, msg)
  <2>1. msg \notin delivered[n]
    BY <1>8 DEF IInv, DeliveredStay, IsSeen
  <2>2. again' = again /\ skipped' = skipped
    BY <1>8, <2>1 DEF Deliver
  <2>3. delivered' = [delivered EXCEPT ![n] = @ \cup {msg}]
    BY <1>8 DEF Deliver
  <2>4. buffer' = [buffer EXCEPT ![n][i] = s]
    BY <1>8, <1>0, <1>2 DEF Deliver, TypeOK
  <2>5. buffer' \in [Node -> [Slot -> [ltime : Nat, events : SUBSET Event]]]
        /\ \A k \in Node, j \in Slot :
             buffer'[k][j] = IF k = n /\ j = i THEN s ELSE buffer[k][j]
    <3> HIDE DEF i, s
    <3> QED
      BY <2>4, <1>0, <1>2, <1>4 DEF TypeOK
  <2>6. delivered' \in [Node -> SUBSET Msg]
    BY <2>3, <1>0, <1>1 DEF TypeOK
  <2>7. TypeOK'
    BY <2>2, <2>5, <2>6, <1>0, <1>5, <1>7 DEF TypeOK
  <2>8. NoDoubleDelivery'
    BY <2>2 DEF IInv, NoDoubleDelivery
  <2>9. BufferBelowClock'
    <3> SUFFICES ASSUME NEW k \in Node, NEW j \in Slot, buffer'[k][j].events # {}
                 PROVE  buffer'[k][j].ltime < event_clock[k]
      BY <1>5 DEF BufferBelowClock
    <3>1. CASE k = n /\ j = i
      <4>1. msg.ltime < event_clock[n]
        BY <1>5 DEF IInv, CallsBelowClock
      <4>2. buffer[n][i].events # {} => buffer[n][i].ltime < event_clock[n]
        BY <1>2 DEF IInv, BufferBelowClock
      <4>3. buffer'[k][j] = s
        BY <2>5, <3>1
      <4> HIDE DEF i, s, msg
      <4> QED
        BY <4>1, <4>2, <4>3, <3>1, <1>4
    <3>2. CASE ~ (k = n /\ j = i)
      BY <3>2, <2>5 DEF IInv, BufferBelowClock
    <3> QED
      BY <3>1, <3>2
  <2>10. DeliveredStay'
    <3> SUFFICES ASSUME NEW k \in Node, NEW d \in delivered'[k]
                 PROVE  d.event \in buffer'[k][SlotOf(d.ltime)].events
      BY DEF DeliveredStay
    <3>1. d \in Msg
      BY <2>6
    <3>2. SlotOf(d.ltime) \in Slot
      BY <3>1, SlotRange DEF Msg
    <3>3. buffer[k][SlotOf(d.ltime)].events \subseteq buffer'[k][SlotOf(d.ltime)].events
      <4> HIDE DEF i, s, msg
      <4> QED
        BY <3>2, <2>5, <1>4
    <3>4. CASE d \in delivered[k]
      BY <3>3, <3>4 DEF IInv, DeliveredStay
    <3>5. CASE d \notin delivered[k]
      <4>1. k = n /\ d = msg
        BY <3>5, <2>3, <1>0 DEF TypeOK
      <4>2. buffer'[k][SlotOf(d.ltime)] = s
        BY <4>1, <2>5, <1>2
      <4> HIDE DEF s, msg
      <4> QED
        BY <4>1, <4>2, <1>4
    <3> QED
      BY <3>4, <3>5
  <2> QED
    BY <2>7, <2>8, <2>9, <2>10, <1>6 DEF IInv
<1>9. CASE UNCHANGED <<buffer, delivered, again>> /\ skipped' \in [Node -> SUBSET Msg]
  <2>1. TypeOK'
    BY <1>9, <1>0, <1>5, <1>7 DEF TypeOK
  <2>2. NoDoubleDelivery' /\ BufferBelowClock' /\ DeliveredStay'
    BY <1>9, <1>5 DEF IInv, NoDoubleDelivery, BufferBelowClock, DeliveredStay
  <2> QED
    BY <2>1, <2>2, <1>6 DEF IInv
<1>10. \/ Deliver(n, msg) /\ ~ IsSeen(n, msg)
       \/ UNCHANGED <<buffer, delivered, again>> /\ skipped' \in [Node -> SUBSET Msg]
  <2>1. CASE Deliver(n, msg) /\ ~ IsSeen(n, msg)
    BY <2>1
  <2>2. CASE /\ UNCHANGED <<buffer, delivered, again>>
             /\ \/ skipped' = skipped
                \/ skipped' = [skipped EXCEPT ![n] = @ \cup {msg}]
    <3>1. skipped \in [Node -> SUBSET Msg] /\ skipped[n] \cup {msg} \in SUBSET Msg
      BY <1>0, <1>1 DEF TypeOK
    <3> HIDE DEF msg
    <3>2. skipped' \in [Node -> SUBSET Msg]
      BY <2>2, <3>1
    <3> QED
      BY <2>2, <3>2
  <2>3. \/ Deliver(n, msg) /\ ~ IsSeen(n, msg)
        \/ /\ UNCHANGED <<buffer, delivered, again>>
           /\ \/ skipped' = skipped
              \/ skipped' = [skipped EXCEPT ![n] = @ \cup {msg}]
    BY DEF Finish
  <2> QED
    BY <2>1, <2>2, <2>3
<1> QED
  BY <1>8, <1>9, <1>10

\* A step that leaves everything but the exchanges, the minimum times and the flags of
\* the joins alone keeps the invariant if the exchanges stay in order.
LEMMA PullIInv ==
  ASSUME IInv, UNCHANGED <<event_clock, buffer, calls, sent, delivered, again, skipped>>,
         min_time' \in [Node -> Nat], event_join_ignore' \in [Node -> BOOLEAN],
         pulls' \subseteq Pull, PullsOK'
  PROVE  IInv'
<1>1. TypeOK'
  BY DEF IInv, TypeOK
<1> QED
  BY <1>1 DEF IInv, NoDoubleDelivery, BufferBelowClock, DeliveredStay, CallsBelowClock

\* The answer to a push/pull carries a clock above every event in it.
LEMMA LocalStateIInv ==
  ASSUME IInv, NEW from \in Node, NEW to \in Node, NEW join \in BOOLEAN, NEW own \in BOOLEAN,
         local_state(from, to, join, own)
  PROVE  IInv'
<1> DEFINE p == [to |-> to, event_ltime |-> event_clock[from], events |-> BufferedMsgs(from),
                 join |-> join, own |-> own, at |-> "sent"]
<1>0. TypeOK /\ BufferBelowClock /\ PullsOK
  BY DEF IInv
<1>1. \A msg \in BufferedMsgs(from) : msg \in Msg /\ msg.ltime < event_clock[from]
  BY <1>0, BufferedTyped
<1>2. p \in Pull
  BY <1>0, <1>1 DEF Pull, TypeOK
<1>3. /\ pulls' = pulls \cup {p}
      /\ UNCHANGED <<event_clock, min_time, buffer, event_join_ignore, calls, sent,
                     delivered, again, skipped>>
      /\ own => join /\ event_join_ignore[to]
  BY DEF local_state
<1>4. /\ \A msg \in p.events : msg.ltime < p.event_ltime
      /\ p.own => p.join /\ event_join_ignore[p.to]
      /\ p.at # "merging"
  BY <1>1, <1>3
<1> HIDE DEF p
<1>5. PullsOK'
  BY <1>0, <1>3, <1>4 DEF PullsOK
<1>6. pulls' \subseteq Pull /\ min_time' \in [Node -> Nat]
      /\ event_join_ignore' \in [Node -> BOOLEAN]
  BY <1>0, <1>2, <1>3 DEF TypeOK
<1> QED
  BY <1>3, <1>5, <1>6, PullIInv

\* merge_remote_state and the loss of an exchange keep the invariant.
LEMMA MergeIInv ==
  ASSUME IInv, NEW p \in pulls,
         \/ MergeClock(p) \/ MergeMinTime(p) \/ MergeEnd(p) \/ PullLost(p)
         \/ \E msg \in p.events : MergeEvent(p, msg)
  PROVE  IInv'
<1>0. TypeOK /\ PullsOK /\ p \in Pull /\ p.to \in Node /\ p.event_ltime \in Nat
      /\ p.events \subseteq Msg /\ p.own \in BOOLEAN
      /\ event_clock[p.to] \in Nat \ {0} /\ min_time[p.to] \in Nat
  BY DEF IInv, TypeOK, Pull
<1>1. CASE MergeClock(p)
  <2> DEFINE q == [p EXCEPT !.at = "witnessed"]
             w == IF p.event_ltime > 0 THEN Witness(event_clock[p.to], p.event_ltime - 1)
                                       ELSE event_clock[p.to]
  <2>1. q \in Pull /\ q.at # "merging" /\ q.to = p.to /\ q.event_ltime = p.event_ltime
        /\ q.events = p.events /\ q.own = p.own /\ q.join = p.join
    BY <1>0 DEF Pull
  <2>2. w \in Nat /\ event_clock[p.to] <= w
    <3>1. CASE p.event_ltime > 0
      <4>1. p.event_ltime - 1 \in Nat
        BY <1>0, <3>1
      <4>2. Witness(event_clock[p.to], p.event_ltime - 1) \in Nat \ {0}
            /\ event_clock[p.to] <= Witness(event_clock[p.to], p.event_ltime - 1)
        BY <1>0, <4>1, WitnessAbove
      <4> QED
        BY <3>1, <4>2
    <3>2. CASE ~ (p.event_ltime > 0)
      BY <1>0, <3>2
    <3> QED
      BY <3>1, <3>2
  <2>3. /\ event_clock' = [event_clock EXCEPT ![p.to] = w]
        /\ pulls' = (pulls \ {p}) \cup {q}
        /\ UNCHANGED <<min_time, buffer, event_join_ignore, calls, sent, delivered, again,
                       skipped>>
    BY <1>0, <1>1 DEF MergeClock, TypeOK
  <2> HIDE DEF q, w
  <2>4. PullsOK' /\ pulls' \subseteq Pull
    BY <1>0, <2>1, <2>3 DEF PullsOK, TypeOK
  <2>5. calls' \in [Node -> SUBSET Call] /\ \A k \in Node : \A c \in calls'[k] : c \in calls[k]
    BY <1>0, <2>3 DEF TypeOK
  <2> QED
    BY <1>0, <2>2, <2>3, <2>4, <2>5, ClockIInv
<1>2. CASE MergeMinTime(p)
  <2> DEFINE q == [p EXCEPT !.at = "merging"]
  <2>1. q \in Pull /\ q.to = p.to /\ q.event_ltime = p.event_ltime
        /\ q.events = p.events /\ q.own = p.own /\ q.join = p.join
    BY <1>0 DEF Pull
  <2>2. /\ pulls' = (pulls \ {p}) \cup {q}
        /\ UNCHANGED <<event_clock, buffer, event_join_ignore, calls, sent, delivered, again,
                       skipped>>
        /\ min_time' = IF p.join /\ event_join_ignore[p.to] /\ p.event_ltime > min_time[p.to]
                       THEN [min_time EXCEPT ![p.to] = p.event_ltime]
                       ELSE min_time
    BY <1>2 DEF MergeMinTime
  <2>3. min_time \in [Node -> Nat]
    BY <1>0 DEF TypeOK
  <2>4. /\ min_time' \in [Node -> Nat]
        /\ \A k \in Node : min_time[k] <= min_time'[k]
        /\ p.own => p.event_ltime <= min_time'[p.to]
    BY <1>0, <2>2, <2>3 DEF PullsOK
  <2> HIDE DEF q
  <2>5. pulls' \subseteq Pull
    BY <1>0, <2>1, <2>2 DEF TypeOK
  <2>6. PullsOK'
    <3> SUFFICES ASSUME NEW x \in pulls'
                 PROVE  /\ \A msg \in x.events : msg.ltime < x.event_ltime
                        /\ x.own => x.join /\ event_join_ignore[x.to]
                        /\ x.own /\ x.at = "merging" => x.event_ltime <= min_time'[x.to]
      BY <2>2 DEF PullsOK
    <3>1. CASE x = q
      BY <1>0, <2>1, <2>4, <3>1 DEF PullsOK
    <3>2. CASE x \in pulls
      <4>1. x.to \in Node /\ x.event_ltime \in Nat
        BY <1>0, <3>2 DEF TypeOK, Pull
      <4>2. min_time[x.to] \in Nat /\ min_time'[x.to] \in Nat
        BY <4>1, <2>3, <2>4
      <4> QED
        BY <1>0, <2>4, <3>2, <4>1, <4>2 DEF PullsOK
    <3> QED
      BY <2>2, <3>1, <3>2
  <2>7. event_join_ignore' \in [Node -> BOOLEAN]
    BY <1>0, <2>2 DEF TypeOK
  <2> QED
    BY <2>2, <2>4, <2>5, <2>6, <2>7, PullIInv
<1>3. CASE MergeEnd(p) \/ PullLost(p)
  <2>1. /\ pulls' \subseteq pulls
        /\ UNCHANGED <<event_clock, min_time, buffer, event_join_ignore, calls, sent,
                       delivered, again, skipped>>
    BY <1>3 DEF MergeEnd, PullLost
  <2>2. PullsOK'
    BY <1>0, <2>1 DEF PullsOK
  <2>3. pulls' \subseteq Pull /\ min_time' \in [Node -> Nat]
        /\ event_join_ignore' \in [Node -> BOOLEAN]
    BY <1>0, <2>1 DEF TypeOK
  <2> QED
    BY <2>1, <2>2, <2>3, PullIInv
<1>4. ASSUME NEW msg \in p.events, MergeEvent(p, msg)
      PROVE  IInv'
  <2> DEFINE q == [p EXCEPT !.events = @ \ {msg}]
             c == [msg |-> msg, by |-> "pull"]
             w == Witness(event_clock[p.to], msg.ltime)
  <2>1. q \in Pull /\ q.to = p.to /\ q.event_ltime = p.event_ltime
        /\ q.events \subseteq p.events /\ q.own = p.own /\ q.join = p.join /\ q.at = p.at
    BY <1>0 DEF Pull
  <2>2. c \in Call /\ msg.ltime \in Nat /\ c.msg = msg
    BY <1>0 DEF Call, Msg
  <2>3. w \in Nat /\ event_clock[p.to] <= w /\ msg.ltime < w
    BY <1>0, <2>2, WitnessAbove
  <2>4. /\ calls' = [calls EXCEPT ![p.to] = @ \cup {c}]
        /\ event_clock' = [event_clock EXCEPT ![p.to] = w]
        /\ pulls' = (pulls \ {p}) \cup {q}
        /\ UNCHANGED <<min_time, buffer, event_join_ignore, sent, delivered, again, skipped>>
    BY <1>4 DEF MergeEvent, Begin
  <2> HIDE DEF q, w
  <2>5. PullsOK' /\ pulls' \subseteq Pull
    BY <1>0, <2>1, <2>4 DEF PullsOK, TypeOK
  <2>6. calls' \in [Node -> SUBSET Call]
        /\ \A k \in Node : \A d \in calls'[k] : d \in calls[k] \/ (k = p.to /\ d = c)
    BY <1>0, <2>2, <2>4 DEF TypeOK
  <2> HIDE DEF c
  <2>7. \A k \in Node : \A d \in calls'[k] :
           \/ d \in calls[k]
           \/ /\ k = p.to /\ d.msg.ltime <= w
              /\ d.by # "stamped" => d.msg.ltime < w
    BY <2>2, <2>3, <2>6
  <2> QED
    BY <1>0, <2>3, <2>4, <2>5, <2>6, <2>7, ClockIInv
<1> QED
  BY <1>1, <1>2, <1>3, <1>4

\* The flag of a join keeps the invariant: it is not lowered under the join's exchange.
LEMMA JoinIInv ==
  ASSUME IInv, NEW n \in Node, JoinBegin(n) \/ JoinEnd(n)
  PROVE  IInv'
<1>0. TypeOK /\ PullsOK
  BY DEF IInv
<1>1. UNCHANGED <<event_clock, min_time, buffer, calls, sent, pulls, delivered, again, skipped>>
  BY DEF JoinBegin, JoinEnd
<1>2. event_join_ignore' \in [Node -> BOOLEAN]
  BY <1>0 DEF JoinBegin, JoinEnd, TypeOK
<1>3. \A p \in pulls : p.own => event_join_ignore'[p.to]
  <2> SUFFICES ASSUME NEW p \in pulls, p.own
               PROVE  event_join_ignore'[p.to]
    OBVIOUS
  <2>1. p.to \in Node /\ event_join_ignore[p.to]
    BY <1>0 DEF TypeOK, Pull, PullsOK
  <2>2. CASE p.to = n
    BY <2>1, <2>2, <1>0 DEF JoinBegin, JoinEnd, TypeOK
  <2>3. CASE p.to # n
    BY <2>1, <2>3, <1>0 DEF JoinBegin, JoinEnd, TypeOK
  <2> QED
    BY <2>2, <2>3
<1>4. PullsOK'
  BY <1>0, <1>1, <1>3 DEF PullsOK
<1>5. min_time' \in [Node -> Nat] /\ pulls' \subseteq Pull
  BY <1>0, <1>1 DEF TypeOK
<1> QED
  BY <1>1, <1>2, <1>4, <1>5, PullIInv

-----------------------------------------------------------------------------
(* The theorems.                                                           *)

\* The invariant holds in every reachable state.
THEOREM EventsInvariant == Spec => []IInv
<1>1. ASSUME IInv, [Next]_vars
      PROVE  IInv'
  <2>1. CASE Next
    <3>1. ASSUME NEW n \in Node, NEW c \in calls[n], Increment(n, c) \/ Finish(n, c)
          PROVE  IInv'
      BY <1>1, <3>1, CallIInv, FinishIInv
    <3>2. ASSUME NEW n \in Node, \/ \E event \in Event : user_event(n, event)
                                 \/ \E msg \in sent : notify_message(n, msg)
          PROVE  IInv'
      BY <1>1, <3>2, CallIInv
    <3>3. ASSUME NEW n \in Ignoring, JoinBegin(n) \/ JoinEnd(n)
          PROVE  IInv'
      BY <1>1, <3>3, NodeAssumption, JoinIInv
    <3>4. ASSUME NEW from \in Node, NEW to \in Node, NEW join \in BOOLEAN, NEW own \in BOOLEAN,
                 local_state(from, to, join, own)
          PROVE  IInv'
      BY <1>1, <3>4, LocalStateIInv
    <3>5. ASSUME NEW p \in pulls,
                 \/ MergeClock(p) \/ MergeMinTime(p) \/ MergeEnd(p) \/ PullLost(p)
                 \/ \E msg \in p.events : MergeEvent(p, msg)
          PROVE  IInv'
      BY <1>1, <3>5, MergeIInv
    <3> QED
      BY <2>1, <3>1, <3>2, <3>3, <3>4, <3>5, Zenon DEF Next
  <2>2. CASE UNCHANGED vars
    BY <1>1, <2>2 DEF vars, IInv, TypeOK, NoDoubleDelivery, BufferBelowClock, DeliveredStay,
       CallsBelowClock, PullsOK
  <2> QED
    BY <1>1, <2>1, <2>2
<1> QED
  BY <1>1, InitIInv, PTL DEF Spec

\* Every variable keeps its type.
THEOREM EventsTypes == Spec => []TypeOK
<1>1. IInv => TypeOK
  BY DEF IInv
<1> QED
  BY <1>1, EventsInvariant, PTL

\* handle_user_event gives no application the same message twice.
THEOREM EventsOnce == Spec => []NoDoubleDelivery
<1>1. IInv => NoDoubleDelivery
  BY DEF IInv
<1> QED
  BY <1>1, EventsInvariant, PTL

\* The event clock of a node is above every time in its buffer.
THEOREM EventsBelowClock == Spec => []BufferBelowClock
<1>1. IInv => BufferBelowClock
  BY DEF IInv
<1> QED
  BY <1>1, EventsInvariant, PTL

\* A join that ignores old events handles none of the events it is answered with.
THEOREM EventsIgnored == Spec => []JoinIgnoresOld
<1>1. IInv => JoinIgnoresOld
  <2> SUFFICES ASSUME IInv, NEW p \in pulls, p.own, p.at = "merging", NEW msg \in p.events
               PROVE  msg.ltime < min_time[p.to]
    BY DEF JoinIgnoresOld
  <2>1. msg.ltime < p.event_ltime /\ p.event_ltime <= min_time[p.to]
    BY DEF IInv, PullsOK
  <2>2. msg.ltime \in Nat /\ p.event_ltime \in Nat /\ min_time[p.to] \in Nat
    BY DEF IInv, TypeOK, Pull, Msg
  <2> QED
    BY <2>1, <2>2
<1> QED
  BY <1>1, EventsInvariant, PTL

=============================================================================
