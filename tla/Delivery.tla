------------------------------ MODULE Delivery ------------------------------
(***************************************************************************)
(* The way of an event from a handler to the application, as new_in builds *)
(* it: the tee of the snapshotter, SerfQueries, the user event coalescer   *)
(* and the member event coalescer, each a task behind a bounded channel,   *)
(* and the channel of the subscriber.  All but SerfQueries are optional.   *)
(*                                                                         *)
(* A handler sends its event while it holds the members lock.  The timers  *)
(* of a coalescer are futures that select! takes out of their variables    *)
(* when it first polls them: a timer that was polled is gone when another  *)
(* branch wins.                                                            *)
(***************************************************************************)
EXTENDS Integers, Sequences, SequencesExt, FiniteSets

CONSTANTS Node,       \* the members that member events are about
          Name,       \* the names of user events
          Event,      \* bound: the events the handlers send
          Setups,     \* bound: whether there is a snapshot, which coalescers are on, and
                      \*        how many events the handlers send
          Cap         \* the capacity of a channel: 2048, 1024 and the subscriber's

MemberEventType == {"Join", "Leave", "Failed", "Update", "Reap"}

CrateEvent == [kind : {"member"}, ty : MemberEventType, nodes : SUBSET Node]
                \cup [kind : {"user"}, name : Name, ltime : Nat, cc : BOOLEAN]
                \cup [kind : {"query", "internal"}, ltime : Nat]

Coalescer == {"user", "member"}

ASSUME DeliveryEvents == Event \subseteq CrateEvent /\ Setups \subseteq BOOLEAN \X (SUBSET Coalescer) \X Nat
ASSUME DeliveryBounds == Cap \in Nat \ {0}
ASSUME DeliveryFinite == IsFiniteSet(Node) /\ IsFiniteSet(Name)

VARIABLES
  snapshotting,     \* snapshot_path is set, fixed
  coalescing,       \* the coalescers whose periods are not zero, fixed
  pending,          \* the event of the handler that holds the members lock
  chan,             \* the channels, by the task that receives
  hand,             \* what each task sends on before it receives again
  timers,           \* of each coalescer
  user_events,      \* UserEventCoalescer.events: of each name, the latest time and events
  latest_events,    \* MemberEventCoalescer: of each node the type to tell next,
  last_events,      \* and the type that was told
  shutdown,         \* shutdown_tx is closed
  stopping,         \* the tasks that have seen it
  ended,            \* the tasks that have returned
  sends,            \* history: the number of events the handlers may still send
  sent, got,        \* history: a summary of these, and of what the application received
  dropped           \* history: the tee found a channel full

vars == <<snapshotting, coalescing, pending, chan, hand, timers, user_events, latest_events, last_events,
          shutdown, stopping, ended, sends, sent, got, dropped>>

options == <<snapshotting, coalescing>>

Task      == Coalescer \cup {"queries"}
Channel   == Task \cup {"tee", "app"}
Timer     == {"quantum", "quiescent"}

\* Mutant of Down: SerfQueries always sends to the user event coalescer.
DownMiswired == [t \in Task |->
           IF t = "queries" THEN "user"
           ELSE IF t # "member" /\ "member" \in coalescing THEN "member" ELSE "app"]

\* The channel each task sends to.
Down == [t \in Task |->
           IF t = "queries" /\ "user" \in coalescing THEN "user"
           ELSE IF t # "member" /\ "member" \in coalescing THEN "member" ELSE "app"]

None == "None"

\* A plain event is one that no coalescer handles.  The handlers number the plain events
\* of a behaviour; of the others, the last type told of each node and the newest time of
\* each name are kept.
IsPlain(e) == e.kind = "query" \/ (e.kind = "user" /\ ~ e.cc)

Summary == [plain : Nat, member : [Node -> MemberEventType \cup {None}], user : [Name -> Nat]]

NoEvents == [plain |-> 0, member |-> [n \in Node |-> None], user |-> [n \in Name |-> 0]]

\* The summary after one more event.
With(s, e) ==
  CASE IsPlain(e)        -> [s EXCEPT !.plain = e.ltime]
    [] e.kind = "member" -> [s EXCEPT !.member = [n \in Node |-> IF n \in e.nodes THEN e.ty ELSE @[n]]]
    [] e.kind = "user" /\ e.cc -> [s EXCEPT !.user[e.name] = IF @ < e.ltime THEN e.ltime ELSE @]
    [] OTHER             -> s
NoUserEvents == [ltime |-> 0, events |-> <<>>]

TypeOK ==
  /\ snapshotting \in BOOLEAN
  /\ coalescing \in SUBSET Coalescer
  /\ pending \in Seq(CrateEvent) /\ Len(pending) <= 1
  /\ chan \in [Channel -> Seq(CrateEvent)] /\ \A c \in Channel : Len(chan[c]) <= Cap
  /\ hand \in [Task -> Seq(CrateEvent)]
  /\ timers \in [Coalescer -> [Timer -> {"none", "armed", "polled"}]]
  /\ user_events \in [Name -> [ltime : Nat, events : Seq(CrateEvent)]]
  /\ latest_events \in [Node -> MemberEventType \cup {None}]
  /\ last_events \in [Node -> MemberEventType \cup {None}]
  /\ shutdown \in BOOLEAN /\ stopping \subseteq Task /\ ended \subseteq Task \cup {"tee"}
  /\ sends \in Nat /\ sent \in Summary /\ got \in Summary /\ dropped \in BOOLEAN

NoTimers == [t \in Timer |-> "none"]

Init ==
  /\ \E o \in Setups : snapshotting = o[1] /\ coalescing = o[2] /\ sends = o[3]
  /\ pending = <<>>
  /\ chan = [c \in Channel |-> <<>>] /\ hand = [t \in Task |-> <<>>]
  /\ timers = [c \in Coalescer |-> NoTimers]
  /\ user_events = [n \in Name |-> NoUserEvents]
  /\ latest_events = [n \in Node |-> None] /\ last_events = [n \in Node |-> None]
  /\ shutdown = FALSE /\ stopping = {} /\ ended = {}
  /\ sent = NoEvents /\ got = NoEvents /\ dropped = FALSE

coalescers == <<timers, user_events, latest_events, last_events>>
lifetime   == <<shutdown, stopping, ended>>

-----------------------------------------------------------------------------
(* The handlers and the tee.                                               *)

\* A handler takes the lock, makes its change and has an event to send.
Handle(e) ==
  /\ pending = <<>> /\ sends > 0
  /\ LET f == IF IsPlain(e) THEN [e EXCEPT !.ltime = sent.plain + 1] ELSE e IN
       /\ pending' = <<f>>
       /\ sent' = With(sent, f)
  /\ sends' = sends - 1
  /\ UNCHANGED <<options, chan, hand, coalescers, lifetime, got, dropped>>

HasRoom(c) == Len(chan[c]) < Cap

First == IF snapshotting THEN "tee" ELSE "queries"

\* Mutant of Enter: the channel is not bounded.
EnterUnbounded ==
  /\ pending # <<>>
  /\ \/ /\ First \notin ended
        /\ chan' = [chan EXCEPT ![First] = Append(@, Head(pending))]
     \/ First \in ended /\ UNCHANGED chan
  /\ pending' = <<>>
  /\ UNCHANGED <<options, hand, coalescers, lifetime, sends, sent, got, dropped>>

\* event_tx.send(..).await, then the lock is released.  The send fails, with a log
\* line, once the receiver is gone.
Enter ==
  /\ pending # <<>>
  /\ \/ /\ First \notin ended /\ HasRoom(First)
        /\ chan' = [chan EXCEPT ![First] = Append(@, Head(pending))]
     \/ First \in ended /\ UNCHANGED chan
  /\ pending' = <<>>
  /\ UNCHANGED <<options, hand, coalescers, lifetime, sends, sent, got, dropped>>

\* tee_stream_flush_event!: neither send waits for room.  (What the recorder misses is
\* the concern of Snapshot.tla, where any event may come or not.)
Tee ==
  /\ chan["tee"] # <<>>
  /\ LET room == "queries" \notin ended /\ HasRoom("queries") IN
       /\ chan' = [chan EXCEPT !["tee"] = Tail(@),
                               !["queries"] = IF room THEN Append(@, Head(chan["tee"])) ELSE @]
       /\ dropped' = (dropped \/ ~ room)
  /\ UNCHANGED <<options, pending, hand, coalescers, lifetime, sends, sent, got>>

-----------------------------------------------------------------------------
(* SerfQueries::stream, and the sends of all tasks.                        *)

Ready(t) == t \in coalescing \cup {"queries"} /\ t \notin ended /\ hand[t] = <<>>

\* Mutant of Queries: the task returns after an internal query.
QueriesReturns ==
  /\ Ready("queries") /\ chan["queries"] # <<>>
  /\ LET e == Head(chan["queries"]) IN
       IF e.kind = "internal"
       THEN /\ chan' = [chan EXCEPT !["queries"] = <<>>]
            /\ ended' = ended \cup {"queries"}
            /\ UNCHANGED hand
       ELSE /\ chan' = [chan EXCEPT !["queries"] = Tail(@)]
            /\ hand' = [hand EXCEPT !["queries"] = <<e>>]
            /\ UNCHANGED ended
  /\ UNCHANGED <<options, pending, coalescers, shutdown, stopping, sends, sent, got, dropped>>

\* Internal queries are answered by a task of their own and go no further.
Queries ==
  /\ Ready("queries") /\ chan["queries"] # <<>>
  /\ chan' = [chan EXCEPT !["queries"] = Tail(@)]
  /\ hand' = [hand EXCEPT !["queries"] = IF Head(chan["queries"]).kind = "internal"
                                         THEN <<>> ELSE <<Head(chan["queries"])>>]
  /\ UNCHANGED <<options, pending, coalescers, lifetime, sends, sent, got, dropped>>

\* A task sends its next event, waiting for room; it gives up when the next task is gone.
Forward(t) ==
  /\ t \notin ended /\ hand[t] # <<>>
  /\ \/ /\ Down[t] \notin ended /\ HasRoom(Down[t])
        /\ chan' = [chan EXCEPT ![Down[t]] = Append(@, Head(hand[t]))]
        /\ hand' = [hand EXCEPT ![t] = Tail(@)]
        /\ UNCHANGED ended
     \/ /\ Down[t] \in ended
        /\ hand' = [hand EXCEPT ![t] = <<>>]
        /\ ended' = IF t \in Coalescer THEN ended \cup {t} ELSE ended
        /\ UNCHANGED chan
  /\ UNCHANGED <<options, pending, coalescers, shutdown, stopping, sends, sent, got, dropped>>

-----------------------------------------------------------------------------
(* coalesce_loop, for the two coalescers.                                  *)

handle(c, e) ==
  IF c = "user" THEN e.kind = "user" /\ e.cc ELSE e.kind = "member"

\* Mutant of CoalesceUser: the first event of a period stays.
CoalesceUserFirst(u, e) ==
  IF u.events = <<>> THEN [ltime |-> e.ltime, events |-> <<e>>]
  ELSE IF u.ltime = e.ltime THEN [u EXCEPT !.events = Append(@, e)]
  ELSE u

\* UserEventCoalescer::coalesce on the entry of the name of e.
CoalesceUser(u, e) ==
  IF u.events = <<>> \/ u.ltime < e.ltime THEN [ltime |-> e.ltime, events |-> <<e>>]
  ELSE IF u.ltime = e.ltime THEN [u EXCEPT !.events = Append(@, e)]
  ELSE u

\* Mutant of coalesce: of a member, the first type of a period stays.
CoalesceFirst(c, e) ==
  IF c = "user"
  THEN /\ user_events' = [user_events EXCEPT ![e.name] = CoalesceUser(@, e)]
       /\ UNCHANGED latest_events
  ELSE /\ latest_events' = [n \in Node |-> IF n \in e.nodes /\ latest_events[n] = None
                                          THEN e.ty ELSE latest_events[n]]
       /\ UNCHANGED user_events

coalesce(c, e) ==
  IF c = "user"
  THEN /\ user_events' = [user_events EXCEPT ![e.name] = CoalesceUser(@, e)]
       /\ UNCHANGED latest_events
  ELSE /\ latest_events' = [n \in Node |-> IF n \in e.nodes THEN e.ty ELSE latest_events[n]]
       /\ UNCHANGED user_events

\* The timers that select! has polled are lost with the branches that did not win.
Unpolled(c) == [t \in Timer |-> IF timers[c][t] = "polled" THEN "none" ELSE timers[c][t]]

\* Mutant of Receive: an event that the coalescer does not handle is not sent on.
ReceiveDrops(c) ==
  /\ Ready(c) /\ chan[c] # <<>>
  /\ chan' = [chan EXCEPT ![c] = Tail(@)]
  /\ hand' = hand
  /\ IF handle(c, Head(chan[c]))
     THEN /\ timers' = [timers EXCEPT ![c] = [t \in Timer |-> "armed"]]
          /\ coalesce(c, Head(chan[c]))
     ELSE UNCHANGED <<timers, user_events, latest_events>>
  /\ UNCHANGED <<options, pending, last_events, lifetime, sends, sent, got, dropped>>

\* The branch of in_rx.  Both timers run after a handled event: the quiescent one is
\* new, the quantum is new unless it was left alone.
Receive(c) ==
  /\ Ready(c) /\ chan[c] # <<>>
  /\ LET e == Head(chan[c]) IN
       /\ chan' = [chan EXCEPT ![c] = Tail(@)]
       /\ IF handle(c, e)
          THEN /\ timers' = [timers EXCEPT ![c] = [t \in Timer |-> "armed"]]
               /\ coalesce(c, e)
               /\ UNCHANGED hand
          ELSE /\ timers' = [timers EXCEPT ![c] = Unpolled(c)]
               /\ hand' = [hand EXCEPT ![c] = <<e>>]
               /\ UNCHANGED <<user_events, latest_events>>
  /\ UNCHANGED <<options, pending, last_events, lifetime, sends, sent, got, dropped>>

\* select! polls a timer for the first time: quantum.take(), quiescent.take().  After
\* the shutdown its branch is always ready, the loop never sleeps, and a timer that is
\* polled is lost at once (no period is as short as a turn of the loop).
Poll(c, t) ==
  /\ Ready(c) /\ timers[c][t] = "armed"
  /\ timers' = [timers EXCEPT ![c][t] = IF c \in stopping THEN "none" ELSE "polled"]
  /\ UNCHANGED <<options, pending, chan, hand, user_events, latest_events, last_events, lifetime, sends, sent, got, dropped>>

\* The nodes whose latest event the flush of the member coalescer tells.
Told(n) ==
  /\ latest_events[n] # None
  /\ latest_events[n] # last_events[n] \/ latest_events[n] = "Update"

\* One event for each type, in the order of a hash map.
MemberFlushes ==
  LET types == {latest_events[n] : n \in {m \in Node : Told(m)}}
      event(ty) == [kind |-> "member", ty |-> ty,
                    nodes |-> {n \in Node : Told(n) /\ latest_events[n] = ty}]
  IN  {[i \in DOMAIN order |-> event(order[i])] : order \in SetToSeqs(types)}

\* The events of all names, those of a name together and in their order, in the order in
\* which the names came (any here).
UserFlushes ==
  LET items == UNION {{n} \X DOMAIN user_events[n].events : n \in Name}
      together(order) == \A i, j \in DOMAIN order :
        i < j /\ order[i][1] = order[j][1] => order[j][2] = order[i][2] + (j - i)
  IN  {[i \in DOMAIN order |-> user_events[order[i][1]].events[order[i][2]]] :
         order \in {o \in SetToSeqs(items) : together(o)}}

FlushMember ==
  /\ \E out \in MemberFlushes : hand' = [hand EXCEPT !["member"] = out]
  /\ last_events' = [n \in Node |-> IF Told(n) THEN latest_events[n] ELSE last_events[n]]
  /\ latest_events' = [n \in Node |-> None]
  /\ UNCHANGED user_events

FlushUser ==
  /\ \E out \in UserFlushes : hand' = [hand EXCEPT !["user"] = out]
  /\ user_events' = [n \in Name |-> NoUserEvents]
  /\ UNCHANGED <<latest_events, last_events>>

\* A polled timer ends: flush, and forget both timers.
Fire(c, t) ==
  /\ Ready(c) /\ timers[c][t] = "polled"
  /\ IF c = "user" THEN FlushUser ELSE FlushMember
  /\ timers' = [timers EXCEPT ![c] = NoTimers]
  /\ UNCHANGED <<options, pending, chan, lifetime, sends, sent, got, dropped>>

-----------------------------------------------------------------------------
(* The application and the shutdown.                                       *)

AppReceive ==
  /\ chan["app"] # <<>>
  /\ chan' = [chan EXCEPT !["app"] = Tail(@)]
  /\ got' = With(got, Head(chan["app"]))
  /\ UNCHANGED <<options, pending, hand, coalescers, lifetime, sends, sent, dropped>>

Shutdown ==
  /\ ~ shutdown
  /\ shutdown' = TRUE
  /\ UNCHANGED <<options, pending, chan, hand, coalescers, stopping, ended, sends, sent, got, dropped>>

\* SerfQueries returns; a coalescer only notes it, and goes on until its channel closes.
SeeShutdown(t) ==
  /\ shutdown /\ t \notin stopping /\ Ready(t)
  /\ stopping' = stopping \cup {t}
  /\ IF t = "queries"
     THEN /\ ended' = ended \cup {t}
          /\ chan' = [chan EXCEPT ![t] = <<>>]
          /\ UNCHANGED timers
     ELSE timers' = [timers EXCEPT ![t] = Unpolled(t)] /\ UNCHANGED <<ended, chan>>
  /\ UNCHANGED <<options, pending, hand, user_events, latest_events, last_events,
                 shutdown, sends, sent, got, dropped>>

\* The tee empties its channel and returns.
TeeEnds ==
  /\ shutdown /\ snapshotting /\ "tee" \notin ended /\ chan["tee"] = <<>>
  /\ ended' = ended \cup {"tee"}
  /\ UNCHANGED <<options, pending, chan, hand, coalescers, shutdown, stopping, sends, sent, got, dropped>>

\* The sender of its channel is gone: the loop returns, and what it held with it.
CoalescerEnds(c) ==
  /\ Ready(c) /\ chan[c] = <<>>
  /\ \E t \in ended \cap Task : Down[t] = c
  /\ ended' = ended \cup {c}
  /\ UNCHANGED <<options, pending, chan, hand, coalescers, shutdown, stopping, sends, sent, got, dropped>>

-----------------------------------------------------------------------------
Next ==
  \/ \E e \in Event : Handle(e)
  \/ Enter \/ Tee \/ Queries
  \/ \E t \in Task : Forward(t) \/ SeeShutdown(t)
  \/ \E c \in Coalescer : Receive(c) \/ CoalescerEnds(c)
  \/ \E c \in Coalescer, t \in Timer : Poll(c, t) \/ Fire(c, t)
  \/ AppReceive \/ Shutdown \/ TeeEnds

Spec == Init /\ [][Next]_vars

\* The runtime polls every task that is ready, timers end, and the application receives
\* what is there.
Fairness ==
  /\ WF_vars(Enter) /\ WF_vars(Tee) /\ WF_vars(Queries)
  /\ \A t \in Task : WF_vars(Forward(t)) /\ WF_vars(SeeShutdown(t))
  /\ \A c \in Coalescer : WF_vars(Receive(c)) /\ WF_vars(CoalescerEnds(c))
  /\ \A c \in Coalescer, t \in Timer : WF_vars(Poll(c, t)) /\ WF_vars(Fire(c, t))
  /\ WF_vars(AppReceive)

FairSpec == Spec /\ Fairness

-----------------------------------------------------------------------------
(* Safety.                                                                 *)

\* The queues on the way to the application, those of the oldest events first, with what a
\* coalescer holds in the place where it would flush it.
Flight(heldMember, heldUser) ==
  <<chan["app"], hand["member"], heldMember, chan["member"], hand["user"], heldUser,
    chan["user"], hand["queries"], chan["queries"], chan["tee"], pending>>

\* A place in these queues, the event there, and the places that are nearer to the application.
Place(f)     == UNION {{q} \X DOMAIN f[q] : q \in DOMAIN f}
At(f, p)     == f[p[1]][p[2]]
Before(p, r) == p[1] < r[1] \/ (p[1] = r[1] /\ p[2] < r[2])

\* The places of the events of a set.
Places(f, events) == {p \in Place(f) : At(f, p) \in events}

Intact == ~ dropped /\ ~ shutdown

\* An application that has received `known` plain events has `latest` when all these have
\* arrived: they are the ones in between, in order.
Plain == {e \in CrateEvent : IsPlain(e)}

InOrder(f, known, latest) ==
  /\ {At(f, p).ltime : p \in Places(f, Plain)} = known + 1 .. latest
  /\ \A p, r \in Places(f, Plain) : Before(p, r) => At(f, p).ltime < At(f, r).ltime

\* Queries and user events that are not coalesced reach the application in the order in
\* which the handlers sent them, and none is lost or doubled, however the coalescers
\* hold back the events around them: those on their way are the ones sent and not
\* received, in order.
PlainInOrder == Intact => InOrder(Flight(<<>>, <<>>), got.plain, sent.plain)

\* What happened to a member.
About(n) == [kind : {"member"}, ty : MemberEventType, nodes : {ns \in SUBSET Node : n \in ns}]

\* An application that was told `known` of a member knows `ty` when all these events have
\* arrived: the last of them says so.
EndsWith(f, n, known, ty) ==
  LET news == Places(f, About(n))
  IN  \/ news = {} /\ known = ty
      \/ \E p \in news : At(f, p).ty = ty /\ \A r \in news : ~ Before(p, r)

HeldOf(n) == IF latest_events[n] = None THEN <<>>
             ELSE <<[kind |-> "member", ty |-> latest_events[n], nodes |-> {n}]>>

\* The last thing the application hears of a member is the last thing that happened to
\* it: a member coalescer may leave out what came in between, or an event that repeats
\* the last one it told, but never the news.
MemberNewsArrives ==
  Intact => \A n \in Node : EndsWith(Flight(HeldOf(n), <<>>), n, got.member[n], sent.member[n])

\* The user events of a name that may be coalesced.
Named(n) == [kind : {"user"}, name : {n}, ltime : Nat, cc : {TRUE}]

\* The newest time of a name that the application knows or will be told.
NewestIs(f, n, known, newest) ==
  LET times == {known} \cup {At(f, p).ltime : p \in Places(f, Named(n))}
  IN  newest \in times /\ \A t \in times : t <= newest

\* The newest of the coalesced user events of a name is never the one left out.
NewestEventArrives ==
  Intact => \A n \in Name : NewestIs(Flight(<<>>, user_events[n].events), n, got.user[n], sent.user[n])

-----------------------------------------------------------------------------
(* Liveness.                                                               *)

\* A handler that waits for room, with the members lock in its hands, gets on as long as
\* the application receives: a bounded subscriber slows the node down and never stops it,
\* in operation and during a shutdown.
HandlerGetsOn == pending # <<>> ~> pending = <<>>

\* A query or a plain user event is never held back for good by the coalescers it has to
\* pass, whatever they wait for.
PlainArrives == (got.plain < sent.plain) ~> (got.plain = sent.plain \/ ~ Intact)

-----------------------------------------------------------------------------
(* Disagreements between comments and the code.                            *)

\* "manages the high-level flow of coalescing based on quiescence and a maximum quantum
\* period": what a coalescer holds is flushed once nothing more arrives.
CoalescedIsFlushed ==
  \A n \in Node : latest_events[n] # None ~> (latest_events[n] = None \/ shutdown)
=============================================================================
