------------------------------ MODULE SerfNode ------------------------------
(***************************************************************************)
(* One Serf instance in an arbitrary cluster: the member table, the        *)
(* Lamport clock, the lifecycle (SerfState) and the tasks that use them    *)
(* concurrently.  The rest of the cluster is the environment: it may send  *)
(* any join or leave intent, and memberlist may find any node alive or     *)
(* dead.                                                                   *)
(*                                                                         *)
(* The intent handlers read `state` and raise the clock before they take   *)
(* the members lock.  A call is therefore two steps, Begin and Finish, and *)
(* a set of calls is in flight between them.  Everything under the lock    *)
(* is one step, the events sent while it is held included.                 *)
(***************************************************************************)
EXTENDS Members

CONSTANTS Local,        \* the id of this instance
          Subjects,     \* bound: the nodes that incoming and forced intents are about
          MaxLTime,     \* bound: Lamport times the cluster or the API put in a message
          MaxCalls      \* bound: intent handlers in flight at once

ASSUME LocalIsNode == Local \in Node /\ Subjects \subseteq Node
ASSUME BoundsAreNat == MaxLTime \in Nat /\ MaxCalls \in Nat

VARIABLES
  m,          \* the member table
  clock,      \* `clock`, the Lamport clock of membership messages
  state,      \* `state`
  ml,         \* the nodes memberlist holds alive (external)
  missed,     \* nodes whose last notify_join never reached the table
  running,    \* memberlist and the background tasks run
  calls,      \* intent handlers between their first step and the members lock
  refutes,    \* spawned broadcast_join tasks that have not started: their ltimes
  joining,    \* where join() is
  leaving,    \* where leave() is
  told        \* highest ltime this node broadcast for its own join and leave

vars == <<m, clock, state, ml, missed, running, calls, refutes, joining, leaving, told>>

SerfState == {"Alive", "Leaving", "Left", "Shutdown"}

Call == [ty : {"Join", "Leave"}, id : Node, ltime : Nat, prune : BOOLEAN,
         from : {"cluster", "force", "join", "refute", "leave"}, state : SerfState]

JoinPc  == {"idle", "contacting", "announcing"}
LeavePc == {"idle", "marked", "stamped", "handling", "handled", "broadcast", "propagating", "done"}

TypeOK ==
  /\ m \in MemberTable
  /\ clock \in Nat \ {0}
  /\ state \in SerfState
  /\ ml \subseteq Node /\ missed \subseteq Node
  /\ running \in BOOLEAN
  /\ calls \subseteq Call
  /\ refutes \subseteq Nat
  /\ joining \in JoinPc
  /\ leaving \in [pc : LeavePc, ltime : Nat]
  /\ told \in [join : Nat, leave : Nat]

\* new_in up to the store of the delegate: the clock is at least 1 (a restored one
\* is a MergeClock step away) and memberlist runs with the local node in it, but
\* the table is still empty.
Init ==
  /\ m = EmptyTable
  /\ clock = 1
  /\ state = "Alive"
  /\ ml = {Local} /\ missed = {Local}
  /\ running = TRUE
  /\ calls = {} /\ refutes = {}
  /\ joining = "idle"
  /\ leaving = [pc |-> "idle", ltime |-> 0]
  /\ told = [join |-> 0, leave |-> 0]

-----------------------------------------------------------------------------
(* The two steps of an intent handler.                                     *)

NewCall(ty, id, ltime, prune, from) ==
  [ty |-> ty, id |-> id, ltime |-> ltime, prune |-> prune, from |-> from, state |-> state]

\* Read the state, witness the time of the message, wait for the lock.
Begin(c) ==
  /\ calls' = calls \cup {c}
  /\ clock' = Witness(clock, c.ltime)

\* Mutant of Refutes: the local node takes a leave intent like any other.
RefutesNever(c) == FALSE

\* The local node answers a newer leave intent about itself with a join intent,
\* if it was alive when the handler read its state.
Refutes(c) ==
  /\ c.ty = "Leave"
  /\ c.id = Local /\ c.state = "Alive"
  /\ IsKnown(m[Local]) /\ c.ltime > m[Local].ltime

Handle(c) ==
  CASE c.ty = "Join" -> handle_node_join_intent(m[c.id], c.ltime)
    [] Refutes(c)    -> m[c.id]
    [] OTHER         -> handle_node_leave_intent(m[c.id], c.ltime, c.prune)

Highest(a, b) == IF a < b THEN b ELSE a

\* The body under the members lock, and what the caller does with it at once: a
\* join intent of this node is broadcast whatever the handler returned.
Finish(c) ==
  /\ calls' = calls \ {c}
  /\ m' = [m EXCEPT ![c.id] = Handle(c)]
  /\ refutes' = IF Refutes(c) THEN refutes \cup {clock} ELSE refutes
  /\ joining' = IF c.from = "join" THEN "idle" ELSE joining
  /\ leaving' = IF c.from = "leave" THEN [leaving EXCEPT !.pc = "handled"] ELSE leaving
  /\ told' = IF c.from \in {"join", "refute"}
             THEN [told EXCEPT !.join = Highest(@, c.ltime)]
             ELSE told
  /\ UNCHANGED <<clock, state, ml, missed, running>>

-----------------------------------------------------------------------------
(* Messages from the cluster: notify_message, merge_remote_state.          *)

ReceiveIntent(ty, id, ltime, prune) ==
  /\ running
  /\ Cardinality(calls) < MaxCalls
  /\ Begin(NewCall(ty, id, ltime, prune, "cluster"))
  /\ UNCHANGED <<m, state, ml, missed, running, refutes, joining, leaving, told>>

\* A push/pull exchange starts by witnessing the other clock minus one; its intents
\* follow as ReceiveIntent steps.
MergeClock(remote) ==
  /\ running
  /\ clock' = IF remote > 0 THEN Witness(clock, remote - 1) ELSE clock
  /\ UNCHANGED <<m, state, ml, missed, running, calls, refutes, joining, leaving, told>>

-----------------------------------------------------------------------------
(* Memberlist's event delegate: notify_join, notify_leave.                 *)

\* new_in reports the local node itself once the delegate is stored.
Start ==
  /\ Local \in missed
  /\ m' = [m EXCEPT ![Local] = handle_node_join(@)]
  /\ missed' = missed \ {Local}
  /\ UNCHANGED <<clock, state, ml, running, calls, refutes, joining, leaving, told>>

NotifyJoin(n) ==
  /\ running /\ n # Local /\ n \notin ml
  /\ ml' = ml \cup {n}
  /\ m' = [m EXCEPT ![n] = handle_node_join(@)]
  /\ missed' = missed \ {n}
  /\ UNCHANGED <<clock, state, running, calls, refutes, joining, leaving, told>>

\* The instance is not stored yet, or the tags of the node do not decode.
NotifyJoinLost(n) ==
  /\ running /\ n # Local /\ n \notin ml
  /\ ml' = ml \cup {n}
  /\ missed' = missed \cup {n}
  /\ UNCHANGED <<m, clock, state, running, calls, refutes, joining, leaving, told>>

NotifyLeave(n) ==
  /\ running /\ n # Local /\ n \in ml
  /\ ml' = ml \ {n}
  /\ m' = [m EXCEPT ![n] = handle_node_leave(@)]
  /\ UNCHANGED <<clock, state, missed, running, calls, refutes, joining, leaving, told>>

-----------------------------------------------------------------------------
(* Background tasks.                                                       *)

\* One tick of the reaper: any of the entries may have expired.
Reap(failed, left, stale) ==
  /\ running
  /\ m' = [n \in Node |-> reap(m[n], n \in failed, n \in left, n \in stale)]
  /\ UNCHANGED <<clock, state, ml, missed, running, calls, refutes, joining, leaving, told>>

\* Mutant of StartRefute: gives up when the instance is no longer alive.
StartRefuteIfAlive(ltime) ==
  /\ ltime \in refutes
  /\ state = "Alive"
  /\ Begin(NewCall("Join", Local, ltime, FALSE, "refute"))
  /\ refutes' = refutes \ {ltime}
  /\ UNCHANGED <<m, state, ml, missed, running, joining, leaving, told>>

\* A detached refutation starts; it does not look at the state again.
StartRefute(ltime) ==
  /\ ltime \in refutes
  /\ Begin(NewCall("Join", Local, ltime, FALSE, "refute"))
  /\ refutes' = refutes \ {ltime}
  /\ UNCHANGED <<m, state, ml, missed, running, joining, leaving, told>>

-----------------------------------------------------------------------------
(* The API: join, leave, remove_failed_node, shutdown.                     *)

JoinBegin ==
  /\ state = "Alive" /\ Local \notin missed
  /\ joining = "idle"
  /\ joining' = "contacting"
  /\ UNCHANGED <<m, clock, state, ml, missed, running, calls, refutes, leaving, told>>

JoinFailed ==
  /\ joining = "contacting"
  /\ joining' = "idle"
  /\ UNCHANGED <<m, clock, state, ml, missed, running, calls, refutes, leaving, told>>

\* memberlist.join returned: broadcast_join(clock.time()).
JoinContacted ==
  /\ joining = "contacting"
  /\ clock <= MaxLTime
  /\ joining' = "announcing"
  /\ Begin(NewCall("Join", Local, clock, FALSE, "join"))
  /\ UNCHANGED <<m, state, ml, missed, running, refutes, leaving, told>>

\* force_leave: the message carries the clock, which only the handler advances.
ForceLeave(id, prune) ==
  /\ Local \notin missed
  /\ clock <= MaxLTime
  /\ Cardinality(calls) < MaxCalls
  /\ Begin(NewCall("Leave", id, clock, prune, "force"))
  /\ UNCHANGED <<m, state, ml, missed, running, refutes, joining, leaving, told>>

LeaveBegin ==
  /\ state = "Alive" /\ Local \notin missed
  /\ state' = "Leaving"
  /\ leaving' = [leaving EXCEPT !.pc = "marked"]
  /\ UNCHANGED <<m, clock, ml, missed, running, calls, refutes, joining, told>>

\* The message takes the clock; another task may raise it before it is incremented,
LeaveStamp ==
  /\ leaving.pc = "marked"
  /\ leaving' = [pc |-> "stamped", ltime |-> clock]
  /\ UNCHANGED <<m, clock, state, ml, missed, running, calls, refutes, joining, told>>

\* and then the handler begins.
LeaveIntent ==
  /\ leaving.pc = "stamped"
  /\ leaving' = [leaving EXCEPT !.pc = "handling"]
  /\ clock' = Witness(clock + 1, leaving.ltime)
  /\ calls' = calls \cup {NewCall("Leave", Local, leaving.ltime, FALSE, "leave")}
  /\ UNCHANGED <<m, state, ml, missed, running, refutes, joining, told>>

\* Queue the leave message if another member is alive; the wait for it to be sent
\* ends, by notification or by timeout, without consequence.
LeaveBroadcast ==
  /\ leaving.pc = "handled"
  /\ leaving' = [leaving EXCEPT !.pc = "broadcast"]
  /\ told' = IF has_alive_members(m, Local) THEN [told EXCEPT !.leave = leaving.ltime] ELSE told
  /\ UNCHANGED <<m, clock, state, ml, missed, running, calls, refutes, joining>>

\* memberlist.leave marks the local node dead and reports it; it fails, with a
\* warning, once memberlist is down.
LeaveMemberlist ==
  /\ leaving.pc = "broadcast"
  /\ leaving' = [leaving EXCEPT !.pc = "propagating"]
  /\ IF running
     THEN ml' = ml \ {Local} /\ m' = [m EXCEPT ![Local] = handle_node_leave(@)]
     ELSE UNCHANGED <<ml, m>>
  /\ UNCHANGED <<clock, state, missed, running, calls, refutes, joining, told>>

\* Mutant of LeaveEnd: expects that nothing changed the state since leave() began.
LeaveEndIfLeaving ==
  /\ leaving.pc = "propagating"
  /\ state = "Leaving"
  /\ leaving' = [leaving EXCEPT !.pc = "done"]
  /\ state' = "Left"
  /\ UNCHANGED <<m, clock, ml, missed, running, calls, refutes, joining, told>>

LeaveEnd ==
  /\ leaving.pc = "propagating"
  /\ leaving' = [leaving EXCEPT !.pc = "done"]
  /\ state' = IF state = "Shutdown" THEN "Shutdown" ELSE "Left"
  /\ UNCHANGED <<m, clock, ml, missed, running, calls, refutes, joining, told>>

Shutdown ==
  /\ state # "Shutdown" /\ Local \notin missed
  /\ state' = "Shutdown"
  /\ UNCHANGED <<m, clock, ml, missed, running, calls, refutes, joining, leaving, told>>

\* memberlist.shutdown, then the shutdown channel closes and the tasks end.
ShutdownEnd ==
  /\ state = "Shutdown" /\ running
  /\ running' = FALSE
  /\ UNCHANGED <<m, clock, state, ml, missed, calls, refutes, joining, leaving, told>>

-----------------------------------------------------------------------------
Next ==
  \/ \E c \in calls : Finish(c)
  \/ \E id \in Subjects, ltime \in 0 .. MaxLTime : ReceiveIntent("Join", id, ltime, FALSE)
  \/ \E id \in Subjects, ltime \in 1 .. MaxLTime, prune \in BOOLEAN :
       ReceiveIntent("Leave", id, ltime, prune)
  \/ \E remote \in 0 .. MaxLTime : MergeClock(remote)
  \/ Start
  \/ \E n \in Node : NotifyJoin(n) \/ NotifyJoinLost(n) \/ NotifyLeave(n)
  \/ \E failed \in SUBSET {n \in Node : m[n].failed > 0},
        left \in SUBSET {n \in Node : m[n].left > 0},
        stale \in SUBSET {n \in Node : m[n].intent # NoIntent} : Reap(failed, left, stale)
  \/ \E ltime \in refutes : StartRefute(ltime)
  \/ JoinBegin \/ JoinFailed \/ JoinContacted
  \/ \E id \in Subjects, prune \in BOOLEAN : ForceLeave(id, prune)
  \/ LeaveBegin \/ LeaveStamp \/ LeaveIntent \/ LeaveBroadcast \/ LeaveMemberlist \/ LeaveEnd
  \/ Shutdown \/ ShutdownEnd

Spec == Init /\ [][Next]_vars

\* The runtime polls every task that can go on: the handlers waiting for the lock,
\* the spawned refutations and the body of leave().
Fairness ==
  /\ WF_vars(\E c \in calls : Finish(c))
  /\ WF_vars(\E ltime \in refutes : StartRefute(ltime))
  /\ WF_vars(LeaveStamp \/ LeaveIntent \/ LeaveBroadcast \/ LeaveMemberlist \/ LeaveEnd)

FairSpec == Spec /\ Fairness

-----------------------------------------------------------------------------
(* Safety.                                                                 *)

\* Whatever the interleaving of callbacks, intents, prunes and reaper ticks,
\* failed_members and left_members are exactly the failed and the left members.
ListsMatchStates == \A n \in Node : ListsMatch(m[n])

\* The reconnector computes states.len() - failed.len() - left.len() in usize: the
\* subtraction never underflows.
ReconnectArithmetic == Cardinality(FailedEntries(m)) + Cardinality(LeftEntries(m)) <= Cardinality(Known(m))

\* The membership events sent to the application, replayed in order, give the table:
\* no transition is silent and none is reported twice with another meaning.
EventsTellStatus == \A n \in Node : ViewMatches(m[n])

\* Every Lamport time the instance holds was witnessed before it was stored, so a
\* message stamped with the clock is newer than everything this node has accepted.
ClockAhead == /\ \A n \in Node : TimesBelow(m[n], clock)
              /\ \A c \in calls : c.ltime < clock

\* Serf and memberlist agree on who is up: a member is alive or leaving exactly while
\* memberlist holds it alive, unless it was erased or its join never arrived.  Hence
\* handle_node_leave never meets the status it logs as a bad state.
MemberlistAgreement ==
  \A n \in Known(m) \ missed : (n \in ml) <=> IsUp(m[n])

\* While the instance is alive its own entry is in `states`, which local_member()
\* unwraps: no prune and no reaper tick takes it away.
LocalMemberPresent == state = "Alive" /\ Local \notin missed => IsKnown(m[Local])

-----------------------------------------------------------------------------
(* What a step may never do.                                               *)

\* Intents alone never bring a failed or left member back: only memberlist does, by
\* finding the node alive again.
NoResurrection ==
  [][\A n \in Node : m[n].status \in {"Failed", "Left"} /\ IsUp(m'[n])
                       => n \in ml' \ ml]_vars

\* A member that is alive or leaving is only ever erased by a newer leave intent that
\* asks for the prune, never by the reaper.
EraseOnlyOnPrune ==
  [][\A n \in Node : IsUp(m[n]) /\ ~ IsKnown(m'[n])
                       => \E c \in calls \ calls' : c.prune /\ c.id = n /\ c.ltime > m[n].ltime]_vars

\* What is known of a member never gets older while the member stays in the table,
\* through failure, leave and rejoin, and the clock never goes back.
TimesNeverGoBack ==
  [][/\ clock' >= clock
     /\ \A n \in Node : IsKnown(m[n]) /\ IsKnown(m'[n]) => m'[n].ltime >= m[n].ltime]_vars

-----------------------------------------------------------------------------
(* Liveness.                                                               *)

\* leave() returns, whatever arrives meanwhile and even if shutdown() overtakes it.
LeaveReturns == leaving.pc = "marked" ~> (leaving.pc = "done" /\ state \in {"Left", "Shutdown"})

\* A refutation is always told to the cluster, with a time above every intent to leave
\* that this node had seen when it was spawned.
RefutationTold == \A t \in 0 .. MaxLTime + 4 : (t \in refutes) ~> (told.join >= t)
=============================================================================
