------------------------------ MODULE Cluster ------------------------------
(***************************************************************************)
(* Several Serf instances and what each of them knows of one member, the   *)
(* subject, which is itself an instance: it leaves, crashes, restarts with *)
(* or without a snapshot and joins again.  The instances share the row     *)
(* operators of Members.tla.                                               *)
(*                                                                         *)
(* Broadcast intents may be lost, repeated, delayed and reordered without  *)
(* bound: once told they may reach any instance at any later time, or      *)
(* never.  What is certain is the periodic push/pull of memberlist         *)
(* (local_state at one side, merge_remote_state at the other) and, in the  *)
(* end, its verdict on whether the subject runs.  The handlers are single  *)
(* steps here; SerfNode.tla has their interleavings.  The reaper is left   *)
(* out: it works on a scale of hours.                                      *)
(***************************************************************************)
EXTENDS Members

CONSTANTS Subject,      \* the member that everything is about
          MaxLTime,     \* bound: times put in messages
          MaxStarts     \* bound: restarts of the subject

Observer == Node \ {Subject}

ASSUME SubjectIsNode == Subject \in Node
ASSUME ClusterBounds == MaxLTime \in Nat /\ MaxStarts \in Nat

VARIABLES
  row,        \* what each instance knows of the subject
  clock,      \* the Lamport clock of each instance
  up,         \* the instances whose memberlist holds the subject alive (external)
  life,       \* of the subject
  refutes,    \* its spawned broadcast_join tasks: their times
  msgs,       \* the intents that were broadcast
  starts,     \* history: restarts
  leaves      \* history: who asked for a leave of the subject

vars == <<row, clock, up, life, refutes, msgs, starts, leaves>>

\* A started instance has met nobody; join() first exchanges states with another
\* instance ("contacted") and then tells the cluster; "leaving" is between the leave
\* message and the end of leave(); "left" and "down" are a process that is gone.
Life    == {"started", "contacted", "joined", "leaving", "left", "down"}
Message == [ty : {"Join", "Leave"}, ltime : Nat]

InTouch(n) == n # Subject \/ life \in {"contacted", "joined", "leaving"}

TypeOK ==
  /\ row \in [Node -> Row]
  /\ clock \in [Node -> Nat \ {0}]
  /\ up \subseteq Observer
  /\ life \in Life
  /\ refutes \subseteq Nat
  /\ msgs \subseteq Message
  /\ starts \in Nat /\ leaves \subseteq {"leave", "force"}

\* A cluster that has met.
Init ==
  /\ row = [n \in Node |-> handle_node_join(NoRow)]
  /\ clock = [n \in Node |-> 1]
  /\ up = Observer
  /\ life = "joined" /\ refutes = {}
  /\ msgs = {} /\ starts = 0 /\ leaves = {}

-----------------------------------------------------------------------------
(* The handlers of one instance.                                           *)

\* The subject refutes a newer leave intent about itself while it is alive.
Refutes(n, r, ltime) ==
  n = Subject /\ life \in {"contacted", "joined"} /\ IsKnown(r) /\ ltime > r.ltime

\* The row and the clock of n after an intent.
Handled(n, msg) ==
  IF msg.ty = "Join" THEN handle_node_join_intent(row[n], msg.ltime)
  ELSE IF Refutes(n, row[n], msg.ltime) THEN row[n]
  ELSE handle_node_leave_intent(row[n], msg.ltime, FALSE)

\* One intent arrives at n, whose clock was raised to c before.
Handle(n, msg, c) ==
  /\ row' = [row EXCEPT ![n] = Handled(n, msg)]
  /\ clock' = [clock EXCEPT ![n] = Witness(c, msg.ltime)]
  /\ refutes' = IF msg.ty = "Leave" /\ Refutes(n, row[n], msg.ltime)
                THEN refutes \cup {Witness(c, msg.ltime)} ELSE refutes

\* notify_message
Deliver(n, msg) ==
  /\ InTouch(n) /\ msg \in msgs
  /\ Handle(n, msg, clock[n])
  /\ UNCHANGED <<up, life, msgs, starts, leaves>>

\* Mutant of MergedIntent: a failed member goes on the wire like one that left.
MergedIntentFailed(k) ==
  IF row[k].left + row[k].failed > 0
  THEN [ty |-> "Leave", ltime |-> row[k].ltime + 1]
  ELSE [ty |-> "Join", ltime |-> row[k].ltime]

\* Mutant of MergedIntent: the leave goes with the time of the status.
MergedIntentSameTime(k) ==
  IF row[k].left > 0
  THEN [ty |-> "Leave", ltime |-> row[k].ltime]
  ELSE [ty |-> "Join", ltime |-> row[k].ltime]

\* The intent that merge_remote_state makes of the entry of the subject in the
\* local_state of k.
MergedIntent(k) ==
  IF row[k].left > 0
  THEN [ty |-> "Leave", ltime |-> row[k].ltime + 1]
  ELSE [ty |-> "Join", ltime |-> row[k].ltime]

\* n merges the state of k.
Merge(n, k) ==
  LET c == Witness(clock[n], clock[k] - 1) IN
    IF IsKnown(row[k]) THEN Handle(n, MergedIntent(k), c)
    ELSE clock' = [clock EXCEPT ![n] = c] /\ UNCHANGED <<row, refutes>>

\* A push/pull exchange, one direction.  Two instances that both hold the subject as
\* left raise its time at every exchange, without end but for the bound.
PushPull(n, k) ==
  /\ n # k /\ InTouch(n) /\ InTouch(k)
  /\ MergedIntent(k).ltime <= MaxLTime + 1
  /\ Merge(n, k)
  /\ UNCHANGED <<up, life, msgs, starts, leaves>>

\* memberlist at n finds the subject alive, which is possible as long as it runs,
NotifyJoin(n) ==
  /\ n \in Observer \ up /\ InTouch(Subject)
  /\ up' = up \cup {n}
  /\ row' = [row EXCEPT ![n] = handle_node_join(@)]
  /\ UNCHANGED <<clock, life, refutes, msgs, starts, leaves>>

\* or dead, rightly or not.
NotifyLeave(n) ==
  /\ n \in up
  /\ up' = up \ {n}
  /\ row' = [row EXCEPT ![n] = handle_node_leave(@)]
  /\ UNCHANGED <<clock, life, refutes, msgs, starts, leaves>>

\* remove_failed_node at n: handled here, then broadcast.
ForceLeave(n) ==
  LET msg == [ty |-> "Leave", ltime |-> clock[n]] IN
    /\ n \in Observer /\ clock[n] <= MaxLTime
    /\ Handle(n, msg, clock[n])
    /\ msgs' = msgs \cup {msg} /\ leaves' = leaves \cup {"force"}
    /\ UNCHANGED <<up, life, starts>>

-----------------------------------------------------------------------------
(* The subject.                                                            *)

\* broadcast_join: handle_node_join_intent, then the broadcast.
BroadcastJoin(ltime) ==
  LET msg == [ty |-> "Join", ltime |-> ltime] IN
    /\ row' = [row EXCEPT ![Subject] = handle_node_join_intent(@, ltime)]
    /\ clock' = [clock EXCEPT ![Subject] = Witness(@, ltime)]
    /\ msgs' = msgs \cup {msg}

Refute ==
  /\ InTouch(Subject)
  /\ \E ltime \in refutes \cap 0 .. MaxLTime :
       /\ BroadcastJoin(ltime)
       /\ refutes' = refutes \ {ltime}
  /\ UNCHANGED <<up, life, starts, leaves>>

\* Mutant of JoinContact: what memberlist exchanged is merged too late.
JoinContactStale(k) ==
  /\ life = "started" /\ k \in Observer
  /\ life' = "contacted"
  /\ UNCHANGED <<row, clock, up, refutes, msgs, starts, leaves>>

\* join(): memberlist exchanges states with the instance k (what k merges is another
\* PushPull step),
JoinContact(k) ==
  /\ life = "started" /\ k \in Observer
  /\ life' = "contacted"
  /\ Merge(Subject, k)
  /\ UNCHANGED <<up, msgs, starts, leaves>>

\* then the instance tells the cluster.
Join ==
  /\ life = "contacted" /\ clock[Subject] <= MaxLTime
  /\ BroadcastJoin(clock[Subject])
  /\ life' = "joined"
  /\ UNCHANGED <<up, refutes, starts, leaves>>

\* leave(): the intent is handled and told,
Leave ==
  LET msg == [ty |-> "Leave", ltime |-> clock[Subject]] IN
    /\ life = "joined" /\ clock[Subject] <= MaxLTime
    /\ life' = "leaving"
    /\ row' = [row EXCEPT ![Subject] = handle_node_leave_intent(@, msg.ltime, FALSE)]
    /\ clock' = [clock EXCEPT ![Subject] = @ + 1]
    /\ msgs' = msgs \cup {msg} /\ leaves' = leaves \cup {"leave"}
    /\ UNCHANGED <<up, refutes, starts>>

\* and after memberlist.leave the process ends,
LeaveEnd ==
  /\ life = "leaving"
  /\ life' = "left"
  /\ row' = [row EXCEPT ![Subject] = handle_node_leave(@)]
  /\ refutes' = {}
  /\ UNCHANGED <<clock, up, msgs, starts, leaves>>

\* as it may at any time.
Crash ==
  /\ life \notin {"left", "down"}
  /\ life' = "down" /\ refutes' = {}
  /\ UNCHANGED <<row, clock, up, msgs, starts, leaves>>

\* A new instance with an empty table, and the clock of the snapshot if there is one.
Restart(c) ==
  /\ life \in {"left", "down"} /\ starts < MaxStarts
  /\ life' = "started" /\ starts' = starts + 1
  /\ row' = [row EXCEPT ![Subject] = handle_node_join(NoRow)]
  /\ clock' = [clock EXCEPT ![Subject] = c]
  /\ UNCHANGED <<up, refutes, msgs, leaves>>

-----------------------------------------------------------------------------
Next ==
  \/ \E n \in Node, msg \in msgs : Deliver(n, msg)
  \/ \E n, k \in Node : PushPull(n, k)
  \/ \E n \in Observer : NotifyJoin(n) \/ NotifyLeave(n) \/ ForceLeave(n) \/ JoinContact(n)
  \/ Refute \/ Join \/ Leave \/ LeaveEnd \/ Crash
  \/ \E c \in {1, clock[Subject]} : Restart(c)

Spec == Init /\ [][Next]_vars

\* Push/pull goes on for ever between instances that run, with partners taken at
\* random, and memberlist finds out in the end that the subject is gone.  Nothing is
\* assumed of broadcasts.
Fairness ==
  /\ \A n, k \in Observer : WF_vars(PushPull(n, k))
  /\ \A n \in Observer : WF_vars(~ InTouch(Subject) /\ NotifyLeave(n))

FairSpec == Spec /\ Fairness

-----------------------------------------------------------------------------
(* Safety.                                                                 *)

\* No instance takes the subject for one that leaves or has left unless somebody asked
\* for it, by leave() or by remove_failed_node: crashes, lost and reordered messages and
\* the times that push/pull makes up never turn a failure into a leave.
LeaveHasCause == \A n \in Node : row[n].status \in {"Leaving", "Left"} => leaves # {}

\* Each instance stamps its messages above all it knows of the subject.
ClocksAhead == \A n \in Node : TimesBelow(row[n], clock[n])

\* A member that joins, even with a clock that starts again at one, tells the cluster of
\* a time that is news to the instance it joined through, however old the leave or the
\* failure that this instance holds against it.
ContactAcceptsJoin ==
  [][\A k \in Observer : JoinContact(k) => clock'[Subject] > row[k].ltime]_vars

-----------------------------------------------------------------------------
(* Liveness.                                                               *)

\* Once one instance knows that the subject left, push/pull alone brings all of them to
\* it, those that took it for alive or failed included, unless the subject returns.  (The
\* second line keeps the bound of PushPull out of the way.)
LeaveSpreads ==
  (/\ life = "left" /\ \E n \in Observer : row[n].status = "Left"
   /\ \A n \in Observer : row[n].ltime <= MaxLTime)
    ~> (life # "left" \/ \A n \in Observer : row[n].status = "Left")

-----------------------------------------------------------------------------
(* Disagreements between comments and the code.                            *)

\* No message and no exchange changes what anybody knows.
Quiet ==
  /\ refutes = {}
  /\ \A n \in Node, msg \in msgs : Handled(n, msg) = row[n]
  /\ \A n, k \in Node : n # k => Handled(n, MergedIntent(k)) = row[n]

\* "serf is eventually consistent": when the subject has joined, memberlist holds it alive
\* everywhere and nothing is left to learn, all agree that it is alive.  (Even if nobody
\* ever called remove_failed_node.)
Converged ==
  life = "joined" /\ up = Observer /\ "force" \notin leaves /\ Quiet
    => \A n \in Node : row[n].status = "Alive"
=============================================================================
