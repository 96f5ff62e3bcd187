--------------------------- MODULE ClusterProofs ---------------------------
(***************************************************************************)
(* The safety of the cluster, for any number of instances, any number of   *)
(* restarts and any times: what the instances know of the subject has a    *)
(* cause, and their clocks are ahead of it.                                *)
(***************************************************************************)
EXTENDS Cluster, MembersProofs

\* Nobody broadcasts a leave without a cause.
LeavesTold == \A msg \in msgs : msg.ty = "Leave" => leaves # {}

IInv == /\ TypeOK
        /\ \A n \in Node : RowOK(row[n]) /\ IsKnown(row[n])
        /\ ClocksAhead /\ LeaveHasCause /\ LeavesTold

IsGone(r) == r.status \in {"Leaving", "Left"}

\* An instance that has just started knows itself, alive, from time zero on.
LEMMA FreshRow ==
  LET u == handle_node_join(NoRow)
  IN  /\ RowOK(u) /\ IsKnown(u) /\ ~ IsGone(u)
      /\ \A c \in Nat \ {0} : TimesBelow(u, c)
<1>1. RowOK(handle_node_join(NoRow))
  BY NoRowOK, JoinOK
<1> DEFINE u == handle_node_join(NoRow)
<1>2. u.status = "Alive" /\ u.ltime = 0 /\ u.intent.ltime = 0
  BY Zenon DEF handle_node_join, NoRow, NoIntent
<1> HIDE DEF u
<1>3. IsKnown(u) /\ ~ IsGone(u)
  BY <1>2 DEF IsKnown, IsGone
<1>4. \A c \in Nat \ {0} : TimesBelow(u, c)
  BY <1>2 DEF TimesBelow
<1> QED
  BY <1>1, <1>3, <1>4 DEF u

\* The initial state satisfies the invariant.
LEMMA InitIInv == Init => IInv
<1> SUFFICES ASSUME Init PROVE IInv
  OBVIOUS
<1> DEFINE u == handle_node_join(NoRow)
<1>1. RowOK(u) /\ IsKnown(u) /\ ~ IsGone(u) /\ \A c \in Nat \ {0} : TimesBelow(u, c)
  BY FreshRow
<1> HIDE DEF u
<1>2. row = [n \in Node |-> u] /\ clock = [n \in Node |-> 1]
  BY DEF Init, u
<1>3. TypeOK
  BY <1>1, <1>2 DEF Init, TypeOK, RowOK, Life
<1> QED
  BY <1>1, <1>2, <1>3 DEF Init, IInv, ClocksAhead, LeaveHasCause, LeavesTold, IsGone

\* A step that rewrites one row, keeps the invariant if the row has a cause and the clock
\* of its instance is ahead of it.
LEMMA RowStep ==
  ASSUME IInv, NEW n \in Node, NEW u, NEW w \in Nat \ {0},
         row' = [row EXCEPT ![n] = u], clock' = [clock EXCEPT ![n] = w],
         RowOK(u), IsKnown(u), TimesBelow(u, w), IsGone(u) => leaves' # {},
         leaves \subseteq leaves', leaves' \subseteq {"leave", "force"},
         msgs' \subseteq Message, \A msg \in msgs' : msg \in msgs \/ (msg.ty = "Leave" => leaves' # {}),
         up' \subseteq Observer, life' \in Life, refutes' \subseteq Nat, starts' \in Nat
  PROVE  IInv'
<1>1. TypeOK'
  BY DEF IInv, TypeOK, RowOK
<1>2. \A k \in Node : RowOK(row'[k]) /\ IsKnown(row'[k])
  BY DEF IInv, TypeOK
<1>3. ClocksAhead'
  BY DEF IInv, TypeOK, ClocksAhead
<1>4. LeaveHasCause'
  BY Zenon DEF IInv, TypeOK, LeaveHasCause, IsGone
<1>5. LeavesTold'
  BY Zenon DEF IInv, LeavesTold
<1> QED
  BY <1>1, <1>2, <1>3, <1>4, <1>5 DEF IInv

\* A join intent never makes a known member leave.
LEMMA JoinIntentKeeps ==
  ASSUME NEW r \in Row, IsKnown(r), NEW ltime \in Nat
  PROVE  LET u == handle_node_join_intent(r, ltime) IN IsGone(u) => IsGone(r)
BY DEF Row, handle_node_join_intent, IsKnown, IsGone

\* Witnessing a time never lowers a clock and brings it above the time.
LEMMA WitnessAbove ==
  ASSUME NEW c \in Nat, NEW t \in Nat
  PROVE  Witness(c, t) \in Nat \ {0} /\ Witness(c, t) >= c /\ Witness(c, t) > t
BY DEF Witness

\* A later clock is ahead of the same row.
LEMMA StillBelow ==
  ASSUME NEW r \in Row, NEW c \in Nat, NEW w \in Nat, w >= c, TimesBelow(r, c)
  PROVE  TimesBelow(r, w)
BY DEF Row, TimesBelow

\* Neither does a memberlist leave, and a memberlist join makes it alive.
LEMMA CallbacksKeep ==
  ASSUME NEW r \in Row, IsKnown(r)
  PROVE  /\ ~ IsGone(handle_node_join(r)) /\ IsKnown(handle_node_join(r))
         /\ IsGone(handle_node_leave(r)) => IsGone(r)
BY DEF Row, Status, handle_node_join, handle_node_leave, IsKnown, IsGone

\* What the invariant says of one instance.
LEMMA OfInstance ==
  ASSUME IInv, NEW n \in Node
  PROVE  /\ RowOK(row[n]) /\ row[n] \in Row /\ IsKnown(row[n])
         /\ clock[n] \in Nat \ {0} /\ TimesBelow(row[n], clock[n])
         /\ IsGone(row[n]) => leaves # {}
BY DEF IInv, TypeOK, ClocksAhead, LeaveHasCause, IsGone

\* What an intent does to the row of an instance whose clock has witnessed it.
LEMMA HandledRow ==
  ASSUME IInv, NEW n \in Node, NEW msg \in Message, NEW w \in Nat, w >= clock[n], w > msg.ltime
  PROVE  LET u == Handled(n, msg)
         IN  RowOK(u) /\ IsKnown(u) /\ TimesBelow(u, w) /\ (IsGone(u) => leaves # {} \/ msg.ty = "Leave")
<1> DEFINE r == row[n]
           t == msg.ltime
<1>1. /\ RowOK(r) /\ r \in Row /\ IsKnown(r) /\ clock[n] \in Nat /\ TimesBelow(r, clock[n])
      /\ IsGone(r) => leaves # {}
  BY OfInstance
<1>2. t \in Nat /\ t \in 0 .. w - 1
  BY DEF Message
<1>3. TimesBelow(r, w)
  BY <1>1, StillBelow
<1>4. CASE msg.ty = "Join"
  <2>1. Handled(n, msg) = handle_node_join_intent(r, t)
    BY <1>4 DEF Handled
  <2> DEFINE u == handle_node_join_intent(r, t)
  <2>2. RowOK(u)
    BY <1>1, <1>2, JoinIntentOK
  <2>3. IsKnown(u) /\ TimesBelow(u, w)
    BY <1>1, <1>2, <1>3, JoinIntentMoves
  <2>4. IsGone(u) => IsGone(r)
    BY <1>1, <1>2, JoinIntentKeeps
  <2> HIDE DEF u, r
  <2> QED
    BY <1>1, <2>1, <2>2, <2>3, <2>4 DEF u
<1>5. CASE msg.ty = "Leave" /\ Refutes(n, row[n], t)
  <2>1. Handled(n, msg) = r
    BY <1>5 DEF Handled
  <2> QED
    BY <1>1, <1>3, <2>1
<1>6. CASE msg.ty = "Leave" /\ ~ Refutes(n, row[n], t)
  <2>1. Handled(n, msg) = handle_node_leave_intent(r, t, FALSE)
    BY <1>6 DEF Handled
  <2> DEFINE u == handle_node_leave_intent(r, t, FALSE)
  <2>2. RowOK(u)
    BY <1>1, <1>2, LeaveIntentOK, Zenon
  <2>3. IsKnown(u) /\ TimesBelow(u, w)
    BY <1>1, <1>2, <1>3, LeaveIntentMoves, Zenon
  <2> HIDE DEF u, r
  <2> QED
    BY <1>6, <2>1, <2>2, <2>3, Zenon DEF u
<1> QED
  BY <1>4, <1>5, <1>6 DEF Message

\* An instance that handles an intent with a cause keeps the invariant.
LEMMA HandleIInv ==
  ASSUME IInv, NEW n \in Node, NEW msg \in Message, NEW c \in Nat, c >= clock[n],
         Handle(n, msg, c), msg.ty = "Leave" => leaves' # {},
         leaves \subseteq leaves', leaves' \subseteq {"leave", "force"},
         \A m \in msgs' : m \in msgs \/ m = msg,
         up' \subseteq Observer, life' \in Life, starts' \in Nat
  PROVE  IInv'
<1> DEFINE u == Handled(n, msg)
           w == Witness(c, msg.ltime)
<1>1. msg.ltime \in Nat
  BY DEF Message
<1>2. w \in Nat \ {0} /\ w >= c /\ w > msg.ltime
  BY <1>1, WitnessAbove, Zenon
<1>3. w >= clock[n]
  <2>1. clock[n] \in Nat
    BY OfInstance
  <2> HIDE DEF w
  <2> QED
    BY <1>2, <2>1
<1>4. RowOK(u) /\ IsKnown(u) /\ TimesBelow(u, w) /\ (IsGone(u) => leaves # {} \/ msg.ty = "Leave")
  <2> HIDE DEF w
  <2> QED
    BY <1>2, <1>3, HandledRow
<1>5. /\ row' = [row EXCEPT ![n] = u] /\ clock' = [clock EXCEPT ![n] = w]
      /\ refutes' \subseteq refutes \cup {w}
  BY DEF Handle
<1> HIDE DEF u, w
<1>6. refutes' \subseteq Nat
  BY <1>2, <1>5 DEF IInv, TypeOK
<1>7. IsGone(u) => leaves' # {}
  BY <1>4, Zenon
<1>8. msgs' \subseteq Message /\ \A m \in msgs' : m \in msgs \/ (m.ty = "Leave" => leaves' # {})
  BY DEF IInv, TypeOK
<1> QED
  BY <1>2, <1>4, <1>5, <1>6, <1>7, <1>8, RowStep, Zenon

\* An instance that merges the state of another keeps the invariant: the left entry that
\* becomes a leave intent has a cause.
LEMMA MergeIInv ==
  ASSUME IInv, NEW n \in Node, NEW k \in Node, Merge(n, k), life' \in Life,
         UNCHANGED <<up, msgs, starts, leaves>>
  PROVE  /\ IInv'
         /\ clock'[n] > row[k].ltime
<1> DEFINE c == Witness(clock[n], clock[k] - 1)
           msg == MergedIntent(k)
<1>1. /\ RowOK(row[k]) /\ row[k] \in Row /\ IsKnown(row[k]) /\ clock[k] \in Nat \ {0}
      /\ TimesBelow(row[k], clock[k]) /\ (IsGone(row[k]) => leaves # {}) /\ clock[n] \in Nat \ {0}
  BY OfInstance
<1>2. clock[k] - 1 \in Nat /\ row[k].ltime \in Nat /\ row[k].ltime <= clock[k] - 1
  BY <1>1 DEF Row, TimesBelow
<1>3. c \in Nat \ {0} /\ c >= clock[n] /\ c > clock[k] - 1
  BY <1>1, <1>2, WitnessAbove, Zenon
<1>4. msg \in Message /\ msg.ltime >= row[k].ltime
  BY <1>2 DEF MergedIntent, Message
<1>5. msg.ty = "Leave" => leaves' # {}
  <2>1. msg.ty = "Leave" => row[k].left > 0
    BY DEF MergedIntent
  <2>2. row[k].left > 0 => row[k].status = "Left"
    BY <1>1 DEF RowOK, ListsMatch
  <2> QED
    BY <1>1, <2>1, <2>2 DEF IsGone
<1>6. Handle(n, msg, c)
  BY <1>1 DEF Merge
<1>7. clock'[n] = Witness(c, msg.ltime)
  BY <1>6 DEF Handle, IInv, TypeOK
<1> HIDE DEF c, msg
<1>8. IInv'
  <2>1. leaves \subseteq leaves' /\ leaves' \subseteq {"leave", "force"} /\ up' \subseteq Observer /\ starts' \in Nat
    BY DEF IInv, TypeOK
  <2> QED
    BY <1>3, <1>4, <1>5, <1>6, <2>1, HandleIInv
<1>9. clock'[n] > row[k].ltime
  <2>1. msg.ltime \in Nat
    BY <1>4 DEF Message
  <2>2. Witness(c, msg.ltime) \in Nat /\ Witness(c, msg.ltime) > msg.ltime
    BY <1>3, <2>1, WitnessAbove, Zenon
  <2> QED
    BY <1>2, <1>4, <1>7, <2>1, <2>2
<1> QED
  BY <1>8, <1>9

-----------------------------------------------------------------------------
(* The steps.                                                              *)

\* Any message may arrive at any time.
LEMMA DeliverIInv ==
  ASSUME IInv, NEW n \in Node, NEW msg, Deliver(n, msg) PROVE IInv'
<1>1. msg \in msgs /\ msg \in Message
  BY DEF Deliver, IInv, TypeOK
<1>2. msg.ty = "Leave" => leaves' # {}
  BY <1>1 DEF Deliver, IInv, LeavesTold
<1>3. Handle(n, msg, clock[n]) /\ UNCHANGED <<up, life, msgs, starts, leaves>>
  BY DEF Deliver
<1>4. clock[n] \in Nat /\ clock[n] >= clock[n]
  BY OfInstance
<1>5. /\ leaves \subseteq leaves' /\ leaves' \subseteq {"leave", "force"}
      /\ up' \subseteq Observer /\ life' \in Life /\ starts' \in Nat
      /\ \A m \in msgs' : m \in msgs \/ m = msg
  BY <1>3 DEF IInv, TypeOK
<1> QED
  BY <1>1, <1>2, <1>3, <1>4, <1>5, HandleIInv

\* memberlist's verdict on the subject, at an instance or, when it left, at itself.
LEMMA CallbackIInv ==
  ASSUME IInv, NEW n \in Node, UNCHANGED <<clock, msgs, starts, leaves>>,
         \/ row' = [row EXCEPT ![n] = handle_node_join(@)]
         \/ row' = [row EXCEPT ![n] = handle_node_leave(@)],
         up' \subseteq Observer, life' \in Life, refutes' \subseteq refutes
  PROVE  IInv'
<1> DEFINE r == row[n]
<1>1. /\ RowOK(r) /\ r \in Row /\ IsKnown(r) /\ clock[n] \in Nat \ {0} /\ TimesBelow(r, clock[n])
      /\ IsGone(r) => leaves # {}
  BY OfInstance
<1>2. ASSUME NEW u, RowOK(u), IsKnown(u), TimesBelow(u, clock[n]), IsGone(u) => IsGone(r),
             row' = [row EXCEPT ![n] = u]
      PROVE  IInv'
  <2>1. clock' = [clock EXCEPT ![n] = clock[n]]
    BY DEF IInv, TypeOK
  <2>2. /\ leaves \subseteq leaves' /\ leaves' \subseteq {"leave", "force"} /\ starts' \in Nat
        /\ msgs' \subseteq Message /\ \A m \in msgs' : m \in msgs
        /\ refutes' \subseteq Nat
    BY DEF IInv, TypeOK
  <2>3. IsGone(u) => leaves' # {}
    BY <1>1, <1>2
  <2> QED
    BY <1>1, <1>2, <2>1, <2>2, <2>3, RowStep, Zenon
<1>3. CASE row' = [row EXCEPT ![n] = handle_node_join(@)]
  <2> DEFINE u == handle_node_join(r)
  <2>1. RowOK(u) /\ IsKnown(u) /\ TimesBelow(u, clock[n]) /\ ~ IsGone(u)
    BY <1>1, JoinOK, JoinMoves, CallbacksKeep
  <2>2. row' = [row EXCEPT ![n] = u]
    BY <1>3
  <2> HIDE DEF u, r
  <2> QED
    BY <1>2, <2>1, <2>2, Zenon
<1>4. CASE row' = [row EXCEPT ![n] = handle_node_leave(@)]
  <2> DEFINE u == handle_node_leave(r)
  <2>1. RowOK(u) /\ IsKnown(u) /\ TimesBelow(u, clock[n]) /\ (IsGone(u) => IsGone(r))
    BY <1>1, LeaveOK, LeaveMoves, CallbacksKeep
  <2>2. row' = [row EXCEPT ![n] = u]
    BY <1>4
  <2> HIDE DEF u, r
  <2> QED
    BY <1>2, <2>1, <2>2, Zenon
<1> QED
  BY <1>3, <1>4

\* remove_failed_node is itself the cause.
LEMMA ForceLeaveIInv ==
  ASSUME IInv, NEW n \in Observer, ForceLeave(n) PROVE IInv'
<1> DEFINE msg == [ty |-> "Leave", ltime |-> clock[n]]
<1>1. n \in Node /\ clock[n] \in Nat /\ clock[n] >= clock[n]
  BY OfInstance DEF Observer
<1>2. msg \in Message
  BY <1>1 DEF Message
<1>3. Handle(n, msg, clock[n]) /\ msgs' = msgs \cup {msg} /\ leaves' = leaves \cup {"force"}
  BY DEF ForceLeave
<1>4. /\ up' \subseteq Observer /\ life' \in Life /\ starts' \in Nat
      /\ leaves' \subseteq {"leave", "force"}
  BY <1>3 DEF ForceLeave, IInv, TypeOK
<1> HIDE DEF msg
<1> QED
  BY <1>1, <1>2, <1>3, <1>4, HandleIInv

\* broadcast_join, with a time that the subject took from its clock.
LEMMA BroadcastJoinIInv ==
  ASSUME IInv, NEW ltime \in Nat, BroadcastJoin(ltime), refutes' \subseteq refutes,
         life' \in Life, UNCHANGED <<up, starts, leaves>>
  PROVE  IInv'
<1> DEFINE r == row[Subject]
           w == Witness(clock[Subject], ltime)
           u == handle_node_join_intent(r, ltime)
<1>1. /\ RowOK(r) /\ r \in Row /\ IsKnown(r) /\ clock[Subject] \in Nat \ {0}
      /\ TimesBelow(r, clock[Subject]) /\ (IsGone(r) => leaves # {})
  BY SubjectIsNode, OfInstance
<1>2. w \in Nat \ {0} /\ w >= clock[Subject] /\ w > ltime
  BY <1>1, WitnessAbove, Zenon
<1>3. RowOK(u)
  BY <1>1, JoinIntentOK
<1>4. IsKnown(u) /\ TimesBelow(u, w)
  <2> HIDE DEF w
  <2>1. TimesBelow(r, w)
    BY <1>1, <1>2, StillBelow
  <2>2. ltime \in 0 .. w - 1
    BY <1>2
  <2> QED
    BY <1>1, <1>2, <2>1, <2>2, JoinIntentMoves
<1>5. IsGone(u) => leaves' # {}
  BY <1>1, JoinIntentKeeps
<1>6. /\ row' = [row EXCEPT ![Subject] = u] /\ clock' = [clock EXCEPT ![Subject] = w]
      /\ msgs' = msgs \cup {[ty |-> "Join", ltime |-> ltime]}
  BY DEF BroadcastJoin
<1> HIDE DEF u, w
<1>7. msgs' \subseteq Message /\ \A m \in msgs' : m \in msgs \/ (m.ty = "Leave" => leaves' # {})
  BY <1>6 DEF IInv, TypeOK, Message
<1>8. /\ leaves \subseteq leaves' /\ leaves' \subseteq {"leave", "force"} /\ starts' \in Nat
      /\ up' \subseteq Observer /\ refutes' \subseteq Nat
  BY DEF IInv, TypeOK
<1> QED
  BY <1>2, <1>3, <1>4, <1>5, <1>6, <1>7, <1>8, SubjectIsNode, RowStep, Zenon

\* leave() is the other cause.
LEMMA LeaveIInv == ASSUME IInv, Leave PROVE IInv'
<1> DEFINE r == row[Subject]
           c == clock[Subject]
           w == c + 1
           u == handle_node_leave_intent(r, c, FALSE)
<1>1. RowOK(r) /\ r \in Row /\ IsKnown(r) /\ c \in Nat \ {0} /\ TimesBelow(r, c)
  BY SubjectIsNode, OfInstance
<1>2. w \in Nat \ {0} /\ w >= c /\ c \in 0 .. w - 1
  BY <1>1
<1>3. RowOK(u)
  BY <1>1, LeaveIntentOK, Zenon
<1>4. IsKnown(u) /\ TimesBelow(u, w)
  <2> HIDE DEF w
  <2>1. TimesBelow(r, w)
    BY <1>1, <1>2, StillBelow
  <2> QED
    BY <1>1, <1>2, <2>1, LeaveIntentMoves, Zenon
<1>5. /\ row' = [row EXCEPT ![Subject] = u] /\ clock' = [clock EXCEPT ![Subject] = w]
      /\ msgs' = msgs \cup {[ty |-> "Leave", ltime |-> c]} /\ leaves' = leaves \cup {"leave"}
      /\ life' = "leaving" /\ UNCHANGED <<up, refutes, starts>>
  BY DEF Leave
<1> HIDE DEF u, w
<1>6. msgs' \subseteq Message
  BY <1>1, <1>5 DEF IInv, TypeOK, Message
<1>7. /\ leaves \subseteq leaves' /\ leaves' \subseteq {"leave", "force"} /\ starts' \in Nat
      /\ up' \subseteq Observer /\ refutes' \subseteq Nat /\ life' \in Life /\ leaves' # {}
  BY <1>5 DEF IInv, TypeOK, Life
<1> QED
  BY <1>2, <1>3, <1>4, <1>5, <1>6, <1>7, SubjectIsNode, RowStep, Zenon

\* A new instance knows only itself, and its clock is above time zero.
LEMMA RestartIInv == ASSUME IInv, NEW c \in {1, clock[Subject]}, Restart(c) PROVE IInv'
<1> DEFINE u == handle_node_join(NoRow)
<1>1. c \in Nat \ {0}
  BY SubjectIsNode, OfInstance
<1>2. RowOK(u) /\ IsKnown(u) /\ ~ IsGone(u) /\ TimesBelow(u, c)
  BY <1>1, FreshRow
<1>3. /\ row' = [row EXCEPT ![Subject] = u] /\ clock' = [clock EXCEPT ![Subject] = c]
      /\ UNCHANGED <<up, refutes, msgs, leaves>> /\ starts' = starts + 1 /\ life' = "started"
  BY DEF Restart
<1> HIDE DEF u
<1>4. /\ leaves \subseteq leaves' /\ leaves' \subseteq {"leave", "force"} /\ starts' \in Nat
      /\ up' \subseteq Observer /\ refutes' \subseteq Nat /\ life' \in Life
      /\ msgs' \subseteq Message /\ \A m \in msgs' : m \in msgs
  BY <1>3 DEF IInv, TypeOK, Life
<1> QED
  BY <1>1, <1>2, <1>3, <1>4, SubjectIsNode, RowStep, Zenon

\* Every step keeps the invariant.
LEMMA StepIInv == ASSUME IInv, [Next]_vars PROVE IInv'
<1>1. ASSUME NEW n \in Node, NEW msg \in msgs, Deliver(n, msg) PROVE IInv'
  BY <1>1, DeliverIInv
<1>2. ASSUME NEW n \in Node, NEW k \in Node, PushPull(n, k) PROVE IInv'
  <2>1. Merge(n, k) /\ UNCHANGED <<up, msgs, starts, leaves>> /\ life' \in Life
    BY <1>2 DEF PushPull, IInv, TypeOK
  <2> QED
    BY <2>1, MergeIInv
<1>3. ASSUME NEW n \in Observer, NotifyJoin(n) \/ NotifyLeave(n) PROVE IInv'
  <2>1. /\ n \in Node /\ UNCHANGED <<clock, msgs, starts, leaves>>
        /\ \/ row' = [row EXCEPT ![n] = handle_node_join(@)]
           \/ row' = [row EXCEPT ![n] = handle_node_leave(@)]
        /\ up' \subseteq Observer /\ life' \in Life /\ refutes' \subseteq refutes
    BY <1>3 DEF NotifyJoin, NotifyLeave, Observer, IInv, TypeOK
  <2> QED
    BY <2>1, CallbackIInv
<1>4. ASSUME NEW n \in Observer, ForceLeave(n) PROVE IInv'
  BY <1>4, ForceLeaveIInv
<1>5. ASSUME NEW n \in Observer, JoinContact(n) PROVE IInv'
  <2>1. /\ n \in Node /\ Merge(Subject, n) /\ UNCHANGED <<up, msgs, starts, leaves>>
        /\ life' \in Life
    BY <1>5 DEF JoinContact, Observer, Life
  <2> QED
    BY <2>1, SubjectIsNode, MergeIInv
<1>6. CASE Refute
  <2>1. PICK ltime \in refutes \cap 0 .. MaxLTime :
               BroadcastJoin(ltime) /\ refutes' = refutes \ {ltime}
    BY <1>6 DEF Refute
  <2>2. UNCHANGED <<up, life, starts, leaves>> /\ life' \in Life /\ ltime \in Nat
    BY <1>6, <2>1 DEF Refute, IInv, TypeOK
  <2> QED
    BY <2>1, <2>2, BroadcastJoinIInv
<1>7. CASE Join
  <2>1. clock[Subject] \in Nat
    BY SubjectIsNode, OfInstance
  <2>2. /\ BroadcastJoin(clock[Subject]) /\ life' \in Life /\ refutes' \subseteq refutes
        /\ UNCHANGED <<up, starts, leaves>>
    BY <1>7 DEF Join, Life
  <2> QED
    BY <2>1, <2>2, BroadcastJoinIInv
<1>8. CASE Leave
  BY <1>8, LeaveIInv
<1>9. CASE LeaveEnd
  <2>1. /\ UNCHANGED <<clock, msgs, starts, leaves>>
        /\ row' = [row EXCEPT ![Subject] = handle_node_leave(@)]
        /\ up' \subseteq Observer /\ life' \in Life /\ refutes' \subseteq refutes
    BY <1>9 DEF LeaveEnd, Life, IInv, TypeOK
  <2> QED
    BY <2>1, SubjectIsNode, CallbackIInv, Zenon
<1>10. CASE Crash
  BY <1>10 DEF Crash, Life, IInv, TypeOK, ClocksAhead, LeaveHasCause, LeavesTold
<1>11. ASSUME NEW c \in {1, clock[Subject]}, Restart(c) PROVE IInv'
  BY <1>11, RestartIInv
<1>12. CASE UNCHANGED vars
  BY <1>12 DEF vars, IInv, TypeOK, ClocksAhead, LeaveHasCause, LeavesTold
<1> QED
  BY <1>1, <1>2, <1>3, <1>4, <1>5, <1>6, <1>7, <1>8, <1>9, <1>10, <1>11, <1>12, Zenon DEF Next

-----------------------------------------------------------------------------
(* The theorems.                                                           *)

\* Type correctness of the cluster, and every instance stamps what it sends above all it
\* knows of the subject: witness precedes every handler, push/pull included, and an
\* instance that starts again forgets the table together with the clock.
THEOREM ClusterClocks == Spec => [](TypeOK /\ ClocksAhead)
<1>1. IInv => TypeOK /\ ClocksAhead
  BY DEF IInv
<1> QED
  BY InitIInv, StepIInv, <1>1, PTL DEF Spec

\* For any number of instances, restarts and times: nobody takes the subject for one that
\* leaves or has left unless leave() or remove_failed_node was called for it, although
\* merge_remote_state makes up leave intents from what other instances hold.
THEOREM ClusterLeaves == Spec => []LeaveHasCause
<1>1. IInv => LeaveHasCause
  BY DEF IInv
<1> QED
  BY InitIInv, StepIInv, <1>1, PTL DEF Spec

\* The state that join() exchanges first raises the clock of the joining instance above the
\* time under which its contact knows it, so that the broadcast_join that follows is news
\* there.
THEOREM ClusterContact == Spec => ContactAcceptsJoin
<1>1. IInv => \A k \in Observer : JoinContact(k) => clock'[Subject] > row[k].ltime
  <2> SUFFICES ASSUME IInv, NEW k \in Observer, JoinContact(k)
               PROVE  clock'[Subject] > row[k].ltime
    OBVIOUS
  <2>1. /\ k \in Node /\ Merge(Subject, k) /\ UNCHANGED <<up, msgs, starts, leaves>>
        /\ life' \in Life
    BY DEF JoinContact, Observer, Life
  <2> QED
    BY <2>1, SubjectIsNode, MergeIInv
<1>2. IInv /\ [Next]_vars =>
        [\A k \in Observer : JoinContact(k) => clock'[Subject] > row[k].ltime]_vars
  BY <1>1
<1> QED
  BY InitIInv, StepIInv, <1>2, PTL DEF Spec, ContactAcceptsJoin
=============================================================================
