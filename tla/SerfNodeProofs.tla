--------------------------- MODULE SerfNodeProofs ---------------------------
(***************************************************************************)
(* The safety of one Serf instance, for every set of nodes, every bound on *)
(* the times of messages and every number of handlers in flight.           *)
(***************************************************************************)
EXTENDS SerfNode, MembersProofs, FiniteSetTheorems

\* A refutation carries a clock value of this node.
RefutesBelow == \A t \in refutes : t <= clock

\* Until new_in has reported the local node, nothing happened to it.
BeforeStart == Local \in missed => /\ Local \in ml /\ ~ IsKnown(m[Local])
                                   /\ leaving.pc = "idle"

\* An alive instance never started to leave, and no handler in flight read another state.
WhileAlive == state = "Alive" => /\ Local \in ml /\ leaving.pc = "idle"
                                 /\ \A c \in calls : c.state = "Alive"

\* Only leave() has its own intent handled.
LeaveCalled == \A c \in calls : c.from = "leave" => leaving.pc # "idle"

IInv == /\ TypeOK
        /\ \A n \in Node : RowOK(m[n])
        /\ ClockAhead /\ RefutesBelow
        /\ BeforeStart /\ WhileAlive /\ LeaveCalled
        /\ MemberlistAgreement /\ LocalMemberPresent

\* The initial state satisfies the invariant.
LEMMA InitIInv == Init => IInv
<1> SUFFICES ASSUME Init PROVE IInv
  OBVIOUS
<1> USE DEF Init
<1>1. \A n \in Node : m[n] = NoRow /\ RowOK(m[n])
  BY NoRowOK DEF EmptyTable
<1>2. TypeOK
  <2>1. m \in MemberTable
    BY NoRowOK DEF EmptyTable, MemberTable, RowOK
  <2> QED
    BY <2>1, LocalIsNode DEF TypeOK, SerfState, JoinPc, LeavePc
<1>3. ClockAhead /\ RefutesBelow
  BY <1>1 DEF ClockAhead, RefutesBelow, TimesBelow, NoRow, NoIntent
<1>4. BeforeStart /\ WhileAlive /\ LeaveCalled /\ MemberlistAgreement /\ LocalMemberPresent
  BY <1>1, LocalIsNode DEF BeforeStart, WhileAlive, LeaveCalled, MemberlistAgreement, LocalMemberPresent,
                           Known, IsKnown, NoRow
<1> QED
  BY <1>1, <1>2, <1>3, <1>4 DEF IInv

\* The calls and the clock after the first step of a handler.
LEMMA BeginKeeps ==
  ASSUME IInv, NEW ty \in {"Join", "Leave"}, NEW id \in Node, NEW ltime \in Nat,
         NEW prune \in BOOLEAN, NEW from \in {"cluster", "force", "join", "refute", "leave"},
         Begin(NewCall(ty, id, ltime, prune, from))
  PROVE  /\ calls' \subseteq Call /\ clock' \in Nat \ {0} /\ clock' >= clock
         /\ \A c \in calls' : c.ltime < clock'
         /\ state = "Alive" => \A c \in calls' : c.state = "Alive"
         /\ \A c \in calls' \ calls : c.from = from
<1> DEFINE c == NewCall(ty, id, ltime, prune, from)
<1>1. c \in Call /\ c.ltime = ltime /\ c.state = state /\ c.from = from
  BY DEF NewCall, Call, IInv, TypeOK
<1> HIDE DEF c
<1>2. calls' = calls \cup {c} /\ clock' = Witness(clock, ltime)
  BY <1>1 DEF Begin, c
<1>3. clock' \in Nat \ {0} /\ clock' >= clock /\ ltime < clock'
  BY <1>2 DEF Witness, IInv, TypeOK
<1>4. \A d \in calls : d.ltime \in Nat /\ d.ltime < clock
  BY DEF IInv, ClockAhead, TypeOK, Call
<1>5. clock \in Nat
  BY DEF IInv, TypeOK
<1> QED
  BY <1>1, <1>2, <1>3, <1>4, <1>5 DEF IInv, TypeOK, WhileAlive

\* A step that leaves the table alone and only raises the clock keeps what is said of
\* the table.
LEMMA QuietStep ==
  ASSUME IInv, UNCHANGED <<m, ml, missed>>, clock' \in Nat, clock' >= clock
  PROVE  /\ \A n \in Node : RowOK(m'[n]) /\ TimesBelow(m'[n], clock')
         /\ MemberlistAgreement'
BY DEF IInv, TypeOK, ClockAhead, TimesBelow, MemberlistAgreement, Known, MemberTable, Row

\* The first step of a handler keeps the invariant.
LEMMA BeginIInv ==
  ASSUME IInv, NEW ty \in {"Join", "Leave"}, NEW id \in Node, NEW ltime \in Nat,
         NEW prune \in BOOLEAN, NEW from \in {"cluster", "force", "join", "refute"},
         Begin(NewCall(ty, id, ltime, prune, from)),
         UNCHANGED <<m, state, ml, missed, running, leaving, told>>,
         joining' \in JoinPc, refutes' \subseteq refutes
  PROVE  IInv'
<1>1. /\ calls' \subseteq Call /\ clock' \in Nat \ {0} /\ clock' >= clock
      /\ \A c \in calls' : c.ltime < clock'
      /\ state = "Alive" => \A c \in calls' : c.state = "Alive"
      /\ \A c \in calls' \ calls : c.from # "leave"
  BY BeginKeeps
<1>2. (\A n \in Node : RowOK(m'[n]) /\ TimesBelow(m'[n], clock')) /\ MemberlistAgreement'
  BY <1>1, QuietStep
<1>3. TypeOK' /\ BeforeStart' /\ LocalMemberPresent'
  BY <1>1 DEF IInv, TypeOK, BeforeStart, LocalMemberPresent
<1>4. ClockAhead' /\ WhileAlive' /\ LeaveCalled'
  BY <1>1, <1>2 DEF IInv, ClockAhead, WhileAlive, LeaveCalled
<1>5. RefutesBelow'
  BY <1>1 DEF IInv, TypeOK, RefutesBelow
<1> QED
  BY <1>2, <1>3, <1>4, <1>5 DEF IInv

\* What the second step of a handler does to the row it is about.
LEMMA HandleRow ==
  ASSUME IInv, NEW c \in calls
  PROVE  LET r == m[c.id]
             u == Handle(c)
         IN  /\ RowOK(u) /\ TimesBelow(u, clock)
             /\ IsKnown(u) => IsKnown(r) /\ (IsUp(u) <=> IsUp(r)) /\ u.ltime >= r.ltime
             /\ IsKnown(r) /\ ~ IsKnown(u)
                  => c.ty = "Leave" /\ c.prune /\ ~ Refutes(c) /\ c.ltime > r.ltime
<1> DEFINE r == m[c.id]
           u == Handle(c)
<1>1. /\ c \in Call /\ c.id \in Node /\ c.ltime \in 0 .. clock - 1 /\ c.ltime \in Nat
      /\ c.prune \in BOOLEAN /\ c.ty \in {"Join", "Leave"}
  BY DEF IInv, TypeOK, ClockAhead, Call
<1>2. clock \in Nat /\ RowOK(r) /\ r \in Row /\ TimesBelow(r, clock) /\ r.ltime \in Nat
  BY <1>1 DEF IInv, TypeOK, ClockAhead, RowOK, Row
<1>3. CASE c.ty = "Join"
  <2>1. u = handle_node_join_intent(r, c.ltime)
    BY <1>3 DEF Handle, Refutes
  <2>2. RowOK(u)
    BY <1>1, <1>2, <2>1, JoinIntentOK
  <2>3. /\ (IsKnown(u) <=> IsKnown(r)) /\ (IsUp(u) <=> IsUp(r))
        /\ TimesBelow(u, clock) /\ u.ltime >= r.ltime
    BY <1>1, <1>2, <2>1, JoinIntentMoves
  <2> QED
    BY <2>2, <2>3
<1>4. CASE Refutes(c)
  <2>1. u = r
    BY <1>4 DEF Handle, Refutes
  <2> QED
    BY <1>2, <2>1
<1>5. CASE c.ty = "Leave" /\ ~ Refutes(c)
  <2>1. u = handle_node_leave_intent(r, c.ltime, c.prune)
    BY <1>5 DEF Handle
  <2>2. RowOK(u)
    BY <1>1, <1>2, <2>1, LeaveIntentOK
  <2>3. /\ IsKnown(u) => IsKnown(r) /\ (IsUp(u) <=> IsUp(r)) /\ u.ltime >= r.ltime
        /\ IsKnown(r) /\ ~ IsKnown(u) => c.prune /\ c.ltime > r.ltime
        /\ TimesBelow(u, clock)
    BY <1>1, <1>2, <2>1, LeaveIntentMoves
  <2> QED
    BY <1>5, <2>2, <2>3
<1> QED
  BY <1>1, <1>3, <1>4, <1>5

\* The second step, under the members lock, keeps it as well.
LEMMA FinishIInv == ASSUME IInv, NEW c \in calls, Finish(c) PROVE IInv'
<1> DEFINE r == m[c.id]
           u == Handle(c)
<1>1. /\ c \in Call /\ c.id \in Node /\ c.ltime \in 0 .. clock - 1 /\ c.prune \in BOOLEAN
      /\ c.ty \in {"Join", "Leave"}
  BY DEF IInv, TypeOK, ClockAhead, Call
<1>2. clock \in Nat /\ RowOK(r) /\ r \in Row /\ TimesBelow(r, clock)
  BY <1>1 DEF IInv, TypeOK, ClockAhead, RowOK
<1>3. /\ RowOK(u) /\ TimesBelow(u, clock)
      /\ IsKnown(u) => IsKnown(r) /\ (IsUp(u) <=> IsUp(r))
      /\ IsKnown(r) /\ ~ IsKnown(u) => c.ty = "Leave" /\ ~ Refutes(c) /\ c.ltime > r.ltime
  BY HandleRow
<1>4. /\ m' = [m EXCEPT ![c.id] = u] /\ calls' \subseteq calls
      /\ UNCHANGED <<clock, state, ml, missed, running>>
  BY DEF Finish
<1> HIDE DEF u
<1>5. /\ m' \in MemberTable
      /\ \A n \in Node : RowOK(m'[n]) /\ TimesBelow(m'[n], clock)
  BY <1>1, <1>3, <1>4 DEF IInv, TypeOK, MemberTable, RowOK, ClockAhead
<1>6. TypeOK'
  <2>1. refutes' \subseteq Nat /\ joining' \in JoinPc
    BY DEF IInv, TypeOK, Finish, JoinPc
  <2>2. leaving' \in [pc : LeavePc, ltime : Nat]
    BY DEF IInv, TypeOK, Finish, LeavePc
  <2>3. told' \in [join : Nat, leave : Nat]
    BY <1>1 DEF IInv, TypeOK, Finish, Highest
  <2> QED
    BY <1>4, <1>5, <2>1, <2>2, <2>3 DEF IInv, TypeOK
<1>7. ClockAhead' /\ RefutesBelow'
  BY <1>2, <1>4, <1>5 DEF IInv, TypeOK, ClockAhead, RefutesBelow, Finish
<1>8. MemberlistAgreement'
  BY <1>1, <1>3, <1>4 DEF IInv, TypeOK, MemberTable, MemberlistAgreement, Known
<1>9. leaving.pc = "idle" => leaving'.pc = "idle"
  BY DEF IInv, LeaveCalled, Finish
<1>10. leaving'.pc = "idle" => leaving.pc = "idle"
  BY DEF IInv, TypeOK, Finish
<1>11. BeforeStart' /\ WhileAlive' /\ LeaveCalled'
  BY <1>1, <1>3, <1>4, <1>9, <1>10
  DEF IInv, TypeOK, MemberTable, BeforeStart, WhileAlive, LeaveCalled
<1>12. LocalMemberPresent'
  <2> SUFFICES ASSUME state = "Alive", Local \notin missed, ~ IsKnown(m'[Local]) PROVE FALSE
    BY <1>4 DEF LocalMemberPresent
  <2>1. IsKnown(m[Local]) /\ c.state = "Alive"
    BY DEF IInv, LocalMemberPresent, WhileAlive
  <2>2. c.id = Local
    BY <1>4, <2>1, LocalIsNode DEF IInv, TypeOK, MemberTable
  <2>3. ~ IsKnown(u)
    BY <1>1, <1>4, <2>2 DEF IInv, TypeOK, MemberTable
  <2> QED
    BY <1>3, <2>1, <2>2, <2>3 DEF Refutes
<1> QED
  BY <1>5, <1>6, <1>7, <1>8, <1>11, <1>12 DEF IInv

\* A memberlist callback about a node, or the report of the local node, keeps it.
LEMMA CallbackIInv ==
  ASSUME IInv, NEW n \in Node, NotifyJoin(n) \/ NotifyLeave(n) \/ (n = Local /\ Start)
  PROVE  IInv'
<1> DEFINE u == IF NotifyLeave(n) THEN handle_node_leave(m[n]) ELSE handle_node_join(m[n])
<1>1. clock \in Nat /\ RowOK(m[n]) /\ m[n] \in Row /\ TimesBelow(m[n], clock)
  BY DEF IInv, TypeOK, ClockAhead, RowOK
<1>2. /\ m' = [m EXCEPT ![n] = u]
      /\ UNCHANGED <<clock, state, running, calls, refutes, joining, leaving, told>>
  BY DEF NotifyJoin, NotifyLeave, Start
<1>3. /\ RowOK(u) /\ TimesBelow(u, clock)
      /\ IF NotifyLeave(n) THEN ~ IsUp(u) /\ (IsKnown(u) <=> IsKnown(m[n])) ELSE IsUp(u)
  BY <1>1, JoinOK, LeaveOK, JoinMoves, LeaveMoves
<1> HIDE DEF u
<1>4. /\ m' \in MemberTable
      /\ \A k \in Node : RowOK(m'[k]) /\ TimesBelow(m'[k], clock)
  BY <1>2, <1>3 DEF IInv, TypeOK, MemberTable, RowOK, ClockAhead
<1>5. /\ ml' \subseteq Node /\ missed' \subseteq missed
      /\ ml' = IF NotifyLeave(n) THEN ml \ {n} ELSE ml \cup {n}
      /\ ~ NotifyLeave(n) => missed' = missed \ {n}
      /\ NotifyLeave(n) => missed' = missed
      /\ n = Local => ~ NotifyLeave(n)
  BY DEF NotifyJoin, NotifyLeave, Start, IInv, TypeOK, BeforeStart
<1>6. TypeOK' /\ ClockAhead' /\ RefutesBelow' /\ LeaveCalled'
  BY <1>2, <1>4, <1>5 DEF IInv, TypeOK, ClockAhead, RefutesBelow, LeaveCalled
<1>7. BeforeStart' /\ WhileAlive'
  BY <1>2, <1>5 DEF IInv, TypeOK, MemberTable, BeforeStart, WhileAlive
<1>8. MemberlistAgreement'
  BY <1>2, <1>3, <1>5 DEF IInv, TypeOK, MemberTable, MemberlistAgreement, Known
<1>9. IsUp(u) => IsKnown(u)
  BY DEF IsUp, IsKnown
<1>10. LocalMemberPresent'
  BY <1>2, <1>3, <1>5, <1>9 DEF IInv, TypeOK, MemberTable, LocalMemberPresent
<1> QED
  BY <1>4, <1>6, <1>7, <1>8, <1>10 DEF IInv

\* A tick of the reaper keeps it: the local member is up while the instance is alive.
LEMMA ReapIInv ==
  ASSUME IInv, NEW failed, NEW left, NEW stale, Reap(failed, left, stale)
  PROVE  IInv'
<1> DEFINE u(n) == reap(m[n], n \in failed, n \in left, n \in stale)
<1>1. /\ m' = [n \in Node |-> u(n)]
      /\ UNCHANGED <<clock, state, ml, missed, running, calls, refutes, joining, leaving, told>>
  BY DEF Reap
<1>2. ASSUME NEW n \in Node
      PROVE  /\ RowOK(u(n)) /\ TimesBelow(u(n), clock)
             /\ IsKnown(u(n)) => u(n).status = m[n].status
             /\ IsUp(m[n]) => IsKnown(u(n))
  <2>1. RowOK(m[n]) /\ TimesBelow(m[n], clock) /\ clock \in Nat
    BY DEF IInv, TypeOK, ClockAhead
  <2>2. PICK f \in BOOLEAN, l \in BOOLEAN, s \in BOOLEAN :
          (f <=> n \in failed) /\ (l <=> n \in left) /\ (s <=> n \in stale)
    OBVIOUS
  <2>3. u(n) = reap(m[n], f, l, s)
    BY <2>2 DEF reap
  <2> HIDE DEF u
  <2> QED
    BY <2>1, <2>3, ReapOK, ReapMoves
<1> HIDE DEF u
<1>3. m' \in MemberTable /\ \A n \in Node : RowOK(m'[n]) /\ TimesBelow(m'[n], clock)
  BY <1>1, <1>2 DEF MemberTable, RowOK
<1>4. TypeOK' /\ ClockAhead' /\ RefutesBelow' /\ LeaveCalled' /\ WhileAlive'
  BY <1>1, <1>3 DEF IInv, TypeOK, ClockAhead, RefutesBelow, LeaveCalled, WhileAlive
<1>5. MemberlistAgreement'
  BY <1>1, <1>2 DEF IInv, MemberlistAgreement, Known, IsUp, IsKnown
<1>6. BeforeStart'
  BY <1>1, <1>2, LocalIsNode DEF IInv, BeforeStart, IsKnown
<1>7. LocalMemberPresent'
  BY <1>1, <1>2, LocalIsNode
  DEF IInv, LocalMemberPresent, WhileAlive, MemberlistAgreement, Known
<1> QED
  BY <1>3, <1>4, <1>5, <1>6, <1>7 DEF IInv

\* leave() taking the local node out of memberlist keeps it: the instance is no longer alive.
LEMMA LeaveMemberlistIInv == ASSUME IInv, LeaveMemberlist PROVE IInv'
<1> DEFINE u == IF running THEN handle_node_leave(m[Local]) ELSE m[Local]
<1>1. clock \in Nat /\ RowOK(m[Local]) /\ m[Local] \in Row /\ TimesBelow(m[Local], clock)
  BY LocalIsNode DEF IInv, TypeOK, ClockAhead, RowOK
<1>2. /\ m' = [m EXCEPT ![Local] = u]
      /\ ml' = IF running THEN ml \ {Local} ELSE ml
      /\ leaving.pc = "broadcast" /\ leaving' = [leaving EXCEPT !.pc = "propagating"]
      /\ UNCHANGED <<clock, state, missed, running, calls, refutes, joining, told>>
  BY LocalIsNode DEF LeaveMemberlist, IInv, TypeOK, MemberTable
<1>3. /\ RowOK(u) /\ TimesBelow(u, clock) /\ (IsKnown(u) <=> IsKnown(m[Local]))
      /\ IF running THEN ~ IsUp(u) ELSE u = m[Local]
  BY <1>1, LeaveOK, LeaveMoves
<1> HIDE DEF u
<1>4. state # "Alive" /\ Local \notin missed /\ leaving' \in [pc : LeavePc, ltime : Nat]
      /\ leaving'.pc = "propagating"
  BY <1>2 DEF IInv, TypeOK, WhileAlive, BeforeStart, LeavePc
<1>5. /\ m' \in MemberTable
      /\ \A k \in Node : RowOK(m'[k]) /\ TimesBelow(m'[k], clock)
  BY <1>2, <1>3 DEF IInv, TypeOK, MemberTable, RowOK, ClockAhead
<1>6. TypeOK' /\ ClockAhead' /\ RefutesBelow' /\ LeaveCalled'
  BY <1>2, <1>4, <1>5 DEF IInv, TypeOK, ClockAhead, RefutesBelow, LeaveCalled
<1>7. BeforeStart' /\ WhileAlive' /\ LocalMemberPresent'
  BY <1>2, <1>4 DEF BeforeStart, WhileAlive, LocalMemberPresent
<1>8. MemberlistAgreement'
  BY <1>2, <1>3 DEF IInv, TypeOK, MemberTable, MemberlistAgreement, Known
<1> QED
  BY <1>5, <1>6, <1>7, <1>8 DEF IInv

\* A step that leaves the table and memberlist alone and advances the lifecycle keeps it.
LEMMA LifecycleIInv ==
  ASSUME IInv, UNCHANGED <<m, ml, missed, calls, refutes>>,
         clock' \in Nat, clock' >= clock, TypeOK',
         state' = "Alive" => state = "Alive" /\ leaving' = leaving,
         leaving'.pc = "idle" => leaving.pc = "idle",
         Local \in missed => leaving' = leaving
  PROVE  IInv'
<1>1. (\A n \in Node : RowOK(m'[n]) /\ TimesBelow(m'[n], clock')) /\ MemberlistAgreement'
  BY QuietStep
<1>2. ClockAhead' /\ RefutesBelow'
  BY <1>1 DEF IInv, TypeOK, Call, ClockAhead, RefutesBelow
<1>3. BeforeStart' /\ WhileAlive' /\ LeaveCalled' /\ LocalMemberPresent'
  BY DEF IInv, BeforeStart, WhileAlive, LeaveCalled, LocalMemberPresent
<1> QED
  BY <1>1, <1>2, <1>3 DEF IInv

\* Every step keeps the invariant.
LEMMA StepIInv == IInv /\ [Next]_vars => IInv'
<1> SUFFICES ASSUME IInv, [Next]_vars PROVE IInv'
  OBVIOUS
<1>0. clock \in Nat /\ clock # 0
  BY DEF IInv, TypeOK
<1>1. ASSUME NEW c \in calls, Finish(c) PROVE IInv'
  BY <1>1, FinishIInv
<1>2. ASSUME NEW ty \in {"Join", "Leave"}, NEW id \in Subjects, NEW ltime \in 0 .. MaxLTime,
             NEW prune \in BOOLEAN, ReceiveIntent(ty, id, ltime, prune)
      PROVE  IInv'
  BY <1>2, BeginIInv, LocalIsNode, BoundsAreNat DEF ReceiveIntent, IInv, TypeOK
<1>3. ASSUME NEW remote \in 0 .. MaxLTime, MergeClock(remote) PROVE IInv'
  <2>1. clock' \in Nat \ {0} /\ clock' >= clock
    BY <1>0, <1>3, BoundsAreNat DEF MergeClock, Witness
  <2> QED
    BY <1>3, <2>1, LifecycleIInv DEF MergeClock, IInv, TypeOK
<1>4. CASE Start
  BY <1>4, CallbackIInv, LocalIsNode
<1>5. ASSUME NEW n \in Node, NotifyJoin(n) \/ NotifyLeave(n) PROVE IInv'
  BY <1>5, CallbackIInv
<1>6. ASSUME NEW n \in Node, NotifyJoinLost(n) PROVE IInv'
  <2>1. /\ UNCHANGED <<m, clock, state, running, calls, refutes, joining, leaving, told>>
        /\ ml' = ml \cup {n} /\ missed' = missed \cup {n} /\ n # Local
    BY <1>6 DEF NotifyJoinLost
  <2>2. TypeOK' /\ ClockAhead' /\ RefutesBelow' /\ LeaveCalled' /\ \A k \in Node : RowOK(m'[k])
    BY <2>1 DEF IInv, TypeOK, ClockAhead, RefutesBelow, LeaveCalled
  <2>3. BeforeStart' /\ WhileAlive' /\ LocalMemberPresent'
    BY <2>1 DEF IInv, BeforeStart, WhileAlive, LocalMemberPresent
  <2>4. MemberlistAgreement'
    BY <2>1 DEF IInv, MemberlistAgreement, Known
  <2> QED
    BY <2>2, <2>3, <2>4 DEF IInv
<1>7. ASSUME NEW failed, NEW left, NEW stale, Reap(failed, left, stale) PROVE IInv'
  BY <1>7, ReapIInv
<1>8. ASSUME NEW ltime \in refutes, StartRefute(ltime) PROVE IInv'
  BY <1>8, BeginIInv, LocalIsNode DEF StartRefute, IInv, TypeOK
<1>9. CASE JoinBegin \/ JoinFailed
  <2>1. TypeOK'
    BY <1>9 DEF JoinBegin, JoinFailed, IInv, TypeOK, JoinPc
  <2> QED
    BY <1>0, <1>9, <2>1, LifecycleIInv DEF JoinBegin, JoinFailed
<1>10. CASE JoinContacted
  BY <1>0, <1>10, BeginIInv, LocalIsNode DEF JoinContacted, JoinPc
<1>11. ASSUME NEW id \in Subjects, NEW prune \in BOOLEAN, ForceLeave(id, prune) PROVE IInv'
  BY <1>0, <1>11, BeginIInv, LocalIsNode DEF ForceLeave, IInv, TypeOK
<1>12. CASE LeaveBegin
  <2>1. TypeOK'
    BY <1>12 DEF LeaveBegin, IInv, TypeOK, SerfState, LeavePc
  <2> QED
    BY <1>0, <1>12, <2>1, LifecycleIInv DEF LeaveBegin, IInv, TypeOK
<1>13. CASE LeaveIntent
  <2> DEFINE c == NewCall("Leave", Local, leaving.ltime, FALSE, "leave")
  <2>0. leaving.ltime \in Nat
    BY DEF IInv, TypeOK
  <2>1. c \in Call /\ c.ltime = leaving.ltime /\ c.state = state
    BY <2>0, LocalIsNode DEF NewCall, Call, IInv, TypeOK
  <2>2. /\ leaving.pc = "stamped" /\ leaving' = [leaving EXCEPT !.pc = "handling"]
        /\ clock' \in Nat /\ clock' >= clock + 1 /\ clock' > leaving.ltime
        /\ calls' = calls \cup {c}
        /\ UNCHANGED <<m, state, ml, missed, running, refutes, joining, told>>
    BY <1>0, <2>0, <1>13 DEF LeaveIntent, Witness
  <2> HIDE DEF c
  <2>3. state # "Alive" /\ Local \notin missed
    BY <2>2 DEF IInv, WhileAlive, BeforeStart
  <2>4. (\A n \in Node : RowOK(m'[n]) /\ TimesBelow(m'[n], clock')) /\ MemberlistAgreement'
    BY <1>0, <2>2, QuietStep
  <2>5. TypeOK'
    BY <1>0, <2>1, <2>2 DEF IInv, TypeOK, LeavePc
  <2>6. ClockAhead' /\ RefutesBelow'
    BY <1>0, <2>1, <2>2, <2>4 DEF IInv, TypeOK, Call, ClockAhead, RefutesBelow
  <2>7. BeforeStart' /\ WhileAlive' /\ LeaveCalled' /\ LocalMemberPresent'
    BY <2>2, <2>3 DEF BeforeStart, WhileAlive, LeaveCalled, LocalMemberPresent
  <2> QED
    BY <2>4, <2>5, <2>6, <2>7 DEF IInv
<1>21. CASE LeaveStamp
  <2>1. TypeOK' /\ leaving'.pc = "stamped" /\ leaving.pc = "marked"
    BY <1>21 DEF LeaveStamp, IInv, TypeOK, LeavePc
  <2>2. state # "Alive" /\ Local \notin missed
    BY <2>1 DEF IInv, WhileAlive, BeforeStart
  <2> QED
    BY <1>0, <1>21, <2>1, <2>2, LifecycleIInv DEF LeaveStamp
<1>14. CASE LeaveBroadcast
  <2>1. TypeOK' /\ leaving'.pc = "broadcast" /\ leaving.pc = "handled"
    BY <1>14 DEF LeaveBroadcast, IInv, TypeOK, LeavePc
  <2>2. state # "Alive" /\ Local \notin missed
    BY <2>1 DEF IInv, WhileAlive, BeforeStart
  <2> QED
    BY <1>0, <1>14, <2>1, <2>2, LifecycleIInv DEF LeaveBroadcast
<1>15. CASE LeaveMemberlist
  BY <1>15, LeaveMemberlistIInv
<1>16. CASE LeaveEnd
  <2>1. TypeOK' /\ leaving'.pc = "done" /\ state' # "Alive" /\ leaving.pc = "propagating"
    BY <1>16 DEF LeaveEnd, IInv, TypeOK, SerfState, LeavePc
  <2>2. Local \notin missed
    BY <2>1 DEF IInv, BeforeStart
  <2> QED
    BY <1>0, <1>16, <2>1, <2>2, LifecycleIInv DEF LeaveEnd
<1>17. CASE Shutdown \/ ShutdownEnd
  <2>1. TypeOK'
    BY <1>17 DEF Shutdown, ShutdownEnd, IInv, TypeOK, SerfState
  <2> QED
    BY <1>0, <1>17, <2>1, LifecycleIInv DEF Shutdown, ShutdownEnd
<1>18. CASE UNCHANGED vars
  BY <1>18 DEF vars, IInv, TypeOK, ClockAhead, RefutesBelow, BeforeStart, WhileAlive,
               LeaveCalled, MemberlistAgreement, LocalMemberPresent, Known
<1>19. ASSUME NEW id \in Subjects, NEW ltime \in 1 .. MaxLTime, NEW prune \in BOOLEAN,
              ReceiveIntent("Leave", id, ltime, prune)
       PROVE  IInv'
  <2>1. ltime \in 0 .. MaxLTime
    BY BoundsAreNat
  <2> QED
    BY <1>2, <1>19, <2>1
<1>20. ASSUME NEW id \in Subjects, NEW ltime \in 0 .. MaxLTime, ReceiveIntent("Join", id, ltime, FALSE)
       PROVE  IInv'
  BY <1>2, <1>20
<1> QED
  BY <1>1, <1>3, <1>4, <1>5, <1>6, <1>7, <1>8, <1>9, <1>10, <1>11, <1>12, <1>13, <1>14,
     <1>15, <1>16, <1>17, <1>18, <1>19, <1>20, <1>21, Zenon
  DEF Next

-----------------------------------------------------------------------------
(* The safety theorems.                                                    *)

\* The invariant holds in every reachable state.
THEOREM NodeInvariant == Spec => []IInv
BY InitIInv, StepIInv, PTL DEF Spec

\* Every variable keeps its type.
THEOREM NodeTypes == Spec => []TypeOK
<1>1. IInv => TypeOK
  BY DEF IInv
<1> QED
  BY <1>1, NodeInvariant, PTL

\* failed_members and left_members are always exactly the failed and the left members.
THEOREM NodeLists == Spec => []ListsMatchStates
<1>1. IInv => ListsMatchStates
  BY DEF IInv, RowOK, ListsMatchStates
<1> QED
  BY <1>1, NodeInvariant, PTL

\* The events sent to the application always tell the status of every member.
THEOREM NodeEvents == Spec => []EventsTellStatus
<1>1. IInv => EventsTellStatus
  BY DEF IInv, RowOK, EventsTellStatus
<1> QED
  BY <1>1, NodeInvariant, PTL

\* Every Lamport time the instance holds is below its clock.
THEOREM NodeClock == Spec => []ClockAhead
<1>1. IInv => ClockAhead
  BY DEF IInv
<1> QED
  BY <1>1, NodeInvariant, PTL

\* The table and memberlist agree on who is up.
THEOREM NodeAgreement == Spec => []MemberlistAgreement
<1>1. IInv => MemberlistAgreement
  BY DEF IInv
<1> QED
  BY <1>1, NodeInvariant, PTL

\* An alive instance is a member of its own table.
THEOREM NodeSelf == Spec => []LocalMemberPresent
<1>1. IInv => LocalMemberPresent
  BY DEF IInv
<1> QED
  BY <1>1, NodeInvariant, PTL

\* The entries of a list about one node, when there is one and when there is none.
LEMMA EntriesOfOne ==
  ASSUME NEW n PROVE {n} \X (1 .. 1) = {<<n, 1>>} /\ {n} \X (1 .. 0) = {}
<1>1. 1 .. 1 = {1} /\ 1 .. 0 = {}
  OBVIOUS
<1>2. {n} \X {1} = {<<n, 1>>}
  OBVIOUS
<1>3. {n} \X {} = {}
  OBVIOUS
<1> QED
  BY <1>1, <1>2, <1>3

\* With one entry per failed and per left member, the two lists together are no longer
\* than `states`: the reconnector's subtraction does not underflow.
LEMMA ListLengths == IInv => ReconnectArithmetic
<1> SUFFICES ASSUME IInv PROVE ReconnectArithmetic
  OBVIOUS
<1> DEFINE F == {n \in Node : m[n].status = "Failed"}
           L == {n \in Node : m[n].status = "Left"}
<1>1. \A n \in Node : ListsMatch(m[n])
  BY DEF IInv, RowOK
<1>2. FailedEntries(m) = F \X {1}
  <2>1. \A n \in Node : m[n].failed = IF n \in F THEN 1 ELSE 0
    BY <1>1 DEF ListsMatch
  <2>2. \A n \in Node : {n} \X (1 .. m[n].failed) = IF n \in F THEN {<<n, 1>>} ELSE {}
    <3> TAKE n \in Node
    <3> HIDE DEF F
    <3> DEFINE k == m[n].failed
    <3>1. k = IF n \in F THEN 1 ELSE 0
      BY <2>1
    <3> HIDE DEF k
    <3>2. {n} \X (1 .. k) = IF n \in F THEN {<<n, 1>>} ELSE {}
      BY <3>1, EntriesOfOne
    <3> QED
      BY <3>2 DEF k
  <2>3. FailedEntries(m) = UNION {{n} \X (1 .. m[n].failed) : n \in Node}
    BY DEF FailedEntries
  <2>4. \A e : e \in FailedEntries(m) <=> \E n \in F : e = <<n, 1>>
    BY <2>2, <2>3, Zenon
  <2>5. \A e : e \in F \X {1} <=> \E n \in F : e = <<n, 1>>
    OBVIOUS
  <2> QED
    BY <2>4, <2>5, Zenon
<1>3. LeftEntries(m) = L \X {1}
  <2>1. \A n \in Node : m[n].left = IF n \in L THEN 1 ELSE 0
    BY <1>1 DEF ListsMatch
  <2>2. \A n \in Node : {n} \X (1 .. m[n].left) = IF n \in L THEN {<<n, 1>>} ELSE {}
    <3> TAKE n \in Node
    <3> HIDE DEF L
    <3> DEFINE k == m[n].left
    <3>1. k = IF n \in L THEN 1 ELSE 0
      BY <2>1
    <3> HIDE DEF k
    <3>2. {n} \X (1 .. k) = IF n \in L THEN {<<n, 1>>} ELSE {}
      BY <3>1, EntriesOfOne
    <3> QED
      BY <3>2 DEF k
  <2>3. LeftEntries(m) = UNION {{n} \X (1 .. m[n].left) : n \in Node}
    BY DEF LeftEntries
  <2>4. \A e : e \in LeftEntries(m) <=> \E n \in L : e = <<n, 1>>
    BY <2>2, <2>3, Zenon
  <2>5. \A e : e \in L \X {1} <=> \E n \in L : e = <<n, 1>>
    OBVIOUS
  <2> QED
    BY <2>4, <2>5, Zenon
<1>4. IsFiniteSet(F) /\ IsFiniteSet(L) /\ IsFiniteSet(Known(m))
  BY NodeFinite, FS_Subset DEF Known
<1>5. Cardinality({1}) = 1 /\ IsFiniteSet({1})
  BY FS_Singleton
<1>6. Cardinality(F \X {1}) = Cardinality(F) /\ Cardinality(L \X {1}) = Cardinality(L)
  <2> HIDE DEF F, L
  <2>1. Cardinality(F) \in Nat /\ Cardinality(L) \in Nat
    BY <1>4, FS_CardinalityType
  <2>2. /\ Cardinality(F \X {1}) = Cardinality(F) * Cardinality({1})
        /\ Cardinality(L \X {1}) = Cardinality(L) * Cardinality({1})
    BY <1>4, <1>5, FS_Product
  <2> QED
    BY <1>5, <2>1, <2>2
<1>7. Cardinality(F \cup L) = Cardinality(F) + Cardinality(L)
  <2>1. F \cap L = {}
    OBVIOUS
  <2> HIDE DEF F, L
  <2>2. Cardinality(F) \in Nat /\ Cardinality(L) \in Nat
    BY <1>4, FS_CardinalityType
  <2>3. Cardinality(F \cap L) = 0
    BY <2>1, FS_EmptySet
  <2>4. Cardinality(F \cup L) = Cardinality(F) + Cardinality(L) - Cardinality(F \cap L)
    BY <1>4, FS_Union
  <2> QED
    BY <2>2, <2>3, <2>4
<1>8. Cardinality(F \cup L) <= Cardinality(Known(m))
  <2>1. F \cup L \subseteq Known(m)
    BY DEF Known, IsKnown
  <2> QED
    BY <1>4, <2>1, FS_Subset
<1> QED
  BY <1>2, <1>3, <1>6, <1>7, <1>8 DEF ReconnectArithmetic

\* The reconnector never computes a negative number of alive members.
THEOREM NodeReconnect == Spec => []ReconnectArithmetic
BY ListLengths, NodeInvariant, PTL

-----------------------------------------------------------------------------
(* What a step may never do.                                               *)

\* What one step may do to the row of a node: the three action properties, per node.
RowStep(n) ==
  /\ m[n].status \in {"Failed", "Left"} /\ IsUp(m'[n]) => n \in ml' \ ml
  /\ IsUp(m[n]) /\ ~ IsKnown(m'[n])
       => \E c \in calls \ calls' : c.prune /\ c.id = n /\ c.ltime > m[n].ltime
  /\ IsKnown(m[n]) /\ IsKnown(m'[n]) => m'[n].ltime >= m[n].ltime

\* A row that does not change satisfies it.
LEMMA SameRow == ASSUME IInv, NEW n \in Node, m'[n] = m[n] PROVE RowStep(n)
BY DEF IInv, TypeOK, MemberTable, Row, RowStep, IsUp, IsKnown

\* Every step satisfies it, and no step turns the clock back.
LEMMA StepRows == IInv /\ [Next]_vars => clock' >= clock /\ \A n \in Node : RowStep(n)
<1> SUFFICES ASSUME IInv, [Next]_vars PROVE clock' >= clock /\ \A n \in Node : RowStep(n)
  OBVIOUS
<1>0. clock \in Nat /\ \A n \in Node : m[n] \in Row /\ RowOK(m[n]) /\ TimesBelow(m[n], clock)
  BY DEF IInv, TypeOK, MemberTable, ClockAhead
<1>1. ASSUME NEW c \in calls, Finish(c) PROVE clock' >= clock /\ \A n \in Node : RowStep(n)
  <2>1. clock' >= clock
    BY <1>0, <1>1 DEF Finish
  <2>2. c.id \in Node /\ c \in calls \ calls'
    BY <1>1 DEF IInv, TypeOK, Call, Finish
  <2>3. m' = [m EXCEPT ![c.id] = Handle(c)] /\ m \in MemberTable
    BY <1>1 DEF Finish, IInv, TypeOK
  <2>4. RowStep(c.id)
    <3> DEFINE r == m[c.id]
               u == Handle(c)
    <3>1. /\ IsKnown(u) => IsKnown(r) /\ (IsUp(u) <=> IsUp(r)) /\ u.ltime >= r.ltime
          /\ IsKnown(r) /\ ~ IsKnown(u) => c.prune /\ c.ltime > r.ltime
      BY HandleRow
    <3>2. m'[c.id] = u
      BY <2>2, <2>3 DEF MemberTable
    <3> HIDE DEF u
    <3> QED
      BY <2>2, <3>1, <3>2 DEF RowStep, IsUp, IsKnown
  <2>5. ASSUME NEW n \in Node, n # c.id PROVE RowStep(n)
    BY <2>3, <2>5, SameRow DEF MemberTable
  <2> QED
    BY <2>1, <2>4, <2>5
<1>2. ASSUME NEW n \in Node, NotifyJoin(n) \/ NotifyLeave(n) \/ (n = Local /\ Start)
      PROVE  clock' >= clock /\ \A k \in Node : RowStep(k)
  <2>1. clock' >= clock /\ m \in MemberTable
    BY <1>0, <1>2 DEF NotifyJoin, NotifyLeave, Start, IInv, TypeOK
  <2>2. ASSUME NEW k \in Node, k # n PROVE RowStep(k)
    BY <1>2, <2>1, <2>2, SameRow DEF NotifyJoin, NotifyLeave, Start, MemberTable
  <2>3. CASE NotifyJoin(n) \/ (n = Local /\ Start)
    <3>1. m'[n] = handle_node_join(m[n])
      BY <2>1, <2>3 DEF NotifyJoin, Start, MemberTable
    <3>2. IsUp(m'[n]) /\ (IsKnown(m[n]) => m'[n].ltime = m[n].ltime)
      BY <1>0, <3>1, JoinMoves
    <3>3. IsKnown(m[n]) => n \in ml' \ ml
      BY <2>3 DEF NotifyJoin, Start, IInv, BeforeStart
    <3>4. m[n].ltime \in Nat
      BY <1>0 DEF Row
    <3> QED
      BY <2>1, <2>2, <3>2, <3>3, <3>4 DEF RowStep, IsUp, IsKnown
  <2>4. CASE NotifyLeave(n)
    <3>1. m'[n] = handle_node_leave(m[n])
      BY <2>1, <2>4 DEF NotifyLeave, MemberTable
    <3>2. ~ IsUp(m'[n]) /\ (IsKnown(m'[n]) <=> IsKnown(m[n])) /\ m'[n].ltime = m[n].ltime
      BY <1>0, <3>1, LeaveMoves
    <3>3. m[n].ltime \in Nat
      BY <1>0 DEF Row
    <3> QED
      BY <2>1, <2>2, <3>2, <3>3 DEF RowStep, IsUp, IsKnown
  <2> QED
    BY <1>2, <2>3, <2>4
<1>3. ASSUME NEW failed, NEW left, NEW stale, Reap(failed, left, stale)
      PROVE  clock' >= clock /\ \A n \in Node : RowStep(n)
  <2>1. clock' >= clock
    BY <1>0, <1>3 DEF Reap
  <2>2. ASSUME NEW n \in Node PROVE RowStep(n)
    <3>1. PICK f \in BOOLEAN, l \in BOOLEAN, s \in BOOLEAN :
            (f <=> n \in failed) /\ (l <=> n \in left) /\ (s <=> n \in stale)
      OBVIOUS
    <3>2. m'[n] = reap(m[n], f, l, s)
      BY <1>3, <3>1 DEF Reap, reap
    <3>3. /\ IsKnown(m'[n]) => m'[n].status = m[n].status /\ m'[n].ltime = m[n].ltime
          /\ IsUp(m[n]) => IsKnown(m'[n])
      BY <1>0, <3>2, ReapMoves
    <3>4. m[n].ltime \in Nat
      BY <1>0 DEF Row
    <3> QED
      BY <3>3, <3>4 DEF RowStep, IsUp, IsKnown
  <2> QED
    BY <2>1, <2>2
<1>4. CASE LeaveMemberlist
  <2>1. clock' >= clock /\ m \in MemberTable
    BY <1>0, <1>4 DEF LeaveMemberlist, IInv, TypeOK
  <2>2. ASSUME NEW n \in Node, n # Local PROVE RowStep(n)
    BY <1>4, <2>1, <2>2, SameRow DEF LeaveMemberlist, MemberTable
  <2>3. CASE ~ running
    BY <1>4, <2>2, <2>3, SameRow, LocalIsNode, <2>1 DEF LeaveMemberlist
  <2>4. CASE running
    <3>1. m'[Local] = handle_node_leave(m[Local])
      BY <1>4, <2>1, <2>4, LocalIsNode DEF LeaveMemberlist, MemberTable
    <3>2. /\ ~ IsUp(m'[Local]) /\ (IsKnown(m'[Local]) <=> IsKnown(m[Local]))
          /\ m'[Local].ltime = m[Local].ltime
      BY <1>0, <3>1, LeaveMoves, LocalIsNode
    <3>3. m[Local].ltime \in Nat
      BY <1>0, LocalIsNode DEF Row
    <3> QED
      BY <2>1, <2>2, <3>2, <3>3 DEF RowStep, IsUp, IsKnown
  <2> QED
    BY <2>3, <2>4
<1>5. ASSUME UNCHANGED m, clock' >= clock PROVE clock' >= clock /\ \A n \in Node : RowStep(n)
  BY <1>5, SameRow
<1>6. ASSUME NEW ty \in {"Join", "Leave"}, NEW id \in Subjects, NEW ltime \in Nat,
             NEW prune \in BOOLEAN, ReceiveIntent(ty, id, ltime, prune)
      PROVE  UNCHANGED m /\ clock' >= clock
  BY <1>6, BeginKeeps, LocalIsNode DEF ReceiveIntent
<1>7. ASSUME NEW remote \in 0 .. MaxLTime, MergeClock(remote) PROVE UNCHANGED m /\ clock' >= clock
  BY <1>0, <1>7, BoundsAreNat DEF MergeClock, Witness
<1>8. ASSUME NEW ltime \in refutes, StartRefute(ltime) PROVE UNCHANGED m /\ clock' >= clock
  BY <1>8, BeginKeeps, LocalIsNode DEF StartRefute, IInv, TypeOK
<1>9. CASE JoinContacted
  <2>1. UNCHANGED m /\ clock' >= clock
    BY <1>0, <1>9, BeginKeeps, LocalIsNode DEF JoinContacted
  <2> QED
    BY <1>5, <2>1
<1>10. ASSUME NEW id \in Subjects, NEW prune \in BOOLEAN, ForceLeave(id, prune)
       PROVE  UNCHANGED m /\ clock' >= clock
  BY <1>0, <1>10, BeginKeeps, LocalIsNode DEF ForceLeave
<1>11. CASE LeaveIntent
  <2>1. UNCHANGED m /\ clock' >= clock
    <3>1. leaving.ltime \in Nat
      BY DEF IInv, TypeOK
    <3> QED
      BY <1>0, <1>11, <3>1 DEF LeaveIntent, Witness
  <2> QED
    BY <1>5, <2>1
<1>12. CASE JoinBegin \/ JoinFailed \/ LeaveBegin \/ LeaveStamp \/ LeaveBroadcast \/ LeaveEnd \/ Shutdown
            \/ ShutdownEnd \/ UNCHANGED vars \/ \E n \in Node : NotifyJoinLost(n)
  <2>1. UNCHANGED m /\ clock' >= clock
    BY <1>0, <1>12 DEF JoinBegin, JoinFailed, LeaveBegin, LeaveStamp, LeaveBroadcast, LeaveEnd, Shutdown,
                       ShutdownEnd, vars, NotifyJoinLost
  <2> QED
    BY <1>5, <2>1
<1>13. ASSUME NEW id \in Subjects, NEW ltime \in 0 .. MaxLTime, ReceiveIntent("Join", id, ltime, FALSE)
       PROVE  UNCHANGED m /\ clock' >= clock
  <2>1. ltime \in Nat
    BY BoundsAreNat
  <2> QED
    BY <1>6, <1>13, <2>1
<1>14. ASSUME NEW id \in Subjects, NEW ltime \in 1 .. MaxLTime, NEW prune \in BOOLEAN,
              ReceiveIntent("Leave", id, ltime, prune)
       PROVE  UNCHANGED m /\ clock' >= clock
  <2>1. ltime \in Nat
    BY BoundsAreNat
  <2> QED
    BY <1>6, <1>14, <2>1
<1> QED
  BY <1>1, <1>2, <1>3, <1>4, <1>5, <1>7, <1>8, <1>9, <1>10, <1>11, <1>12, <1>13, <1>14,
     LocalIsNode, Zenon
  DEF Next

\* Only memberlist brings a failed or left member back.
THEOREM NodeNoResurrection == Spec => NoResurrection
<1>1. IInv /\ [Next]_vars => \A n \in Node : m[n].status \in {"Failed", "Left"} /\ IsUp(m'[n])
                                                => n \in ml' \ ml
  BY StepRows DEF RowStep
<1> QED
  BY <1>1, NodeInvariant, PTL DEF Spec, NoResurrection

\* Only a newer leave intent that prunes erases a member that is up.
THEOREM NodeErase == Spec => EraseOnlyOnPrune
<1>1. IInv /\ [Next]_vars
        => \A n \in Node : IsUp(m[n]) /\ ~ IsKnown(m'[n])
             => \E c \in calls \ calls' : c.prune /\ c.id = n /\ c.ltime > m[n].ltime
  BY StepRows DEF RowStep
<1> QED
  BY <1>1, NodeInvariant, PTL DEF Spec, EraseOnlyOnPrune

\* Neither the clock nor the time of a member in the table goes back.
THEOREM NodeTimes == Spec => TimesNeverGoBack
<1>1. IInv /\ [Next]_vars
        => /\ clock' >= clock
           /\ \A n \in Node : IsKnown(m[n]) /\ IsKnown(m'[n]) => m'[n].ltime >= m[n].ltime
  BY StepRows DEF RowStep
<1> QED
  BY <1>1, NodeInvariant, PTL DEF Spec, TimesNeverGoBack
=============================================================================
