---------------------------- MODULE QueryProofs ----------------------------
(***************************************************************************)
(* Queries are handled once, and answers are given once, to the query they *)
(* belong to and only while it runs, for any number of nodes and queries,  *)
(* any size of the ring buffer and any timeouts.                           *)
(***************************************************************************)
EXTENDS Query, TLAPS

\* Everything a node remembers, or is about to remember, was witnessed.
Witnessed ==
  \A n \in Node :
    /\ \A q \in calls[n] : ltime[q] < query_clock[n] /\ stage[q] \in {"called", "sent"}
    /\ \A q \in delivered[n] : ltime[q] < query_clock[n] /\ stage[q] = "sent"

\* The time of q has left the window of the ring buffer of n.
Passed(n, q) == ltime[q] + BufferSize < query_clock[n]

\* A query that was handled is in the ring buffer, or too old to be handled again.
DeliveredKnown == \A n \in Node : \A q \in delivered[n] : IsSeen(n, q) \/ Passed(n, q)

RingInv == RingTypeOK /\ Witnessed /\ DeliveredKnown /\ NoDoubleDelivery /\ NothingOld

\* What is recorded as an answer is what was given to the application.
SeenIsGiven == seen = given

\* Whoever can answer, or has answered, handled the query.
Handled(packet) == packet.answer.query \in delivered[packet.answer.from]
AnswersHandled ==
  /\ \A n \in Node : open[n] \subseteq delivered[n]
  /\ \A packet \in net \cup relays \cup answering : Handled(packet)

AnswerInv == AnswerTypeOK /\ SeenIsGiven /\ AnswersHandled /\ NoDoubleAnswer /\ AnswersMatch

IInv == RingInv /\ AnswerInv

-----------------------------------------------------------------------------
(* Arithmetic of the ring buffer.                                           *)

\* The slot of a time is a slot of the buffer.
LEMMA SlotRange == \A time \in Nat : SlotOf(time) \in Slot
BY QueryAssumption DEF SlotOf, Slot

\* Two times with the same slot are at least the size of the buffer apart.
LEMMA SameSlot ==
  ASSUME NEW s \in Nat, NEW t \in Nat, s < t, SlotOf(s) = SlotOf(t)
  PROVE  s + BufferSize <= t
<1> DEFINE B == BufferSize  k == s \div B  l == t \div B
<1>1. B \in Nat /\ B > 0
  BY QueryAssumption
<1>2. s = B * k + (s % B) /\ t = B * l + (t % B) /\ k \in Int /\ l \in Int
  BY <1>1
<1>3. s % B = t % B /\ s % B \in Int
  BY <1>1 DEF SlotOf
<1> HIDE DEF B, k, l
<1>4. t - s = B * l - B * k /\ B * l - B * k = B * (l - k)
  BY <1>1, <1>2, <1>3
<1>5. l - k >= 1
  <2> SUFFICES ASSUME l - k <= 0 PROVE FALSE
    BY <1>2
  <2>1. B * (l - k) <= 0
    BY <1>1, <1>2
  <2> QED
    BY <2>1, <1>4, <1>2
<1>6. B * (l - k) >= B
  BY <1>1, <1>2, <1>5
<1> QED
  BY <1>4, <1>6, <1>1 DEF B

-----------------------------------------------------------------------------
(* The ring buffer.                                                         *)

\* The initial states satisfy the invariant of the ring buffers.
LEMMA InitRing == Init => RingInv
<1> SUFFICES ASSUME Init PROVE RingInv
  OBVIOUS
<1>1. query_clock \in [Node -> Nat \ {0}] /\ min_time \in [Node -> Nat]
  <2> PICK old \in [Node -> OldClocks \cup {NoSnapshot}] :
             /\ min_time = [n \in Node |-> old[n] + 1]
             /\ query_clock = [n \in Node |-> IF old[n] < 1 THEN 1 ELSE old[n] + 1]
    BY DEF Init
  <2>1. \A n \in Node : old[n] \in OldClocks \/ old[n] = NoSnapshot
    OBVIOUS
  <2>2. \A n \in Node : old[n] \in Nat \/ old[n] = -1
    BY <2>1, QueryAssumption DEF NoSnapshot
  <2> QED
    BY <2>2
<1>2. buffer \in [Node -> [Slot -> [ltime : Nat, ids : SUBSET Query]]]
  BY DEF Init
<1>3. RingTypeOK
  BY <1>1, <1>2 DEF Init, RingTypeOK
<1> QED
  BY <1>3 DEF Init, RingInv, Witnessed, DeliveredKnown, NoDoubleDelivery, NothingOld

\* A step that does not touch the ring buffers, the clocks or the calls keeps it.
LEMMA RingUnchanged ==
  ASSUME RingInv, UNCHANGED <<clockVars, callVars, doneVars>>
  PROVE  RingInv'
BY DEF RingInv, RingTypeOK, Witnessed, DeliveredKnown, NoDoubleDelivery, NothingOld, IsSeen, Passed,
       clockVars, callVars, doneVars

\* So does a step that only raises clocks and moves calls on.
LEMMA RingRaise ==
  ASSUME RingInv, RingTypeOK', Witnessed',
         UNCHANGED <<min_time, buffer, ltime, delivered, again>>,
         \A n \in Node : query_clock[n] <= query_clock'[n]
  PROVE  RingInv'
<1>1. DeliveredKnown'
  <2> SUFFICES ASSUME NEW n \in Node, NEW q \in delivered[n]
               PROVE  (IsSeen(n, q) \/ Passed(n, q))'
    BY DEF DeliveredKnown
  <2>1. CASE IsSeen(n, q)
    BY <2>1 DEF IsSeen
  <2>2. CASE Passed(n, q)
    <3>1. q \in Query /\ ltime[q] \in Nat /\ query_clock[n] \in Nat /\ query_clock'[n] \in Nat
      BY DEF RingInv, RingTypeOK
    <3> QED
      BY <2>2, <3>1, QueryAssumption DEF Passed
  <2> QED
    BY <2>1, <2>2 DEF RingInv, DeliveredKnown
<1> QED
  BY <1>1 DEF RingInv, NoDoubleDelivery, NothingOld

\* What witness returns: a clock that is not lower, and above the time.
LEMMA WitnessRaises ==
  ASSUME NEW clock \in Nat \ {0}, NEW time \in Nat
  PROVE  /\ Witness(clock, time) \in Nat \ {0}
         /\ clock <= Witness(clock, time) /\ time < Witness(clock, time)
BY DEF Witness

\* query_in reads the clock: a query without a time is in no ring buffer and no call.
LEMMA RingQueryIn ==
  ASSUME RingInv, NEW q \in Query, query_in(q)
  PROVE  RingInv'
<1>1. RingTypeOK'
  BY QueryAssumption DEF query_in, RingInv, RingTypeOK, clockVars, doneVars
<1>2. \A n \in Node : \A r \in calls[n] \cup delivered[n] : r \in Query /\ r # q
  BY DEF query_in, RingInv, RingTypeOK, Witnessed
<1>3. \A r \in Query : r # q => ltime'[r] = ltime[r] /\ stage'[r] = stage[r]
  BY DEF query_in, RingInv, RingTypeOK
<1>4. UNCHANGED <<query_clock, min_time, buffer, calls, delivered, again>>
  BY DEF query_in, clockVars, doneVars
<1>5. Witnessed'
  BY <1>2, <1>3, <1>4 DEF RingInv, Witnessed
<1>6. DeliveredKnown'
  BY <1>2, <1>3, <1>4 DEF RingInv, DeliveredKnown, IsSeen, Passed
<1>7. NothingOld'
  BY <1>2, <1>3, <1>4 DEF RingInv, NothingOld
<1> QED
  BY <1>1, <1>4, <1>5, <1>6, <1>7 DEF RingInv, NoDoubleDelivery

\* register_query_response moves a query on that no node handles yet.
LEMMA RingRegister ==
  ASSUME RingInv, NEW q \in Query, NEW online \in Online, register_query_response(q, online)
  PROVE  RingInv'
<1>1. RingTypeOK'
  BY DEF register_query_response, RingInv, RingTypeOK, clockVars, doneVars
<1>2. UNCHANGED <<query_clock, min_time, buffer, calls, ltime, delivered, again>>
  BY DEF register_query_response, clockVars, doneVars
<1>3. Witnessed'
  BY <1>2 DEF register_query_response, RingInv, RingTypeOK, Witnessed
<1>4. \A n \in Node : query_clock[n] <= query_clock'[n]
  BY <1>2 DEF RingInv, RingTypeOK
<1> QED
  BY <1>1, <1>2, <1>3, <1>4, RingRaise

\* A call begins: the time of the query is witnessed.
LEMMA RingBegin ==
  ASSUME RingInv, NEW n \in Node, NEW q \in Query, Begin(n, q),
         \/ stage' = [stage EXCEPT ![q] = "called"] /\ stage[q] = "registered"
         \/ stage' = stage /\ stage[q] = "sent",
         UNCHANGED <<min_time, buffer, pulls, ltime, delivered, again>>
  PROVE  RingInv'
<1>1. query_clock[n] \in Nat \ {0} /\ ltime[q] \in Nat
  BY DEF RingInv, RingTypeOK
<1> DEFINE w == Witness(query_clock[n], ltime[q])
<1>2. w \in Nat \ {0} /\ query_clock[n] <= w /\ ltime[q] < w
  BY <1>1, WitnessRaises
<1>3. query_clock' = [query_clock EXCEPT ![n] = w] /\ calls' = [calls EXCEPT ![n] = @ \cup {q}]
  BY DEF Begin
<1> HIDE DEF w
<1>4. RingTypeOK'
  BY <1>2, <1>3 DEF RingInv, RingTypeOK
<1>5. \A m \in Node : query_clock[m] <= query_clock'[m]
  BY <1>2, <1>3 DEF RingInv, RingTypeOK
<1>6. Witnessed'
  <2> SUFFICES ASSUME NEW m \in Node
               PROVE  /\ \A r \in calls'[m] : /\ ltime[r] < query_clock'[m]
                                              /\ stage'[r] \in {"called", "sent"}
                      /\ \A r \in delivered[m] : ltime[r] < query_clock'[m] /\ stage'[r] = "sent"
    BY DEF Witnessed
  <2>1. query_clock[m] \in Nat /\ query_clock'[m] \in Nat /\ query_clock[m] <= query_clock'[m]
    BY <1>4, <1>5 DEF RingInv, RingTypeOK
  <2>2. \A r \in calls[m] \cup delivered[m] : r \in Query /\ ltime[r] \in Nat
    BY DEF RingInv, RingTypeOK
  <2>3. \A r \in calls[m] \cup delivered[m] : ltime[r] < query_clock'[m]
    <3>1. \A r \in calls[m] \cup delivered[m] : ltime[r] < query_clock[m]
      BY DEF RingInv, Witnessed
    <3> QED
      BY <3>1, <2>1, <2>2
  <2>4. /\ \A r \in Query : stage'[r] = stage[r] \/ (r = q /\ stage[r] = "registered")
        /\ stage'[q] \in {"called", "sent"}
    <3>1. stage \in [Query -> {"idle", "stamped", "registered", "called", "sent"}]
      BY DEF RingInv, RingTypeOK
    <3>2. CASE stage' = [stage EXCEPT ![q] = "called"] /\ stage[q] = "registered"
      BY <3>1, <3>2
    <3>3. CASE stage' = stage /\ stage[q] = "sent"
      BY <3>1, <3>3
    <3> QED
      BY <3>2, <3>3
  <2>6. \A r \in calls[m] : stage'[r] \in {"called", "sent"}
    BY <2>2, <2>4 DEF RingInv, Witnessed
  <2>7. \A r \in delivered[m] : stage'[r] = "sent"
    BY <2>2, <2>4 DEF RingInv, Witnessed
  <2>8. \A r \in calls'[m] : r \in calls[m] \/ (r = q /\ m = n)
    BY <1>3 DEF RingInv, RingTypeOK
  <2>9. m = n => ltime[q] < query_clock'[m]
    BY <1>2, <1>3 DEF RingInv, RingTypeOK
  <2> QED
    BY <2>3, <2>4, <2>6, <2>7, <2>8, <2>9
<1> QED
  BY <1>4, <1>5, <1>6, RingRaise

\* merge_remote_state raises the clock.
LEMMA RingMerge ==
  ASSUME RingInv, NEW n \in Node, NEW time \in pulls[n], merge_remote_state(n, time)
  PROVE  RingInv'
<1>1. query_clock[n] \in Nat \ {0} /\ time \in Nat
  BY DEF RingInv, RingTypeOK
<1> DEFINE w == IF time > 0 THEN Witness(query_clock[n], time - 1) ELSE query_clock[n]
<1>2. w \in Nat \ {0} /\ query_clock[n] <= w
  BY <1>1 DEF Witness
<1>3. query_clock' = [query_clock EXCEPT ![n] = w]
  BY DEF merge_remote_state
<1>4. UNCHANGED <<min_time, buffer, calls, stage, ltime, delivered, again>>
  BY DEF merge_remote_state, callVars, doneVars
<1>5. pulls' \in [Node -> SUBSET Nat]
  BY DEF merge_remote_state, RingInv, RingTypeOK
<1> HIDE DEF w
<1>6. RingTypeOK'
  BY <1>2, <1>3, <1>4, <1>5 DEF RingInv, RingTypeOK
<1>7. \A m \in Node : query_clock[m] <= query_clock'[m]
  BY <1>2, <1>3 DEF RingInv, RingTypeOK
<1>8. Witnessed'
  <2>1. \A m \in Node : \A r \in calls[m] \cup delivered[m] : ltime[r] < query_clock'[m]
    <3> SUFFICES ASSUME NEW m \in Node, NEW r \in calls[m] \cup delivered[m]
                 PROVE  ltime[r] < query_clock'[m]
      OBVIOUS
    <3>1. ltime[r] \in Nat /\ query_clock[m] \in Nat /\ query_clock'[m] \in Nat
      BY <1>6 DEF RingInv, RingTypeOK
    <3>2. ltime[r] < query_clock[m]
      BY DEF RingInv, Witnessed
    <3> QED
      BY <3>1, <3>2, <1>7
  <2> QED
    BY <2>1, <1>4 DEF RingInv, Witnessed
<1> QED
  BY <1>4, <1>6, <1>7, <1>8, RingRaise

\* A query that is neither old nor in the buffer was not handled before.
LEMMA AcceptedIsNew ==
  ASSUME RingInv, NEW n \in Node, NEW q \in Query, ~ IsOld(n, ltime[q]), ~ IsSeen(n, q)
  PROVE  q \notin delivered[n]
<1> SUFFICES ASSUME q \in delivered[n] PROVE FALSE
  OBVIOUS
<1>1. Passed(n, q)
  BY DEF RingInv, DeliveredKnown
<1>2. ltime[q] \in Nat /\ query_clock[n] \in Nat /\ BufferSize \in Nat
  BY QueryAssumption DEF RingInv, RingTypeOK
<1> QED
  BY <1>1, <1>2 DEF Passed, IsOld

\* Accepting q may overwrite its slot: only entries that have left the window go.
LEMMA KnownAfterAccept ==
  ASSUME RingInv, NEW n \in Node, NEW q \in calls[n], ~ IsOld(n, ltime[q]),
         buffer' = [buffer EXCEPT ![n][SlotOf(ltime[q])] = Remember(@, q)],
         UNCHANGED <<query_clock, ltime>>,
         NEW m \in Node, NEW r \in delivered[m]
  PROVE  (IsSeen(m, r) \/ Passed(m, r))'
<1>1. q \in Query /\ r \in Query /\ ltime[q] \in Nat /\ ltime[r] \in Nat
  BY DEF RingInv, RingTypeOK
<1>2. query_clock[m] \in Nat /\ BufferSize \in Nat /\ BufferSize > 0
  BY QueryAssumption DEF RingInv, RingTypeOK
<1> DEFINE i == SlotOf(ltime[q])  j == SlotOf(ltime[r])
<1>3. i \in Slot /\ j \in Slot
  BY <1>1, SlotRange
<1>4. buffer \in [Node -> [Slot -> [ltime : Nat, ids : SUBSET Query]]]
  BY DEF RingInv, RingTypeOK
<1>5. ltime[q] < query_clock[n] /\ ltime[r] < query_clock[m]
  BY DEF RingInv, Witnessed
<1>6. CASE Passed(m, r)
  BY <1>6 DEF Passed
<1>7. CASE IsSeen(m, r)
  <2>1. CASE m # n \/ j # i
    <3>1. buffer'[m][j] = buffer[m][j]
      <4> HIDE DEF i, j
      <4> QED
        BY <2>1, <1>3, <1>4 DEF i
    <3> QED
      BY <3>1, <1>7 DEF IsSeen
  <2>2. CASE m = n /\ j = i /\ ltime[r] = ltime[q]
    <3>1. buffer'[n][i] = Remember(buffer[n][i], q)
      <4> HIDE DEF i, j
      <4> QED
        BY <1>3, <1>4 DEF i
    <3>2. buffer[n][i].ltime = ltime[q] /\ r \in buffer[n][i].ids
      BY <2>2, <1>7 DEF IsSeen
    <3> QED
      BY <2>2, <3>1, <3>2 DEF IsSeen, Remember
  <2>3. CASE m = n /\ j = i /\ ltime[r] < ltime[q]
    <3>1. ltime[r] + BufferSize <= ltime[q]
      BY <2>3, <1>1, SameSlot
    <3> QED
      BY <2>3, <3>1, <1>1, <1>2, <1>5 DEF Passed
  <2>4. CASE m = n /\ j = i /\ ltime[q] < ltime[r]
    <3>1. ltime[q] + BufferSize <= ltime[r]
      BY <2>4, <1>1, SameSlot
    <3>2. IsOld(n, ltime[q])
      BY <2>4, <3>1, <1>1, <1>2, <1>5 DEF IsOld
    <3> QED
      BY <3>2
  <2> QED
    BY <1>1, <2>1, <2>2, <2>3, <2>4
<1> QED
  BY <1>6, <1>7 DEF RingInv, DeliveredKnown

\* handle_query under the lock.
LEMMA RingFinish ==
  ASSUME RingInv, NEW n \in Node, NEW q \in Query, NEW members, Finish(n, q, members)
  PROVE  RingInv'
<1>0. RingTypeOK /\ ltime[q] \in Nat /\ q \in calls[n]
  BY DEF RingInv, RingTypeOK, Finish
<1>1. SlotOf(ltime[q]) \in Slot
  BY <1>0, SlotRange
<1>2. UNCHANGED <<query_clock, min_time, pulls, ltime>>
  BY DEF Finish
<1>3. /\ calls' = [calls EXCEPT ![n] = @ \ {q}]
      /\ stage' = [stage EXCEPT ![q] = "sent"]
  BY DEF Finish
<1>4. \/ /\ ~ IsOld(n, ltime[q]) /\ ~ IsSeen(n, q) /\ again' = again
         /\ buffer' = [buffer EXCEPT ![n][SlotOf(ltime[q])] = Remember(@, q)]
         /\ (delivered' = delivered \/ delivered' = [delivered EXCEPT ![n] = @ \cup {q}])
      \/ UNCHANGED <<buffer, delivered, again>>
  BY AcceptedIsNew DEF Finish, Accept
<1>5. /\ delivered' \in [Node -> SUBSET Query]
      /\ \A m \in Node : \A r \in delivered'[m] :
           \/ r \in delivered[m]
           \/ m = n /\ r = q /\ ~ IsOld(n, ltime[q])
  BY <1>0, <1>4 DEF RingTypeOK
<1>6. buffer' \in [Node -> [Slot -> [ltime : Nat, ids : SUBSET Query]]]
  <2>1. Remember(buffer[n][SlotOf(ltime[q])], q) \in [ltime : Nat, ids : SUBSET Query]
    BY <1>0, <1>1 DEF RingTypeOK, Remember
  <2>2. buffer \in [Node -> [Slot -> [ltime : Nat, ids : SUBSET Query]]]
    BY <1>0 DEF RingTypeOK
  <2>3. CASE buffer' = buffer
    BY <2>2, <2>3
  <2>4. CASE buffer' = [buffer EXCEPT ![n][SlotOf(ltime[q])] = Remember(@, q)]
    BY <2>1, <2>2, <2>4, <1>1
  <2> QED
    BY <1>4, <2>3, <2>4
<1>7. RingTypeOK'
  BY <1>0, <1>2, <1>3, <1>4, <1>5, <1>6 DEF RingTypeOK
<1>8. Witnessed'
  <2>1. \A m \in Node : \A r \in calls'[m] : r \in calls[m]
    BY <1>0, <1>3 DEF RingTypeOK
  <2>2. \A r \in Query : stage'[r] = stage[r] \/ stage'[r] = "sent"
    BY <1>0, <1>3 DEF RingTypeOK
  <2>3. stage'[q] = "sent"
    BY <1>0, <1>3 DEF RingTypeOK
  <2>4. \A m \in Node : \A r \in calls[m] \cup delivered[m] : r \in Query
    BY <1>0 DEF RingTypeOK
  <2> QED
    BY <1>0, <1>2, <1>5, <2>1, <2>2, <2>3, <2>4 DEF RingInv, Witnessed
<1>9. DeliveredKnown'
  <2> SUFFICES ASSUME NEW m \in Node, NEW r \in delivered'[m]
               PROVE  (IsSeen(m, r) \/ Passed(m, r))'
    BY DEF DeliveredKnown
  <2>1. CASE UNCHANGED <<buffer, delivered, again>>
    BY <2>1, <1>2 DEF RingInv, DeliveredKnown, IsSeen, Passed
  <2>2. CASE /\ ~ IsOld(n, ltime[q])
             /\ buffer' = [buffer EXCEPT ![n][SlotOf(ltime[q])] = Remember(@, q)]
    <3>1. CASE r \in delivered[m]
      BY <3>1, <2>2, <1>0, <1>2, KnownAfterAccept
    <3>2. CASE m = n /\ r = q
      <4>1. buffer'[n][SlotOf(ltime[q])] = Remember(buffer[n][SlotOf(ltime[q])], q)
        BY <2>2, <1>0, <1>1 DEF RingTypeOK
      <4> QED
        BY <3>2, <4>1, <1>2 DEF IsSeen, Remember
    <3> QED
      BY <3>1, <3>2, <1>5
  <2> QED
    BY <1>4, <2>1, <2>2
<1>10. NothingOld'
  <2>1. ~ IsOld(n, ltime[q]) => ltime[q] >= min_time[n]
    BY <1>0 DEF IsOld, RingTypeOK
  <2> QED
    BY <1>2, <1>5, <2>1 DEF RingInv, NothingOld
<1>11. NoDoubleDelivery'
  BY <1>4 DEF RingInv, NoDoubleDelivery
<1> QED
  BY <1>7, <1>8, <1>9, <1>10, <1>11 DEF RingInv

-----------------------------------------------------------------------------
(* The answers.                                                             *)

\* The initial states satisfy the invariant of the answers.
LEMMA InitAnswers == Init => AnswerInv
BY DEF Init, AnswerInv, AnswerTypeOK, SeenIsGiven, AnswersHandled, NoDoubleAnswer, AnswersMatch

\* A step that changes nothing of the answers keeps their invariant: queries that were
\* handled stay handled.
LEMMA AnswersUnchanged ==
  ASSUME AnswerInv, UNCHANGED <<timeVars, chanVars, answerVars>>,
         RingTypeOK, \A n \in Node : delivered[n] \subseteq delivered'[n]
  PROVE  AnswerInv'
<1>1. AnswerTypeOK' /\ SeenIsGiven' /\ NoDoubleAnswer'
  BY DEF AnswerInv, AnswerTypeOK, SeenIsGiven, NoDoubleAnswer, timeVars, chanVars, answerVars
<1>2. AnswersMatch'
  BY DEF AnswerInv, AnswerTypeOK, AnswersMatch, chanVars
<1>3. AnswersHandled'
  BY DEF AnswerInv, AnswerTypeOK, AnswersHandled, Handled, Packet, Answer, chanVars, answerVars
<1> QED
  BY <1>1, <1>2, <1>3 DEF AnswerInv

\* So does a step of query_in, of a timer or of close().
LEMMA AnswersTime ==
  ASSUME AnswerInv, UNCHANGED <<seen, queued, answering, given, twice, answerVars, delivered>>,
         registered' \subseteq Query, timers' \subseteq Query,
         expired' \subseteq Query, closed' \subseteq Query,
         capacity' \in [Query -> Nat]
  PROVE  AnswerInv'
BY DEF AnswerInv, AnswerTypeOK, SeenIsGiven, AnswersHandled, Handled, NoDoubleAnswer, AnswersMatch,
       answerVars

\* What a node sends about a query it handled is well formed.
LEMMA SentPackets ==
  ASSUME NEW n \in Node, NEW q \in Query, NEW kind \in Kind, NEW node \in Node,
         NEW members \in SUBSET Node
  PROVE  /\ Direct(n, q, kind) \in Packet
         /\ Wrapped(n, q, kind, node, members) \subseteq Packet
         /\ \A packet \in {Direct(n, q, kind)} \cup Wrapped(n, q, kind, node, members) :
              packet.answer.query = q /\ packet.answer.from = n
BY QueryAssumption DEF Direct, Wrapped, Packet, Answer

\* handle_query under the lock acks and opens what it delivers.
LEMMA AnswersFinish ==
  ASSUME IInv, NEW n \in Node, NEW q \in Query, NEW members \in RelayMembers(n, q),
         Finish(n, q, members)
  PROVE  AnswerInv'
<1>1. UNCHANGED <<timeVars, chanVars>>
  BY DEF Finish
<1>2. CASE UNCHANGED <<delivered, answerVars>>
  BY <1>1, <1>2, AnswersUnchanged DEF IInv, RingInv
<1>3. CASE /\ delivered' = [delivered EXCEPT ![n] = @ \cup {q}]
           /\ open' = [open EXCEPT ![n] = @ \cup {q}]
           /\ net' = IF q \in RequestAck THEN net \cup {Direct(n, q, "ack")} ELSE net
           /\ relays' = IF q \in RequestAck
                        THEN relays \cup Wrapped(n, q, "ack", Origin[q], members)
                        ELSE relays
  <2>1. /\ Direct(n, q, "ack") \in Packet
        /\ Wrapped(n, q, "ack", Origin[q], members) \subseteq Packet
        /\ \A packet \in {Direct(n, q, "ack")} \cup Wrapped(n, q, "ack", Origin[q], members) :
             packet.answer.query = q /\ packet.answer.from = n
    <3>1. Origin[q] \in Node /\ members \in SUBSET Node /\ "ack" \in Kind
      BY QueryAssumption DEF RelayMembers, Kind
    <3> QED
      BY <3>1, SentPackets
  <2>2. delivered \in [Node -> SUBSET Query] /\ open \in [Node -> SUBSET Query]
    BY DEF IInv, RingInv, RingTypeOK, AnswerInv, AnswerTypeOK
  <2>3. net' \subseteq Packet /\ relays' \subseteq Packet
    BY <1>3, <2>1 DEF IInv, AnswerInv, AnswerTypeOK
  <2>4. AnswerTypeOK' /\ SeenIsGiven' /\ NoDoubleAnswer'
    BY <1>1, <1>3, <2>2, <2>3
       DEF IInv, AnswerInv, AnswerTypeOK, SeenIsGiven, NoDoubleAnswer, timeVars, chanVars
  <2>5. q \in delivered'[n] /\ \A m \in Node : delivered[m] \subseteq delivered'[m]
    BY <1>3, <2>2
  <2>6. AnswersMatch'
    BY <1>1, <2>5 DEF IInv, AnswerInv, AnswerTypeOK, AnswersMatch, chanVars
  <2>7. \A m \in Node : open'[m] \subseteq delivered'[m]
    BY <1>3, <2>2 DEF IInv, AnswerInv, AnswersHandled
  <2>8. \A packet \in net \cup relays \cup answering : Handled(packet)'
    BY <2>5 DEF IInv, AnswerInv, AnswerTypeOK, AnswersHandled, Handled, Packet, Answer
  <2>9. \A packet \in {Direct(n, q, "ack")} \cup Wrapped(n, q, "ack", Origin[q], members) :
          Handled(packet)'
    BY <2>1, <2>5 DEF Handled
  <2>10. AnswersHandled'
    BY <1>1, <1>3, <2>7, <2>8, <2>9 DEF AnswersHandled, chanVars
  <2> QED
    BY <2>4, <2>6, <2>10 DEF AnswerInv
<1> QED
  BY <1>2, <1>3 DEF Finish, Accept, answerVars

\* respond() answers for a query that was delivered.
LEMMA AnswersRespond ==
  ASSUME IInv, NEW n \in Node, NEW q \in Query, NEW members \in RelayMembers(n, q),
         NEW tooLarge \in BOOLEAN, respond(n, q, members, tooLarge)
  PROVE  AnswerInv'
<1>1. UNCHANGED <<timeVars, chanVars, delivered>>
  BY DEF respond, doneVars
<1>2. q \in delivered[n]
  BY DEF respond, IInv, AnswerInv, AnswersHandled
<1>3. /\ Direct(n, q, "response") \in Packet
      /\ Wrapped(n, q, "response", n, members) \subseteq Packet
      /\ \A packet \in {Direct(n, q, "response")} \cup Wrapped(n, q, "response", n, members) :
           packet.answer.query = q /\ packet.answer.from = n
  BY SentPackets DEF RelayMembers, Kind
<1>4. /\ net' = net \cup {Direct(n, q, "response")}
      /\ relays' = relays \cup Wrapped(n, q, "response", n, members)
  BY DEF respond
<1>5. open' \in [Node -> SUBSET Query] /\ \A m \in Node : open'[m] \subseteq open[m]
  BY DEF respond, IInv, AnswerInv, AnswerTypeOK
<1>6. AnswerTypeOK' /\ SeenIsGiven' /\ NoDoubleAnswer' /\ AnswersMatch'
  BY <1>1, <1>3, <1>4, <1>5
     DEF IInv, AnswerInv, AnswerTypeOK, SeenIsGiven, NoDoubleAnswer, AnswersMatch, timeVars, chanVars
<1>7. \A packet \in net' \cup relays' \cup answering' : Handled(packet)'
  BY <1>1, <1>2, <1>3, <1>4 DEF IInv, AnswerInv, AnswersHandled, Handled, chanVars
<1>8. AnswersHandled'
  BY <1>1, <1>5, <1>7 DEF IInv, AnswerInv, AnswersHandled
<1> QED
  BY <1>6, <1>8 DEF AnswerInv

\* A relay passes on what was sent.
LEMMA AnswersRelay ==
  ASSUME AnswerInv, NEW packet \in relays, Relay(packet)
  PROVE  AnswerInv'
BY DEF Relay, AnswerInv, AnswerTypeOK, SeenIsGiven, AnswersHandled, Handled, NoDoubleAnswer,
       AnswersMatch, timeVars, chanVars, doneVars

\* The origin takes an answer in hand for the query that it names.
LEMMA AnswersHandle ==
  ASSUME AnswerInv, NEW packet \in net, handle_query_response(packet)
  PROVE  AnswerInv'
<1>1. packet \in Packet /\ Handled(packet)
  BY DEF AnswerInv, AnswerTypeOK, AnswersHandled
<1>2. answering' = answering \cup {packet}
  <2>1. PICK q \in Lookup(packet) : answering' = answering \cup {[packet EXCEPT !.answer.query = q]}
    BY DEF handle_query_response
  <2>2. q = packet.answer.query
    BY DEF Lookup
  <2>3. [packet EXCEPT !.answer.query = q] = packet
    BY <1>1, <2>2 DEF Packet, Answer
  <2> QED
    BY <2>1, <2>3
<1>3. UNCHANGED <<timeVars, seen, capacity, queued, given, twice, answerVars, delivered>>
  BY DEF handle_query_response, doneVars
<1> QED
  BY <1>1, <1>2, <1>3 DEF AnswerInv, AnswerTypeOK, SeenIsGiven, AnswersHandled, Handled,
     NoDoubleAnswer, AnswersMatch, timeVars, answerVars

\* send_ack and send_response give an answer once.
LEMMA AnswersSend ==
  ASSUME AnswerInv, NEW packet \in answering, send(packet)
  PROVE  AnswerInv'
<1> DEFINE ans == packet.answer  q == ans.query  k == ans.kind
<1>1. packet \in Packet /\ Handled(packet)
  BY DEF AnswerInv, AnswerTypeOK, AnswersHandled
<1>2. q \in Query /\ k \in Kind /\ ans.from \in Node /\ q \in delivered[ans.from]
  BY <1>1 DEF Packet, Answer, Handled
<1>3. UNCHANGED <<timeVars, capacity, answerVars, delivered>> /\ answering' = answering \ {packet}
  BY DEF send, doneVars
<1>4. AnswersHandled'
  BY <1>3 DEF AnswerInv, AnswersHandled, Handled, answerVars
<1>5. CASE UNCHANGED <<queued, seen, given, twice>>
  <2>1. AnswerTypeOK' /\ SeenIsGiven' /\ NoDoubleAnswer' /\ AnswersMatch'
    BY <1>3, <1>5 DEF AnswerInv, AnswerTypeOK, SeenIsGiven, NoDoubleAnswer, AnswersMatch, timeVars,
       answerVars
  <2> QED
    BY <2>1, <1>4 DEF AnswerInv
<1>6. CASE IsNew(ans) /\ Push(ans)
  <2>0. AnswerTypeOK /\ seen = given /\ twice = {}
    BY DEF AnswerInv, SeenIsGiven, NoDoubleAnswer
  <2>1. /\ queued' = [queued EXCEPT ![q][k] = @ + 1]
        /\ given' = [given EXCEPT ![q][k] = @ \cup {ans.from}]
        /\ seen' = [seen EXCEPT ![q][k] = @ \cup {ans.from}]
    BY <1>6 DEF Push
  <2>2. twice' = {}
    BY <1>6, <2>0 DEF IsNew, Push
  <2> HIDE DEF ans, q, k
  <2>3. /\ queued' \in [Query -> [Kind -> Nat]]
        /\ given' \in [Query -> [Kind -> SUBSET Node]]
        /\ seen' = given'
    <3>1. queued' \in [Query -> [Kind -> Nat]]
      BY <2>0, <2>1, <1>2 DEF AnswerTypeOK
    <3>2. given' \in [Query -> [Kind -> SUBSET Node]]
      BY <2>0, <2>1, <1>2 DEF AnswerTypeOK
    <3> QED
      BY <3>1, <3>2, <2>0, <2>1
  <2>4. AnswerTypeOK'
    BY <2>0, <2>2, <2>3, <1>3 DEF AnswerTypeOK, timeVars, answerVars
  <2>5. \A r \in Query, j \in Kind : \A n \in given'[r][j] :
          n \in given[r][j] \/ (r = q /\ n = ans.from)
    BY <2>0, <2>1, <1>2 DEF AnswerTypeOK
  <2>6. AnswersMatch'
    BY <2>5, <1>2, <1>3 DEF AnswerInv, AnswersMatch
  <2> QED
    BY <2>2, <2>3, <2>4, <2>6, <1>4 DEF AnswerInv, SeenIsGiven, NoDoubleAnswer
<1> QED
  BY <1>5, <1>6 DEF send

\* The application takes an answer from a channel.
LEMMA AnswersReceive ==
  ASSUME AnswerInv, NEW q \in Query, NEW k \in Kind, Receive(q, k)
  PROVE  AnswerInv'
<1>1. queued' \in [Query -> [Kind -> Nat]]
  <2>1. queued \in [Query -> [Kind -> Nat]] /\ queued[q][k] - 1 \in Nat
    BY DEF Receive, AnswerInv, AnswerTypeOK
  <2> QED
    BY <2>1 DEF Receive
<1> QED
  BY <1>1 DEF Receive, AnswerInv, AnswerTypeOK, SeenIsGiven, AnswersHandled, Handled, NoDoubleAnswer,
     AnswersMatch, timeVars, answerVars, doneVars

-----------------------------------------------------------------------------
(* The theorems.                                                            *)

\* Every step keeps the invariant.
LEMMA NextIInv == IInv /\ [Next]_vars => IInv'
<1> SUFFICES ASSUME IInv, [Next]_vars PROVE IInv'
  OBVIOUS
<1>0. RingInv /\ AnswerInv /\ RingTypeOK /\ AnswerTypeOK
  BY DEF IInv, RingInv, AnswerInv
<1>1. ASSUME NEW q \in Query, query_in(q) PROVE IInv'
  <2>1. \A n \in Node : delivered[n] \subseteq delivered'[n]
    BY <1>1 DEF query_in, doneVars
  <2> QED
    BY <1>0, <1>1, <2>1, RingQueryIn, AnswersUnchanged DEF IInv, query_in
<1>2. ASSUME NEW q \in Query, NEW online \in Online, register_query_response(q, online) PROVE IInv'
  <2>1. /\ registered' \subseteq Query /\ timers' \subseteq Query
        /\ expired' \subseteq Query /\ closed' \subseteq Query
    BY <1>0, <1>2 DEF register_query_response, AnswerTypeOK
  <2>2. capacity' \in [Query -> Nat]
    BY <1>0, <1>2, QueryAssumption DEF register_query_response, AnswerTypeOK
  <2>3. UNCHANGED <<seen, queued, answering, given, twice, answerVars, delivered>>
    BY <1>2 DEF register_query_response, doneVars
  <2> QED
    BY <1>0, <1>2, <2>1, <2>2, <2>3, RingRegister, AnswersTime DEF IInv
<1>3. ASSUME NEW q \in Query, HandleLocally(q) PROVE IInv'
  <2>1. Origin[q] \in Node
    BY QueryAssumption
  <2>2. RingInv'
    BY <1>0, <1>3, <2>1, RingBegin DEF HandleLocally, doneVars
  <2>3. \A n \in Node : delivered[n] \subseteq delivered'[n]
    BY <1>3 DEF HandleLocally, doneVars
  <2> QED
    BY <1>0, <1>3, <2>2, <2>3, AnswersUnchanged DEF IInv, HandleLocally
<1>4. ASSUME NEW n \in Node, NEW q \in Query, notify_message(n, q) PROVE IInv'
  <2>1. RingInv'
    BY <1>0, <1>4, RingBegin DEF notify_message, callVars, doneVars
  <2>2. \A m \in Node : delivered[m] \subseteq delivered'[m]
    BY <1>4 DEF notify_message, doneVars
  <2> QED
    BY <1>0, <1>4, <2>1, <2>2, AnswersUnchanged DEF IInv, notify_message
<1>5. ASSUME NEW n \in Node, NEW q \in Query, NEW members \in RelayMembers(n, q),
             Finish(n, q, members)
      PROVE  IInv'
  BY <1>0, <1>5, RingFinish, AnswersFinish DEF IInv
<1>6. ASSUME NEW n \in Node, NEW q \in Query, NEW members \in RelayMembers(n, q),
             NEW tooLarge \in BOOLEAN, respond(n, q, members, tooLarge)
      PROVE  IInv'
  BY <1>0, <1>6, RingUnchanged, AnswersRespond DEF IInv, respond
<1>7. ASSUME NEW n \in Node, NEW from \in Node, local_state(from, n) PROVE IInv'
  <2>1. RingTypeOK'
    BY <1>0, <1>7 DEF local_state, RingTypeOK, callVars, doneVars
  <2>2. UNCHANGED <<query_clock, min_time, buffer, calls, callVars, doneVars>>
    BY <1>7 DEF local_state
  <2>3. RingInv'
    BY <1>0, <2>1, <2>2 DEF RingInv, Witnessed, DeliveredKnown, NoDoubleDelivery, NothingOld,
       IsSeen, Passed, callVars, doneVars
  <2>4. \A m \in Node : delivered[m] \subseteq delivered'[m]
    BY <2>2 DEF doneVars
  <2> QED
    BY <1>0, <1>7, <2>3, <2>4, AnswersUnchanged DEF IInv, local_state
<1>8. ASSUME NEW n \in Node, NEW time \in pulls[n], merge_remote_state(n, time) PROVE IInv'
  <2>1. \A m \in Node : delivered[m] \subseteq delivered'[m]
    BY <1>8 DEF merge_remote_state, doneVars
  <2> QED
    BY <1>0, <1>8, <2>1, RingMerge, AnswersUnchanged DEF IInv, merge_remote_state
<1>9. ASSUME NEW packet \in relays, Relay(packet) PROVE IInv'
  BY <1>0, <1>9, RingUnchanged, AnswersRelay DEF IInv, Relay
<1>10. ASSUME NEW packet \in net, handle_query_response(packet) PROVE IInv'
  BY <1>0, <1>10, RingUnchanged, AnswersHandle DEF IInv, handle_query_response
<1>11. ASSUME NEW packet \in answering, send(packet) PROVE IInv'
  BY <1>0, <1>11, RingUnchanged, AnswersSend DEF IInv, send
<1>12. ASSUME NEW q \in Query, NEW k \in Kind, Receive(q, k) PROVE IInv'
  BY <1>0, <1>12, RingUnchanged, AnswersReceive DEF IInv, Receive
<1>13. ASSUME NEW q \in Query, Expire(q) \/ Timer(q) \/ close(q) PROVE IInv'
  <2>1. UNCHANGED <<clockVars, callVars, chanVars, answerVars, doneVars>>
    BY <1>13 DEF Expire, Timer, close
  <2>2. /\ registered' \subseteq Query /\ timers' \subseteq Query
        /\ expired' \subseteq Query /\ closed' \subseteq Query
    BY <1>0, <1>13 DEF Expire, Timer, close, SameKey, AnswerTypeOK
  <2>3. capacity' \in [Query -> Nat]
    BY <1>0, <2>1 DEF AnswerTypeOK, chanVars
  <2>4. UNCHANGED <<seen, queued, answering, given, twice, answerVars, delivered>>
    BY <2>1 DEF chanVars, doneVars
  <2>5. AnswerInv'
    BY <1>0, <2>2, <2>3, <2>4, AnswersTime
  <2> QED
    BY <1>0, <2>1, <2>5, RingUnchanged DEF IInv
<1>14. CASE UNCHANGED vars
  <2>1. \A m \in Node : delivered[m] \subseteq delivered'[m]
    BY <1>14 DEF vars, doneVars
  <2> QED
    BY <1>0, <1>14, <2>1, RingUnchanged, AnswersUnchanged DEF IInv, vars
<1> QED
  BY <1>1, <1>2, <1>3, <1>4, <1>5, <1>6, <1>7, <1>8, <1>9, <1>10, <1>11, <1>12, <1>13, <1>14, Zenon
     DEF Next

\* The invariant holds in every reachable state.
THEOREM QueryInvariant == Spec => []IInv
<1>1. Init => IInv
  BY InitRing, InitAnswers DEF IInv
<1> QED
  BY <1>1, NextIInv, PTL DEF Spec

\* The variables keep their types.
THEOREM QueryTypes == Spec => []TypeOK
BY QueryInvariant, PTL DEF IInv, RingInv, AnswerInv, TypeOK

\* handle_query never gives an application a query twice.
THEOREM QueriesOnce == Spec => []NoDoubleDelivery
BY QueryInvariant, PTL DEF IInv, RingInv

\* handle_query never gives it a query that is older than the snapshot.
THEOREM QueriesNotOld == Spec => []NothingOld
BY QueryInvariant, PTL DEF IInv, RingInv

\* A QueryResponse never gives the application two answers of a kind of one node.
THEOREM AnswersOnce == Spec => []NoDoubleAnswer
BY QueryInvariant, PTL DEF IInv, AnswerInv

\* It only gives it answers of nodes that handled its query.
THEOREM AnswersBelong == Spec => []AnswersMatch
BY QueryInvariant, PTL DEF IInv, AnswerInv

\* After close() and after the timer it gives it nothing.
THEOREM ClosedIsClosed == Spec => NothingAfterClose
<1> DEFINE Quiet == \A q \in closed : given'[q] = given[q]
<1>1. IInv /\ [Next]_vars => [Quiet]_vars
  <2> SUFFICES ASSUME IInv, [Next]_vars PROVE Quiet
    OBVIOUS
  <2>0. AnswerTypeOK
    BY DEF IInv, AnswerInv
  <2>1. CASE given' = given
    BY <2>1
  <2>2. ASSUME NEW packet \in answering, send(packet), given' # given PROVE Quiet
    <3>1. IsNew(packet.answer) /\ Push(packet.answer)
      BY <2>2 DEF send
    <3>2. packet.answer.query \notin closed
      BY <3>1 DEF IsNew
    <3>3. \A q \in Query : q # packet.answer.query => given'[q] = given[q]
      BY <2>0, <3>1 DEF Push, AnswerTypeOK
    <3> QED
      BY <2>0, <3>2, <3>3 DEF AnswerTypeOK
  <2>3. \/ given' = given
        \/ \E packet \in answering : send(packet)
    BY DEF Next, vars, chanVars, query_in, HandleLocally, Expire, Timer, close,
       register_query_response, Receive, notify_message, Finish, respond, local_state,
       merge_remote_state, Relay, handle_query_response
  <2> QED
    BY <2>1, <2>2, <2>3
<1> QED
  BY <1>1, QueryInvariant, PTL DEF Spec, NothingAfterClose
=============================================================================
