--------------------------- MODULE MembersProofs ---------------------------
(***************************************************************************)
(* What every handler of the member table keeps true of the row it         *)
(* rewrites, whatever the row and the Lamport times are.                   *)
(***************************************************************************)
EXTENDS Members, TLAPS

RowOK(r) == r \in Row /\ ListsMatch(r) /\ ViewMatches(r)

\* The row of a node never heard of is consistent.
LEMMA NoRowOK == RowOK(NoRow)
BY DEF RowOK, Row, NoRow, NoIntent, ListsMatch, ViewMatches, Status, IntentType, EventType

\* A memberlist join keeps the lists and the event view in step with the status.
LEMMA JoinOK == ASSUME NEW r, RowOK(r) PROVE RowOK(handle_node_join(r))
BY DEF RowOK, Row, handle_node_join, ListsMatch, ViewMatches, Status, IntentType, EventType

\* So does a memberlist leave.
LEMMA LeaveOK == ASSUME NEW r, RowOK(r) PROVE RowOK(handle_node_leave(r))
<1> USE DEF RowOK, Row, ListsMatch, ViewMatches, Status, IntentType, EventType
<1>1. CASE r.status = "Leaving"
  <2>1. handle_node_leave(r) = [r EXCEPT !.status = "Left", !.left = 1, !.view = "Leave"]
    <3>1. r.left + 1 = 1
      BY <1>1
    <3> QED
      BY <1>1, <3>1 DEF handle_node_leave
  <2>2. r.failed = 0
    BY <1>1
  <2> DEFINE u == [r EXCEPT !.status = "Left", !.left = 1, !.view = "Leave"]
  <2>3. u \in Row /\ u.status = "Left" /\ u.left = 1 /\ u.failed = r.failed /\ u.view = "Leave"
    OBVIOUS
  <2> HIDE DEF u
  <2>4. RowOK(u)
    BY <2>2, <2>3
  <2> QED
    BY <2>1, <2>4 DEF u
<1>2. CASE r.status = "Alive"
  <2>1. handle_node_leave(r) = [r EXCEPT !.status = "Failed", !.failed = 1, !.view = "Failed"]
    <3>1. r.failed + 1 = 1
      BY <1>2
    <3> QED
      BY <1>2, <3>1 DEF handle_node_leave
  <2>2. r.left = 0
    BY <1>2
  <2> DEFINE u == [r EXCEPT !.status = "Failed", !.failed = 1, !.view = "Failed"]
  <2>3. u \in Row /\ u.status = "Failed" /\ u.failed = 1 /\ u.left = r.left /\ u.view = "Failed"
    OBVIOUS
  <2> HIDE DEF u
  <2>4. RowOK(u)
    BY <2>2, <2>3
  <2> QED
    BY <2>1, <2>4 DEF u
<1>3. CASE r.status \notin {"Alive", "Leaving"}
  BY <1>3 DEF handle_node_leave
<1> QED
  BY <1>1, <1>2, <1>3

\* Buffering an intent touches neither list nor status.
LEMMA UpsertOK ==
  ASSUME NEW r, RowOK(r), NEW ty \in IntentType, NEW ltime \in Nat
  PROVE  RowOK(upsert_intent(r, ty, ltime))
BY DEF RowOK, Row, upsert_intent, ListsMatch, ViewMatches, Status, IntentType, EventType

\* So does a join intent.
LEMMA JoinIntentOK ==
  ASSUME NEW r, RowOK(r), NEW ltime \in Nat
  PROVE  RowOK(handle_node_join_intent(r, ltime))
<1>1. RowOK(upsert_intent(r, "Join", ltime))
  BY UpsertOK DEF IntentType
<1>2. RowOK([r EXCEPT !.ltime = ltime,
                      !.status = IF @ = "Leaving" THEN "Alive" ELSE @])
  BY DEF RowOK, Row, ListsMatch, ViewMatches, Status, IntentType, EventType
<1> QED
  BY <1>1, <1>2 DEF handle_node_join_intent

\* A row without an entry in `states` and in the lists is consistent once the
\* application was told of the reap.
LEMMA EraseOK ==
  ASSUME NEW r \in Row, r.failed = 0, r.left = 0
  PROVE  RowOK(erase_node(r))
BY DEF RowOK, Row, erase_node, ListsMatch, ViewMatches, Status, IntentType, EventType

\* A newer leave intent moves a failed member from one list to the other.
LEMMA AcceptLeaveOK ==
  ASSUME NEW r, RowOK(r), IsKnown(r), NEW ltime \in Nat
  PROVE  /\ RowOK(AcceptLeave(r, ltime))
         /\ AcceptLeave(r, ltime).status \in {"Leaving", "Left"}
<1> USE DEF RowOK, Row, ListsMatch, ViewMatches, Status, IntentType, EventType
<1>1. CASE r.status = "Failed"
  <2>1. AcceptLeave(r, ltime) = [r EXCEPT !.ltime = ltime, !.status = "Left",
                                          !.failed = 0, !.left = 1, !.view = "Leave"]
    <3>1. r.left + 1 = 1
      BY <1>1
    <3> QED
      BY <1>1, <3>1 DEF AcceptLeave
  <2> QED
    BY <1>1, <2>1
<1>2. CASE r.status # "Failed"
  <2>1. AcceptLeave(r, ltime) = [r EXCEPT !.ltime = ltime,
                                          !.status = IF @ = "Alive" THEN "Leaving" ELSE @]
    BY <1>2 DEF AcceptLeave
  <2> QED
    BY <1>2, <2>1 DEF IsKnown
<1> QED
  BY <1>1, <1>2

\* A prune erases the member together with its list entry: it only runs on a member
\* that a leave intent has just made leaving or left.
LEMMA PruneOK ==
  ASSUME NEW r, RowOK(r), r.status \in {"Leaving", "Left"}
  PROVE  RowOK(handle_prune(r))
<1>1. [r EXCEPT !.left = 0] \in Row /\ [r EXCEPT !.left = 0].left = 0
  BY DEF RowOK, Row
<1>2. [r EXCEPT !.left = 0].failed = 0
  BY DEF RowOK, Row, ListsMatch
<1> QED
  BY <1>1, <1>2, EraseOK DEF handle_prune

\* A leave intent keeps the row consistent, pruning or not.
LEMMA LeaveIntentOK ==
  ASSUME NEW r, RowOK(r), NEW ltime \in Nat, NEW prune \in BOOLEAN
  PROVE  RowOK(handle_node_leave_intent(r, ltime, prune))
<1>1. CASE ~ IsKnown(r)
  <2>1. RowOK(upsert_intent(r, "Leave", ltime))
    BY UpsertOK DEF IntentType
  <2> QED
    BY <1>1, <2>1 DEF handle_node_leave_intent
<1>2. CASE IsKnown(r)
  BY <1>2, AcceptLeaveOK, PruneOK DEF handle_node_leave_intent
<1> QED
  BY <1>1, <1>2

\* The reaper erases the member whose entry expired: since there is one entry for it
\* and it is in one list, nothing stays behind.
LEMMA ReapFailedOK == ASSUME NEW r, RowOK(r) PROVE RowOK(reap_failed(r))
<1>1. CASE r.failed > 0
  <2>1. /\ [r EXCEPT !.failed = @ - 1] \in Row
        /\ [r EXCEPT !.failed = @ - 1].failed = 0
        /\ [r EXCEPT !.failed = @ - 1].left = 0
    BY <1>1 DEF RowOK, Row, ListsMatch
  <2> QED
    BY <1>1, <2>1, EraseOK DEF reap_failed
<1> QED
  BY <1>1 DEF reap_failed

\* The same for left_members.
LEMMA ReapLeftOK == ASSUME NEW r, RowOK(r) PROVE RowOK(reap_left(r))
<1>1. CASE r.left > 0
  <2>1. /\ [r EXCEPT !.left = @ - 1] \in Row
        /\ [r EXCEPT !.left = @ - 1].left = 0
        /\ [r EXCEPT !.left = @ - 1].failed = 0
    BY <1>1 DEF RowOK, Row, ListsMatch
  <2> QED
    BY <1>1, <2>1, EraseOK DEF reap_left
<1> QED
  BY <1>1 DEF reap_left

\* Forgetting an intent touches neither list nor status.
LEMMA ReapIntentOK == ASSUME NEW r, RowOK(r) PROVE RowOK(reap_intent(r))
BY DEF RowOK, Row, reap_intent, NoIntent, ListsMatch, ViewMatches, IntentType

\* A tick of the reaper, whatever expired.
LEMMA ReapOK ==
  ASSUME NEW r, RowOK(r), NEW failed \in BOOLEAN, NEW left \in BOOLEAN, NEW stale \in BOOLEAN
  PROVE  RowOK(reap(r, failed, left, stale))
<1> DEFINE r1 == IF failed THEN reap_failed(r) ELSE r
           r2 == IF left THEN reap_left(r1) ELSE r1
<1>1. RowOK(r1)
  BY ReapFailedOK
<1>2. RowOK(r2)
  BY <1>1, ReapLeftOK
<1> QED
  BY <1>2, ReapIntentOK DEF reap

-----------------------------------------------------------------------------
(* What the handlers do to the standing of a member and to its times.      *)

\* After a memberlist join the member is up, and its time is the one already known.
LEMMA JoinMoves ==
  ASSUME NEW r \in Row, NEW clock \in Nat, TimesBelow(r, clock)
  PROVE  LET u == handle_node_join(r)
         IN  IsUp(u) /\ TimesBelow(u, clock) /\ (IsKnown(r) => u.ltime = r.ltime)
BY DEF Row, handle_node_join, IsUp, IsKnown, TimesBelow, Status, IntentType

\* After a memberlist leave it is not, and it stays in the table if it was there.
LEMMA LeaveMoves ==
  ASSUME NEW r \in Row, NEW clock \in Nat, TimesBelow(r, clock)
  PROVE  LET u == handle_node_leave(r)
         IN  /\ ~ IsUp(u) /\ (IsKnown(u) <=> IsKnown(r))
             /\ TimesBelow(u, clock) /\ u.ltime = r.ltime
BY DEF Row, handle_node_leave, IsUp, IsKnown, TimesBelow, Status, IntentType

\* A join intent changes neither, and only makes the member's time later.
LEMMA JoinIntentMoves ==
  ASSUME NEW r \in Row, NEW clock \in Nat, TimesBelow(r, clock), NEW ltime \in 0 .. clock - 1
  PROVE  LET u == handle_node_join_intent(r, ltime)
         IN  /\ (IsKnown(u) <=> IsKnown(r)) /\ (IsUp(u) <=> IsUp(r))
             /\ TimesBelow(u, clock) /\ u.ltime >= r.ltime
BY DEF Row, handle_node_join_intent, upsert_intent, IsUp, IsKnown, TimesBelow, Status, IntentType

\* A leave intent takes a known member out of the table only if it is newer and asks
\* for the prune; otherwise it neither brings a member back nor takes one down.
LEMMA LeaveIntentMoves ==
  ASSUME NEW r \in Row, NEW clock \in Nat, TimesBelow(r, clock), NEW ltime \in 0 .. clock - 1,
         NEW prune \in BOOLEAN
  PROVE  LET u == handle_node_leave_intent(r, ltime, prune)
         IN  /\ IsKnown(u) => IsKnown(r) /\ (IsUp(u) <=> IsUp(r)) /\ u.ltime >= r.ltime
             /\ IsKnown(r) /\ ~ IsKnown(u) => prune /\ ltime > r.ltime
             /\ TimesBelow(u, clock)
<1> USE DEF Row, IsUp, IsKnown, TimesBelow, Status, IntentType
<1>1. CASE ~ IsKnown(r)
  BY <1>1 DEF handle_node_leave_intent, upsert_intent
<1>2. CASE IsKnown(r) /\ ltime <= r.ltime
  BY <1>2 DEF handle_node_leave_intent
<1>3. CASE IsKnown(r) /\ ltime > r.ltime
  <2> DEFINE a == AcceptLeave(r, ltime)
  <2>1. /\ a \in Row /\ a.ltime = ltime /\ a.intent = r.intent
        /\ IsKnown(a) /\ (IsUp(a) <=> IsUp(r))
    <3> ltime \in Nat
      OBVIOUS
    <3> HIDE DEF TimesBelow
    <3>1. CASE r.status = "Failed"
      <4>1. a = [r EXCEPT !.ltime = ltime, !.status = "Left",
                          !.failed = 0, !.left = @ + 1, !.view = "Leave"]
        BY <3>1 DEF AcceptLeave
      <4>2. r.left + 1 \in Nat
        OBVIOUS
      <4> HIDE DEF a
      <4> QED
        BY <3>1, <4>1, <4>2 DEF EventType
    <3>2. CASE r.status # "Failed"
      <4>1. a = [r EXCEPT !.ltime = ltime, !.status = IF @ = "Alive" THEN "Leaving" ELSE @]
        BY <3>2 DEF AcceptLeave
      <4> HIDE DEF a
      <4> QED
        BY <1>3, <3>2, <4>1
    <3> QED
      BY <3>1, <3>2
  <2> HIDE DEF a
  <2>2. /\ ~ IsKnown(handle_prune(a)) /\ handle_prune(a).ltime = 0
        /\ handle_prune(a).intent = a.intent
    BY <2>1 DEF handle_prune, erase_node
  <2>3. handle_node_leave_intent(r, ltime, prune) = IF prune THEN handle_prune(a) ELSE a
    BY <1>3 DEF handle_node_leave_intent, a
  <2> QED
    BY <1>3, <2>1, <2>2, <2>3
<1> QED
  BY <1>1, <1>2, <1>3

\* The reaper takes no member out that is up, and changes nothing else of those that stay.
LEMMA ReapMoves ==
  ASSUME NEW r, RowOK(r), NEW clock \in Nat, TimesBelow(r, clock),
         NEW failed \in BOOLEAN, NEW left \in BOOLEAN, NEW stale \in BOOLEAN
  PROVE  LET u == reap(r, failed, left, stale)
         IN  /\ IsKnown(u) => u.status = r.status /\ u.ltime = r.ltime
             /\ IsUp(r) => IsKnown(u)
             /\ TimesBelow(u, clock)
<1> USE DEF RowOK, Row, ListsMatch, IsUp, IsKnown, TimesBelow, Status
<1> DEFINE r1 == IF failed THEN reap_failed(r) ELSE r
           r2 == IF left THEN reap_left(r1) ELSE r1
           Kept(u) == /\ u \in Row
                      /\ IsKnown(u) => u.status = r.status /\ u.ltime = r.ltime
                      /\ IsUp(r) => IsKnown(u)
                      /\ TimesBelow(u, clock)
<1>1. ASSUME NEW u \in Row, Kept(u), ~ IsUp(r) PROVE Kept(erase_node(u))
  <2> DEFINE e == erase_node(u)
  <2>1. e \in Row /\ e.status = "None" /\ e.ltime = 0 /\ e.intent = u.intent
    BY DEF erase_node, EventType
  <2>2. clock > 0 /\ u.intent.ltime < clock
    BY <1>1
  <2>3. Kept(e)
    <3> HIDE DEF e
    <3> QED
      BY <1>1, <2>1, <2>2
  <2> QED
    BY <2>3
<1>2. Kept(r1) /\ (IsUp(r) => r1 = r)
  <2>1. CASE failed /\ r.failed > 0
    <3>1. ~ IsUp(r)
      BY <2>1
    <3>2. Kept([r EXCEPT !.failed = @ - 1])
      BY <2>1
    <3>3. r1 = erase_node([r EXCEPT !.failed = @ - 1])
      BY <2>1 DEF reap_failed
    <3> HIDE DEF r1
    <3> QED
      BY <3>1, <3>2, <3>3, <1>1
  <2> QED
    BY <2>1 DEF reap_failed
<1>3. Kept(r2)
  <2> HIDE DEF r1
  <2>1. CASE left /\ r1.left > 0
    <3>1. ~ IsUp(r)
      BY <2>1, <1>2
    <3>2. Kept([r1 EXCEPT !.left = @ - 1])
      BY <2>1, <1>2
    <3>3. r2 = erase_node([r1 EXCEPT !.left = @ - 1])
      BY <2>1 DEF reap_left
    <3> HIDE DEF r2
    <3> QED
      BY <3>1, <3>2, <3>3, <1>1
  <2> QED
    BY <2>1, <1>2 DEF reap_left
<1>4. Kept(reap_intent(r2))
  <2> HIDE DEF r2
  <2> QED
    BY <1>3 DEF reap_intent, NoIntent, IntentType
<1> QED
  BY <1>3, <1>4 DEF reap
=============================================================================
