------------------------------ MODULE Members ------------------------------
(***************************************************************************)
(* The member table of one Serf instance (`Members` in types/member.rs)    *)
(* and the handlers of serf/base.rs that rewrite it under the `members`    *)
(* write lock.  A handler is about one node: it is an operator on the row  *)
(* of the table for that node, and the single-node and the cluster         *)
(* specifications share it.                                                *)
(*                                                                         *)
(* The row r of node n is                                                  *)
(*   status   the MemberStatus of states[n]; "None" means that states has  *)
(*            no entry for n (the code uses MemberStatus::None the same    *)
(*            way, and never stores it)                                    *)
(*   ltime    states[n].status_time, 0 when there is no entry              *)
(*   failed,  how many entries of failed_members (left_members) are about  *)
(*   left     n: the lists are read as multisets, because their order is   *)
(*            only seen by a random choice and by a set conversion         *)
(*   intent   recent_intents[n], NoIntent when there is no entry           *)
(*   view     the last membership event sent to the application about n    *)
(* Wall-clock times (leave_time, wall_time) are not kept: the reaper may   *)
(* find any entry expired.                                                 *)
(***************************************************************************)
EXTENDS Integers, FiniteSets

CONSTANT Node                     \* the node identifiers

\* The lists of a table have lengths.
ASSUME NodeFinite == IsFiniteSet(Node)

Status     == {"None", "Alive", "Leaving", "Left", "Failed"}
IntentType == {"None", "Join", "Leave"}
EventType  == {"None", "Join", "Leave", "Failed", "Reap"}

Row == [status : Status, ltime : Nat, failed : Nat, left : Nat,
        intent : [ty : IntentType, ltime : Nat], view : EventType]

MemberTable == [Node -> Row]

NoIntent == [ty |-> "None", ltime |-> 0]

NoRow == [status |-> "None", ltime |-> 0, failed |-> 0, left |-> 0,
          intent |-> NoIntent, view |-> "None"]

EmptyTable == [n \in Node |-> NoRow]

IsKnown(r) == r.status # "None"

\* The statuses of a member that memberlist holds alive.
IsUp(r) == r.status \in {"Alive", "Leaving"}

\* The keys of `states`.
Known(m) == {n \in Node : IsKnown(m[n])}

\* The entries of failed_members and of left_members.
FailedEntries(m) == UNION {{n} \X (1 .. m[n].failed) : n \in Node}
LeftEntries(m)   == UNION {{n} \X (1 .. m[n].left) : n \in Node}

\* LamportClock::witness, as one atomic step (see LamportClock.tla).
Witness(clock, ltime) == IF ltime < clock THEN clock ELSE ltime + 1

-----------------------------------------------------------------------------
(* Memberlist callbacks.                                                   *)

\* Mutants of handle_node_join: forgets left_members, and keeps the old status.
JoinKeepsLeft(r) ==
  IF IsKnown(r)
  THEN [r EXCEPT !.status = "Alive", !.failed = 0, !.view = "Join"]
  ELSE [r EXCEPT !.status = "Alive", !.ltime = r.intent.ltime, !.view = "Join"]
JoinKeepsStatus(r) ==
  IF IsKnown(r)
  THEN [r EXCEPT !.failed = 0, !.left = 0]
  ELSE [r EXCEPT !.status = "Alive", !.ltime = r.intent.ltime, !.view = "Join"]

\* A known member becomes alive again with its old status_time, and leaves the
\* failed and left lists; an unknown one starts from its buffered intent.
handle_node_join(r) ==
  CASE r.status \in {"Failed", "Left"} ->
         [r EXCEPT !.status = "Alive", !.failed = 0, !.left = 0, !.view = "Join"]
    [] r.status \in {"Alive", "Leaving"} ->
         [r EXCEPT !.status = "Alive", !.view = "Join"]
    [] OTHER ->
         [r EXCEPT !.status = IF r.intent.ty = "Leave" THEN "Leaving" ELSE "Alive",
                   !.ltime  = r.intent.ltime,
                   !.view   = "Join"]

\* Memberlist lost the node: a leaving member has left, an alive one failed;
\* any other status is logged as a bad state and left alone.
handle_node_leave(r) ==
  CASE r.status = "Leaving" ->
         [r EXCEPT !.status = "Left", !.left = @ + 1, !.view = "Leave"]
    [] r.status = "Alive" ->
         [r EXCEPT !.status = "Failed", !.failed = @ + 1, !.view = "Failed"]
    [] OTHER -> r

-----------------------------------------------------------------------------
(* Join and leave intents.                                                 *)

\* What the intent handlers return: whether the intent is newer than what is known
\* of the node, by its status_time or, when it is unknown, by its buffered intent.
IsNews(r, ltime) ==
  IF IsKnown(r)
  THEN ltime > r.ltime
  ELSE r.intent.ty = "None" \/ ltime > r.intent.ltime

upsert_intent(r, ty, ltime) ==
  IF IsNews(r, ltime) THEN [r EXCEPT !.intent = [ty |-> ty, ltime |-> ltime]] ELSE r

\* Mutant of handle_node_join_intent: makes every member alive, not only a leaving one.
JoinIntentRevives(r, ltime) ==
  IF ~ IsKnown(r) THEN upsert_intent(r, "Join", ltime)
  ELSE IF ltime <= r.ltime THEN r
  ELSE [r EXCEPT !.ltime = ltime, !.status = "Alive"]

handle_node_join_intent(r, ltime) ==
  IF ~ IsKnown(r) THEN upsert_intent(r, "Join", ltime)
  ELSE IF ltime <= r.ltime THEN r
  ELSE [r EXCEPT !.ltime = ltime, !.status = IF @ = "Leaving" THEN "Alive" ELSE @]

\* Takes the node out of `states`; the caller has dealt with the lists.
erase_node(r) == [r EXCEPT !.status = "None", !.ltime = 0, !.view = "Reap"]

handle_prune(r) ==
  erase_node(IF r.status \in {"Leaving", "Left"} THEN [r EXCEPT !.left = 0] ELSE r)

\* Mutant of AcceptLeave: the forced leave of a failed member sends no event.
AcceptLeaveSilent(r, ltime) ==
  IF r.status = "Failed"
  THEN [r EXCEPT !.ltime = ltime, !.status = "Left", !.failed = 0, !.left = @ + 1]
  ELSE [r EXCEPT !.ltime = ltime, !.status = IF @ = "Alive" THEN "Leaving" ELSE @]

\* The transition a newer leave intent makes.  (The code's arms for the statuses
\* None and Unknown are dead: no handler ever stores them.)
AcceptLeave(r, ltime) ==
  IF r.status = "Failed"
  THEN [r EXCEPT !.ltime = ltime, !.status = "Left",
                 !.failed = 0, !.left = @ + 1, !.view = "Leave"]
  ELSE [r EXCEPT !.ltime = ltime, !.status = IF @ = "Alive" THEN "Leaving" ELSE @]

\* A leave intent that the local node does not refute.
handle_node_leave_intent(r, ltime, prune) ==
  IF ~ IsKnown(r) THEN upsert_intent(r, "Leave", ltime)
  ELSE IF ltime <= r.ltime THEN r
  ELSE IF prune THEN handle_prune(AcceptLeave(r, ltime)) ELSE AcceptLeave(r, ltime)

-----------------------------------------------------------------------------
(* The reaper.                                                             *)

\* One pass of reap! over a list finds the entry of this node expired.
reap_failed(r) == IF r.failed > 0 THEN erase_node([r EXCEPT !.failed = @ - 1]) ELSE r
reap_left(r)   == IF r.left > 0 THEN erase_node([r EXCEPT !.left = @ - 1]) ELSE r
reap_intent(r) == [r EXCEPT !.intent = NoIntent]

\* The two passes and the sweep of the intents, in the order of a tick; each flag says
\* that the time of the entry is up.
reap(r, failed, left, stale) ==
  LET r1 == IF failed THEN reap_failed(r) ELSE r
      r2 == IF left THEN reap_left(r1) ELSE r1
  IN  IF stale THEN reap_intent(r2) ELSE r2

\* Serf::has_alive_members, for the instance of node self.
has_alive_members(m, self) == \E n \in Node \ {self} : m[n].status = "Alive"

-----------------------------------------------------------------------------
(* What the handlers keep true of a row.                                   *)

\* failed_members holds exactly one entry for a failed member and none for any other,
\* left_members exactly one for a member that left and none for any other: no handler
\* leaves a stale entry, forgets one, or pushes a second one.
ListsMatch(r) == /\ r.failed = IF r.status = "Failed" THEN 1 ELSE 0
                 /\ r.left   = IF r.status = "Left" THEN 1 ELSE 0

\* An application that replays the membership events it received, and only them,
\* ends with the status of the table (it cannot see an intent to leave).
ViewMatches(r) ==
  r.status \in CASE r.view = "Join"   -> {"Alive", "Leaving"}
                 [] r.view = "Leave"  -> {"Left"}
                 [] r.view = "Failed" -> {"Failed"}
                 [] OTHER             -> {"None"}

\* Every Lamport time in the row was witnessed: it is below the clock.
TimesBelow(r, clock) == r.ltime < clock /\ r.intent.ltime < clock
=============================================================================
