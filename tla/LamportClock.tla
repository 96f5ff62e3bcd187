---------------------------- MODULE LamportClock ----------------------------
(***************************************************************************)
(* LamportClock of types/clock.rs: an AtomicU64 shared by threads that     *)
(* increment it (one fetch_add) and that witness times (a load, a test and *)
(* a compare_exchange_weak, in a loop).  compare_exchange_weak may fail    *)
(* although the value did not change.  Arithmetic is modulo Width, as in a *)
(* release build.                                                          *)
(***************************************************************************)
EXTENDS Integers

CONSTANTS Thread,
          Width,        \* 2^64 in the code
          MaxTime,      \* the highest time a message carries
          MaxValue      \* bound: increments stop at this value

ASSUME WidthAssumption == Width \in Nat \ {0} /\ MaxTime \in Nat /\ MaxValue \in Nat
ASSUME BelowWidth == MaxTime < Width /\ MaxValue < Width

VARIABLES value,        \* the AtomicU64
          witnessed,    \* the highest time given to a witness that returned, or -1
          pc, time, current     \* of each thread: where witness is, its argument, its load

vars == <<value, witnessed, pc, time, current>>

TypeOK ==
  /\ value \in 0 .. Width - 1
  /\ witnessed \in -1 .. MaxTime
  /\ pc \in [Thread -> {"idle", "load", "cas"}]
  /\ time \in [Thread -> 0 .. MaxTime]
  /\ current \in [Thread -> 0 .. Width - 1]

Init ==
  /\ value = 0
  /\ witnessed = -1
  /\ pc = [t \in Thread |-> "idle"]
  /\ time = [t \in Thread |-> 0]
  /\ current = [t \in Thread |-> 0]

increment(t) ==
  /\ pc[t] = "idle"
  /\ value < MaxValue
  /\ value' = (value + 1) % Width
  /\ UNCHANGED <<witnessed, pc, time, current>>

witness(t, new) ==
  /\ pc[t] = "idle"
  /\ pc' = [pc EXCEPT ![t] = "load"]
  /\ time' = [time EXCEPT ![t] = new]
  /\ UNCHANGED <<value, witnessed, current>>

\* The thread's witness returns.
Return(t) ==
  /\ pc' = [pc EXCEPT ![t] = "idle"]
  /\ witnessed' = IF time[t] < witnessed THEN witnessed ELSE time[t]

\* The other value is old.
LoadOld(t) ==
  /\ pc[t] = "load"
  /\ time[t] < value
  /\ Return(t)
  /\ UNCHANGED <<value, time, current>>

LoadNew(t) ==
  /\ pc[t] = "load"
  /\ ~ (time[t] < value)
  /\ current' = [current EXCEPT ![t] = value]
  /\ pc' = [pc EXCEPT ![t] = "cas"]
  /\ UNCHANGED <<value, witnessed, time>>

\* Mutant of CasOk: a store instead of a compare and exchange.
CasOkStores(t) ==
  /\ pc[t] = "cas"
  /\ value' = (time[t] + 1) % Width
  /\ Return(t)
  /\ UNCHANGED <<time, current>>

CasOk(t) ==
  /\ pc[t] = "cas"
  /\ value = current[t]
  /\ value' = (time[t] + 1) % Width
  /\ Return(t)
  /\ UNCHANGED <<time, current>>

\* Mutant of CasFail: retries with the value it loaded before.
CasFailNoReload(t) ==
  /\ pc[t] = "cas"
  /\ UNCHANGED vars

CasFail(t) ==
  /\ pc[t] = "cas"
  /\ pc' = [pc EXCEPT ![t] = "load"]
  /\ UNCHANGED <<value, witnessed, time, current>>

Next ==
  \E t \in Thread :
    \/ increment(t)
    \/ \E new \in 0 .. MaxTime : witness(t, new)
    \/ LoadOld(t) \/ LoadNew(t) \/ CasOk(t) \/ CasFail(t)

Spec == Init /\ [][Next]_vars

\* A thread in witness keeps running, and a compare_exchange_weak that can succeed again
\* and again does so in the end.
Fairness ==
  \A t \in Thread : /\ WF_vars(LoadOld(t) \/ LoadNew(t) \/ CasFail(t))
                    /\ SF_vars(CasOk(t))

FairSpec == Spec /\ Fairness

-----------------------------------------------------------------------------
\* "Ensure that our local clock is at least one ahead": every time that a finished
\* witness was given is below the clock, whatever ran between its load and its swap.
AtLeastOneAhead == witnessed < value

\* The threads' loads and swaps implement the atomic clock that the rest of Serf uses.
Atomic == INSTANCE AtomicClock WITH Time <- 0 .. MaxTime
AtomicSpec == Atomic!Spec

\* witness returns although other threads keep moving the clock under it: each of them
\* brings the clock closer to being ahead.
WitnessReturns == \A t \in Thread : pc[t] = "load" ~> pc[t] = "idle"
=============================================================================
