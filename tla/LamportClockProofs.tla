------------------------- MODULE LamportClockProofs -------------------------
(***************************************************************************)
(* For any number of threads and any width of the counter, the load and    *)
(* swap loops of LamportClock implement the atomic clock, provided that    *)
(* no message carries the highest time the counter can hold.               *)
(***************************************************************************)
EXTENDS LamportClock, TLAPS

\* A thread only tries the swap for a time that its load found not to be old.
CasIsNew == \A t \in Thread : pc[t] = "cas" => current[t] <= time[t]

IInv == TypeOK /\ CasIsNew /\ AtLeastOneAhead

\* The initial state satisfies the invariant.
LEMMA InitIInv == Init => IInv
BY WidthAssumption, BelowWidth DEF Init, IInv, TypeOK, CasIsNew, AtLeastOneAhead

\* The modulus does nothing below the width.
LEMMA NoWrap == \A v \in Nat : v < Width => v % Width = v
BY WidthAssumption

\* One step of any thread keeps the invariant.
LEMMA StepIInv ==
  ASSUME MaxTime + 1 < Width, IInv, [Next]_vars
  PROVE  IInv'
<1> USE WidthAssumption, BelowWidth DEF IInv, TypeOK, CasIsNew, AtLeastOneAhead
<1>1. ASSUME NEW t \in Thread, increment(t) PROVE IInv'
  <2>1. value' = value + 1 BY <1>1, NoWrap DEF increment
  <2> QED BY <1>1, <2>1 DEF increment
<1>2. ASSUME NEW t \in Thread, NEW new \in 0 .. MaxTime, witness(t, new) PROVE IInv'
  BY <1>2 DEF witness
<1>3. ASSUME NEW t \in Thread, LoadOld(t) PROVE IInv'
  BY <1>3 DEF LoadOld, Return
<1>4. ASSUME NEW t \in Thread, LoadNew(t) PROVE IInv'
  BY <1>4 DEF LoadNew
<1>5. ASSUME NEW t \in Thread, CasOk(t) PROVE IInv'
  <2>1. value' = time[t] + 1 BY <1>5, NoWrap DEF CasOk
  <2> QED BY <1>5, <2>1 DEF CasOk, Return
<1>6. ASSUME NEW t \in Thread, CasFail(t) PROVE IInv'
  BY <1>6 DEF CasFail
<1>7. CASE UNCHANGED vars BY <1>7 DEF vars
<1> QED BY <1>1, <1>2, <1>3, <1>4, <1>5, <1>6, <1>7 DEF Next

\* Every time given to a finished LamportClock::witness stays below the clock, for any
\* number of threads, as long as no message carries the counter's highest value.
THEOREM ClockAtLeastOneAhead ==
  ASSUME MaxTime + 1 < Width
  PROVE  Spec => [](TypeOK /\ AtLeastOneAhead)
<1>1. Init => IInv BY InitIInv
<1>2. IInv /\ [Next]_vars => IInv' BY StepIInv
<1>3. IInv => TypeOK /\ AtLeastOneAhead BY DEF IInv
<1> QED BY <1>1, <1>2, <1>3, PTL DEF Spec

\* LamportClock's atomic operations refine the one-step clock that the other modules
\* use: a load that finds an old time and a swap that succeeds are the witness's step.
THEOREM ClockImplementsAtomic ==
  ASSUME MaxTime + 1 < Width
  PROVE  Spec => AtomicSpec
<1> USE WidthAssumption, BelowWidth
<1>1. Init => Atomic!Init BY DEF Init, Atomic!Init
<1>2. ASSUME IInv, [Next]_vars PROVE [Atomic!Next]_<<value, witnessed>>
  <2> USE <1>2 DEF IInv, TypeOK, CasIsNew, Atomic!Next, Atomic!Witness
  <2>1. ASSUME NEW t \in Thread, increment(t) PROVE Atomic!Next
    <3>1. value' = value + 1 BY <2>1, NoWrap DEF increment
    <3> QED BY <2>1, <3>1 DEF increment, Atomic!Increment
  <2>2. ASSUME NEW t \in Thread, NEW new \in 0 .. MaxTime, witness(t, new)
        PROVE  UNCHANGED <<value, witnessed>>
    BY <2>2 DEF witness
  <2>3. ASSUME NEW t \in Thread, LoadOld(t) PROVE Atomic!Next
    <3>1. Atomic!Witness(time[t]) BY <2>3 DEF LoadOld, Return
    <3> QED BY <3>1
  <2>4. ASSUME NEW t \in Thread, LoadNew(t) PROVE UNCHANGED <<value, witnessed>>
    BY <2>4 DEF LoadNew
  <2>5. ASSUME NEW t \in Thread, CasOk(t) PROVE Atomic!Next
    <3>1. value' = time[t] + 1 BY <2>5, NoWrap DEF CasOk
    <3>2. Atomic!Witness(time[t]) BY <2>5, <3>1 DEF CasOk, Return
    <3> QED BY <3>2
  <2>6. ASSUME NEW t \in Thread, CasFail(t) PROVE UNCHANGED <<value, witnessed>>
    BY <2>6 DEF CasFail
  <2>7. CASE UNCHANGED vars BY <2>7 DEF vars
  <2> QED BY <2>1, <2>2, <2>3, <2>4, <2>5, <2>6, <2>7 DEF Next
<1>3. Init => IInv BY InitIInv
<1>4. IInv /\ [Next]_vars => IInv' BY StepIInv
<1> QED BY <1>1, <1>2, <1>3, <1>4, PTL DEF Spec, AtomicSpec, Atomic!Spec
=============================================================================
