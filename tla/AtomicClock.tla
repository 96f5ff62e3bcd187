---------------------------- MODULE AtomicClock ----------------------------
(***************************************************************************)
(* What LamportClock promises to its callers: a counter that an increment  *)
(* raises by one and that a witness(t) raises, in one step, above t.       *)
(***************************************************************************)
EXTENDS Integers

CONSTANT Time           \* the times that messages carry

VARIABLES value,        \* the clock
          witnessed     \* the highest time given to a witness that returned, or -1

Init == value = 0 /\ witnessed = -1

Increment == value' = value + 1 /\ UNCHANGED witnessed

Witness(time) ==
  /\ value' = IF time < value THEN value ELSE time + 1
  /\ witnessed' = IF time < witnessed THEN witnessed ELSE time

Next == Increment \/ \E time \in Time : Witness(time)

Spec == Init /\ [][Next]_<<value, witnessed>>
=============================================================================
