------------------------------ MODULE MCTypes ------------------------------
(***************************************************************************)
(* The types of serf-core/src/types that have an algorithm of their own    *)
(* and share no state: the Lamport clock, the message encoding and the     *)
(* network coordinates.  A behaviour is one of one of them.                *)
(***************************************************************************)
EXTENDS LamportClock, Wire, Coordinates

VARIABLE part

typesVars == <<part, vars, wireVars, coordVars>>

TypesInit ==
  /\ part \in {"clock", "wire", "coordinate"}
  /\ Init /\ CoordInit
  /\ WireInit
  /\ part # "wire" => /\ ty = "Join" /\ around = "none"
                      /\ msg = CHOOSE m \in Messages("Join") : TRUE

TypesNext ==
  \/ part = "clock" /\ Next /\ UNCHANGED <<part, wireVars, coordVars>>
  \/ part = "wire" /\ WireNext /\ UNCHANGED <<part, vars, coordVars>>
  \/ part = "coordinate" /\ CoordNext /\ UNCHANGED <<part, vars, wireVars>>

\* The fairness is that of the clock: the other properties are invariants.
TypesSpec == TypesInit /\ [][TypesNext]_typesVars /\ Fairness
=============================================================================
