---------------------------- MODULE AccountHold ----------------------------
(***************************************************************************)
(* What the usage-limit cooldown promises, without its goroutines, table   *)
(* and HTTP calls: a hold placed on an auth file lasts until the latest    *)
(* reset time reported for it, and is lifted no sooner.                    *)
(***************************************************************************)
EXTENDS Naturals

CONSTANTS Files, MaxTime

VARIABLES
    now,    \* the clock
    until   \* per file, when its hold ends; 0 when it has none

vars == <<now, until>>

Init == now = 0 /\ until = [f \in Files |-> 0]

\* A hold is placed, or prolonged; never shortened.
Hold(f, t) ==
    /\ until' = [until EXCEPT ![f] = IF @ >= t THEN @ ELSE t]
    /\ UNCHANGED now

Lift(f) ==
    /\ until[f] \in 1..now
    /\ until' = [until EXCEPT ![f] = 0]
    /\ UNCHANGED now

Clock == now' = now + 1 /\ UNCHANGED until

Next ==
    \/ \E f \in Files, t \in 1..MaxTime : Hold(f, t)
    \/ \E f \in Files : Lift(f)
    \/ Clock

Spec == Init /\ [][Next]_vars
=============================================================================
