---------------------------- MODULE MCPanelSession ----------------------------
(***************************************************************************)
(* TLC's instance of the panel's session and of what it knows of its host. *)
(* The modules share no state; a behaviour uses one of them, so that one   *)
(* run explores each of them in full.                                      *)
(***************************************************************************)
EXTENDS PanelSession, FeatureAvailability

VARIABLE part    \* the part of the panel this behaviour uses

Init ==
    /\ part \in {"session", "features"}
    /\ SessionInit /\ AvailInit

SessionPart == part = "session" /\ SessionNext /\ UNCHANGED <<part, availVars>>
FeaturesPart == part = "features" /\ AvailNext /\ UNCHANGED <<part, sessionVars>>

Next == SessionPart \/ FeaturesPart

vars == <<part, sessionVars, availVars>>

\* The requests of the session are answered.
Spec == Init /\ [][Next]_vars /\ WF_sessionVars(part = "session" /\ SessionAnswers)

\* The state of both parts has its type.
TypeOK == SessionTypeOK /\ AvailTypeOK
=============================================================================
