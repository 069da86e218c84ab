-------------------------- MODULE MCCodexInspection --------------------------
(***************************************************************************)
(* A small instance of CodexInspection for TLC: the accounts share one     *)
(* auth file, and their probes may disagree on it.                         *)
(***************************************************************************)
EXTENDS CodexInspection

Shared == [a \in Accounts |-> CHOOSE f \in Files : TRUE]

QuotaOrDead ==
    [a \in Accounts |-> IF a = 1 THEN {"delete", "disable"} ELSE {"disable", "enable"}]

\* Every account is there and enabled at first; other clients bring about the
\* other states of CPA.
FullList == Init /\ listed = Accounts /\ disabled = {}

FromFullList == FullList /\ [][Next]_vars /\ Fairness
=============================================================================
