----------------------------- MODULE IssueQueue -----------------------------
(***************************************************************************)
(* What the queue of auth issues promises, without its worker, admins and  *)
(* table: an issue is open or not, however often it is reported; closing   *)
(* it leaves one case on file, and a case on file never changes.           *)
(***************************************************************************)
CONSTANTS Issues, Decisions, Ids

VARIABLES
    open,   \* the issues that wait for a decision
    closed  \* the cases that were decided

Case == [id : Ids, issue : Issues, decision : Decisions]

Init == open = {} /\ closed = {}

Report(i) ==
    /\ open' = open \cup {i}
    /\ UNCHANGED closed

Close(i) ==
    /\ open' = open \ {i}
    /\ \E n \in Ids, d \in Decisions :
          /\ \A c \in closed : c.id # n
          /\ closed' = closed \cup {[id |-> n, issue |-> i, decision |-> d]}

Next ==
    \/ \E i \in Issues \ open : Report(i)
    \/ \E i \in open : Close(i)

Spec == Init /\ [][Next]_<<open, closed>>
=============================================================================
