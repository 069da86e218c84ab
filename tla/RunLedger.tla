------------------------------ MODULE RunLedger ------------------------------
(***************************************************************************)
(* What the inspection's record of runs promises, without its goroutines,  *)
(* requests and CPA's listings.  One run is worked on at a time: it is     *)
(* inspected once, and its advice may be carried out afterwards.  A file   *)
(* is called at most once per piece of work, never on advice that is       *)
(* settled, and never when the advice on the file's accounts disagrees.  A *)
(* success is recorded only of a call CPA accepted.                        *)
(***************************************************************************)
CONSTANTS Runs, Accounts, FileOf, Executable

VARIABLES
    holder,    \* the run that is worked on, 0 if none
    status,    \* status[r]: "none", "running", "completed" or "failed"
    advice,    \* advice[r][a]: what run r advises for account a
    settled,   \* settled[r]: the accounts whose advice is dealt with
    success,   \* success[r]: those recorded as carried out
    tried,     \* the files called by the work under way
    accepted   \* accepted[r]: the accounts for which CPA accepted a call

ledgerVars == <<holder, status, advice, settled, success, tried, accepted>>

Nobody == [r \in Runs |-> {}]

Init ==
    /\ holder = 0
    /\ status = [r \in Runs |-> "none"]
    /\ advice = [r \in Runs |-> [a \in Accounts |-> "none"]]
    /\ settled = Nobody
    /\ success = Nobody
    /\ tried = {}
    /\ accepted = Nobody

\* Advice, once given, stays.
Advised(r, a) == advice[r][a] # "none"
AdviceGrows(r) ==
    /\ \A q \in Runs \ {r} : advice'[q] = advice[q]
    /\ \A a \in Accounts : Advised(r, a) => advice'[r][a] = advice[r][a]

\* A run starts, or a completed one is opened to carry out its advice.
Begin(r) ==
    /\ holder = 0 /\ status[r] = "none"
    /\ holder' = r /\ status' = [status EXCEPT ![r] = "running"]
    /\ UNCHANGED <<advice, settled, success, tried, accepted>>

Open(r) ==
    /\ holder = 0 /\ status[r] = "completed"
    /\ holder' = r
    /\ UNCHANGED <<status, advice, settled, success, tried, accepted>>

Advise(r) ==
    /\ holder = r /\ status[r] = "running"
    /\ AdviceGrows(r)
    /\ UNCHANGED <<holder, status, settled, success, tried, accepted>>

\* CPA is called for the file of an account; the call may fail, or be accepted
\* and its answer lost.
Agreed(r, a) ==
    \A b \in Accounts :
        FileOf[b] = FileOf[a] /\ advice[r][b] \in Executable => advice[r][b] = advice[r][a]

Call(r, a) ==
    /\ holder = r /\ status[r] \in {"running", "completed"}
    /\ advice[r][a] \in Executable /\ a \notin settled[r] /\ Agreed(r, a)
    /\ FileOf[a] \notin tried
    /\ tried' = tried \cup {FileOf[a]}
    /\ accepted' \in {accepted, [accepted EXCEPT ![r] = @ \cup {a}]}
    /\ UNCHANGED <<holder, status, advice, settled, success>>

\* The work ends, and what came of it is recorded.
Close == holder' = 0 /\ tried' = {} /\ UNCHANGED accepted

Record(r) ==
    /\ holder = r /\ Close
    /\ status[r] \in {"running", "completed"}
    /\ status' = [status EXCEPT ![r] = "completed"]
    /\ \E s \in SUBSET Accounts, done \in SUBSET accepted[r] :
          /\ settled[r] \subseteq s /\ done \subseteq s
          /\ settled' = [settled EXCEPT ![r] = s]
          /\ success' = [success EXCEPT ![r] = done]
    /\ UNCHANGED advice

Fail(r) ==
    /\ holder = r /\ status[r] = "running" /\ Close
    /\ status' = [status EXCEPT ![r] = "failed"]
    /\ AdviceGrows(r)
    /\ UNCHANGED <<settled, success>>

\* The work ends without a word: a request is refused, or the process stops.
Abandon == holder # 0 /\ Close /\ UNCHANGED <<status, advice, settled, success>>

Next ==
    \/ \E r \in Runs :
          \/ Begin(r) \/ Open(r) \/ Advise(r) \/ Record(r) \/ Fail(r)
          \/ \E a \in Accounts : Call(r, a)
    \/ Abandon

Spec == Init /\ [][Next]_ledgerVars
=============================================================================
