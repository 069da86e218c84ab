------------------------------- MODULE OAuthPanel -------------------------------
(***************************************************************************)
(* One provider's card on the page of OAuth sign-ins: each attempt asks    *)
(* CPA for a link, then an interval polls the attempt until CPA calls it   *)
(* done or failed.  Answers of earlier attempts may still arrive: the card *)
(* has one state, and one place for the interval's number.                 *)
(***************************************************************************)
EXTENDS Integers

CONSTANTS
    MaxAttempts,     \* bound: attempts
    MaxPolls,        \* bound: polls of one attempt under way
    MaxCallbacks     \* bound: redirect URLs being handed in

ASSUME OAuthAssumption == MaxAttempts \in Nat /\ MaxPolls \in Nat \ {0} /\ MaxCallbacks \in Nat

Attempts == 1 .. MaxAttempts
NoAttempt == 0

VARIABLES
    cpa,           \* per attempt, what CPA knows of it
    card,          \* the card: status, the attempt it shows, its link, its busy marks
    starting,      \* attempts whose link is being asked for
    timer,         \* pollingTimers: the attempt whose interval it holds
    intervals,     \* the attempts with an interval that runs
    polls,         \* per attempt, number of polls under way
    resetDue,      \* successResetTimers holds a timer
    callbacks      \* redirect URLs being handed in

oauthVars == <<cpa, card, starting, timer, intervals, polls, resetDue, callbacks>>

EmptyCard == [status |-> "none", attempt |-> NoAttempt, link |-> FALSE, polling |-> FALSE, submitting |-> FALSE]

OAuthInit ==
    /\ cpa = [a \in Attempts |-> "none"]
    /\ card = EmptyCard
    /\ starting = {} /\ intervals = {} /\ timer = NoAttempt
    /\ polls = [a \in Attempts |-> 0]
    /\ resetDue = FALSE
    /\ callbacks = 0

\* Attempts are numbered in the order they are begun.
Begun == {a \in Attempts : cpa[a] # "none" \/ a \in starting}
NextAttempt == CHOOSE a \in Attempts : a \notin Begun /\ \A b \in Attempts \ Begun : a <= b

-----------------------------------------------------------------------------
\* startAuth(): its button waits while the card is polling.
StartAuth ==
    /\ Begun # Attempts
    /\ ~card.polling
    /\ card' = [card EXCEPT !.status = "waiting", !.attempt = NoAttempt, !.link = FALSE, !.polling = TRUE]
    /\ starting' = starting \cup {NextAttempt}
    /\ cpa' = [cpa EXCEPT ![NextAttempt] = "asked"]
    /\ intervals' = intervals \ {timer}
    /\ timer' = NoAttempt
    /\ resetDue' = FALSE
    /\ UNCHANGED <<polls, callbacks>>

\* Mutated form: an interval that is held is taken for the attempt's own.
KeepsPolling(a) ==
    IF timer = NoAttempt
    THEN timer' = a /\ intervals' = intervals \cup {a}
    ELSE UNCHANGED <<timer, intervals>>

\* startPolling(): the interval held is stopped.
StartPolling(a) ==
    /\ intervals' = (intervals \ {timer}) \cup {a}
    /\ timer' = a

\* The link and the state of the attempt arrive.
StartAnswers(a) ==
    /\ a \in starting
    /\ starting' = starting \ {a}
    /\ cpa' = [cpa EXCEPT ![a] = "pending"]
    /\ card' = [card EXCEPT !.status = "waiting", !.attempt = a, !.link = TRUE, !.polling = TRUE]
    /\ StartPolling(a)
    /\ UNCHANGED <<polls, resetDue, callbacks>>

\* A failure, or an answer without a state.
StartFails(a) ==
    /\ a \in starting
    /\ starting' = starting \ {a}
    /\ card' \in {[card EXCEPT !.status = "error", !.polling = FALSE],
                  [card EXCEPT !.status = "error", !.polling = FALSE, !.attempt = NoAttempt, !.link = TRUE]}
    /\ UNCHANGED <<cpa, timer, intervals, polls, resetDue, callbacks>>

\* The user signs in, or does not, in another window or by a redirect URL.
Finish(a) ==
    /\ cpa[a] = "pending"
    /\ cpa' \in {[cpa EXCEPT ![a] = "done"], [cpa EXCEPT ![a] = "failed"]}
    /\ UNCHANGED <<card, starting, timer, intervals, polls, resetDue, callbacks>>

-----------------------------------------------------------------------------
\* The interval of an attempt, whether or not it is still held.
Tick(a) ==
    /\ a \in intervals /\ polls[a] < MaxPolls
    /\ polls' = [polls EXCEPT ![a] = @ + 1]
    /\ UNCHANGED <<cpa, card, starting, timer, intervals, resetDue, callbacks>>

PollEnds(a) ==
    /\ polls[a] > 0
    /\ polls' = [polls EXCEPT ![a] = @ - 1]
    /\ UNCHANGED <<cpa, starting, callbacks>>

PollSaysWait(a) ==
    /\ PollEnds(a)
    /\ cpa[a] = "pending"
    /\ UNCHANGED <<card, timer, intervals, resetDue>>

\* completeProviderAuth(): stops the interval that is held, whoever's it is.
PollSaysOk(a) ==
    /\ PollEnds(a)
    /\ cpa[a] = "done"
    /\ intervals' = intervals \ {timer}
    /\ timer' = NoAttempt
    /\ card' = [EmptyCard EXCEPT !.status = "success"]
    /\ resetDue' = TRUE

\* An error, or a request that fails: the poll's own interval is stopped, and
\* the one that is held forgotten.
PollFails(a) ==
    /\ PollEnds(a)
    /\ intervals' = intervals \ {a}
    /\ timer' = NoAttempt
    /\ card' = [card EXCEPT !.status = "error", !.polling = FALSE]
    /\ UNCHANGED resetDue

\* resetProviderAttempt(), some time after a success.
ResetProviderAttempt ==
    /\ resetDue
    /\ resetDue' = FALSE
    /\ intervals' = intervals \ {timer}
    /\ timer' = NoAttempt
    /\ card' = EmptyCard
    /\ UNCHANGED <<cpa, starting, polls, callbacks>>

\* submitCallback() and its end; the poll will tell what came of it.
SubmitCallback ==
    /\ card.link /\ ~card.submitting /\ callbacks < MaxCallbacks
    /\ card' = [card EXCEPT !.submitting = TRUE]
    /\ callbacks' = callbacks + 1
    /\ UNCHANGED <<cpa, starting, timer, intervals, polls, resetDue>>

CallbackEnds ==
    /\ callbacks > 0
    /\ callbacks' = callbacks - 1
    /\ card' = [card EXCEPT !.submitting = FALSE]
    /\ UNCHANGED <<cpa, starting, timer, intervals, polls, resetDue>>

PollAnswers(a) == PollSaysWait(a) \/ PollSaysOk(a) \/ PollFails(a)

OAuthNext ==
    \/ StartAuth \/ ResetProviderAttempt \/ SubmitCallback \/ CallbackEnds
    \/ \E a \in Attempts : \/ StartAnswers(a) \/ StartFails(a) \/ Finish(a)
                           \/ Tick(a) \/ PollAnswers(a)

OAuthSpec == OAuthInit /\ [][OAuthNext]_oauthVars

-----------------------------------------------------------------------------
OAuthTypeOK ==
    /\ cpa \in [Attempts -> {"none", "asked", "pending", "done", "failed"}]
    /\ card \in [status : {"none", "waiting", "success", "error"},
                 attempt : {NoAttempt} \cup Attempts, link : BOOLEAN, polling : BOOLEAN, submitting : BOOLEAN]
    /\ starting \subseteq Attempts /\ intervals \subseteq Attempts
    /\ timer \in {NoAttempt} \cup Attempts
    /\ polls \in [Attempts -> 0 .. MaxPolls]
    /\ resetDue \in BOOLEAN /\ callbacks \in 0 .. MaxCallbacks

\* A card that waits hears of the end: its link is still being asked for, or the
\* attempt it shows has an interval of its own, whichever interval the late
\* answers and failures of earlier attempts stop and forget.
WaitingIsPolled ==
    card.status = "waiting" =>
        \/ card.attempt \in intervals
        \/ card.attempt = NoAttempt /\ starting # {}
=============================================================================
