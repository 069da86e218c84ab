---------------------------- MODULE InspectionPanel ----------------------------
(***************************************************************************)
(* The browser's own Codex inspection: a session lists the auth files,     *)
(* probes a sample of the accounts with a bounded number of requests at a  *)
(* time and can be paused, resumed and stopped; the page follows the       *)
(* active session, keeps the last finished run in the local storage, and   *)
(* carries out the actions a run suggests.  Every account has a file of    *)
(* its own here.                                                           *)
(***************************************************************************)
EXTENDS Integers, FiniteSets

CONSTANTS
    Accounts,    \* accounts of the inspected type
    Sites,       \* connections, as their fingerprints
    NoSite,      \* no connection
    Workers,     \* settings.workers
    Probed,      \* bound: the actions that probes suggest
    MaxRuns      \* bound: sessions created, and pages opened

ASSUME InspectionAssumption ==
    /\ IsFiniteSet(Accounts) /\ NoSite \notin Sites
    /\ Probed \subseteq {"keep", "delete", "disable", "enable", "reauth"}
    /\ Workers \in Nat \ {0} /\ MaxRuns \in Nat

VARIABLES
    site,        \* the connection in use
    sessions,    \* per run, its session
    shown,       \* the inspection page; its number is 0 while it is closed
    stored,      \* the last run in the local storage
    executing,   \* calls of executeItems: the page, its result, actions left, actions done
    pages        \* number of pages opened so far

inspectionVars == <<site, sessions, shown, stored, executing, pages>>

Executable == {"delete", "disable", "enable"}
AutoModes == {"none", "enable", "disable", "delete"}
Actions == Executable \cup {"reauth", "keep"}
Runs == 1 .. MaxRuns
NoItems == [a \in {} |-> "keep"]

\* A run's results: of which run and connection, an action per account inspected.
NoResult == [run |-> 0, site |-> NoSite, items |-> NoItems, finished |-> FALSE]

NoSession == [status |-> "idle", site |-> NoSite, page |-> 0, listing |-> FALSE, sampled |-> {},
              left |-> {}, flight |-> {}, got |-> NoItems, settled |-> FALSE]
Closed == [page |-> 0, active |-> 0, run |-> "idle", result |-> NoResult]

InspectionInit ==
    /\ site = NoSite
    /\ sessions = [r \in Runs |-> NoSession]
    /\ shown = Closed
    /\ stored = NoResult
    /\ executing = {}
    /\ pages = 0

-----------------------------------------------------------------------------
(* Mutated forms of definitions below. *)

AnyEvent(r) == shown.page # 0
RestoredAny == stored
WaitsForAll(x) ==
    IF x.settled \/ x.left # {} \/ x.flight # {} THEN x
    ELSE [x EXCEPT !.settled = TRUE, !.status = IF @ = "stopped" THEN @ ELSE "completed"]

-----------------------------------------------------------------------------
(* The session. *)

\* maybeSettle(): a stopped session is settled when its probes have ended, any
\* other one when nothing is left to do.
Exhausted(x) == x.left = {} /\ x.flight = {}
MaybeSettle(x) ==
    IF x.settled THEN x
    ELSE IF x.status = "stopped" THEN [x EXCEPT !.settled = x.flight = {}]
    ELSE IF Exhausted(x) THEN [x EXCEPT !.settled = TRUE, !.status = "completed"]
    ELSE x

\* pump(): a running session starts probes while it has workers and accounts.
Startable(x) ==
    IF x.status # "running" THEN {{}}
    ELSE {s \in SUBSET x.left :
            Cardinality(s) = LET free == Workers - Cardinality(x.flight) IN
                             IF Cardinality(x.left) < free THEN Cardinality(x.left) ELSE free}
Pumped(x) == {MaybeSettle([x EXCEPT !.left = @ \ s, !.flight = @ \cup s]) : s \in Startable(x)}

-----------------------------------------------------------------------------
(* The page follows its active session only. *)

Hears(r) == shown.page # 0 /\ shown.active = r

\* The effect that saves a finished run of the connection in use.
Save(p) ==
    IF p.result.finished /\ p.run \notin {"running", "paused"} /\ p.result.site = site
    THEN stored' = p.result
    ELSE UNCHANGED stored

\* onProgress() with the session's status, then the promise, if it is settled.
Follow(r, x, p) ==
    LET told == CASE x.status = "running" -> [p EXCEPT !.run = "running"]
                  [] x.status = "paused"  -> [p EXCEPT !.run = "paused"]
                  [] OTHER                -> p IN
    IF x.settled /\ ~sessions[r].settled /\ x.status = "completed"
    THEN [told EXCEPT !.run = "success",
                      !.result = [run |-> r, site |-> x.site, items |-> x.got, finished |-> TRUE]]
    ELSE told

\* resolveCodexInspectionAutoActionItems(): what the settings carry out of a run.
AutoActionItems(mode, items) ==
    LET acted == {a \in DOMAIN items :
                    IF mode = "enable" THEN items[a] = "enable"
                    ELSE mode # "none" /\ items[a] \in Executable}
    IN [a \in acted |-> IF mode = "disable" /\ items[a] = "delete" THEN "disable" ELSE items[a]]

\* What a step of session r does to the page, under the settings' auto action mode.
Show(r, x, p, mode) ==
    LET q == IF Hears(r) THEN Follow(r, x, p) ELSE shown
        todo == AutoActionItems(mode, x.got)
        finishes == Hears(r) /\ q.run = "success" /\ ~sessions[r].settled
    IN
    /\ shown' = q
    /\ Save(q)
    /\ executing' = IF finishes /\ todo # NoItems
                    THEN executing \cup {[page |-> q.page, result |-> q.result, todo |-> todo, done |-> {}]}
                    ELSE executing

\* startFreshInspection(): the run's session lists the files.
StartInspection(r) ==
    /\ shown.page # 0 /\ shown.run \notin {"running", "paused"} /\ site # NoSite
    /\ {e \in executing : e.page = shown.page} = {}
    /\ sessions[r] = NoSession /\ \A s \in Runs : s < r => sessions[s] # NoSession
    /\ sessions' = [sessions EXCEPT ![r] = [NoSession EXCEPT !.status = "running", !.site = site,
                                                             !.page = shown.page, !.listing = TRUE]]
    /\ shown' = [shown EXCEPT !.active = r, !.run = "running", !.result = NoResult]
    /\ UNCHANGED <<site, stored, executing, pages>>

\* initialize(): the list answers, a sample is taken and the probes start.
ListAnswered(r, sample, mode) ==
    LET x == [sessions[r] EXCEPT !.listing = FALSE, !.sampled = sample, !.left = sample] IN
    /\ sessions[r].listing
    /\ \E y \in Pumped(x) : /\ sessions' = [sessions EXCEPT ![r] = y]
                            /\ Show(r, y, shown, mode)
    /\ UNCHANGED <<site, pages>>

\* The list fails: the promise is rejected, unless the session was settled before.
ListFailed(r) ==
    /\ sessions[r].listing
    /\ sessions' = [sessions EXCEPT ![r].listing = FALSE, ![r].status = "completed", ![r].settled = TRUE]
    /\ shown' = IF Hears(r) /\ ~sessions[r].settled THEN [shown EXCEPT !.run = "error"] ELSE shown
    /\ UNCHANGED <<site, stored, executing, pages>>

\* inspectSingleAccount() ends, with the action it suggests: the page hears of a
\* suggestion at once, and the session goes on.
ProbeEnds(r, a, action, mode) ==
    LET x == [sessions[r] EXCEPT !.flight = @ \ {a},
                                 !.got = [b \in DOMAIN @ \cup {a} |-> IF b = a THEN action ELSE @[b]]]
        p == IF action = "keep" THEN shown
             ELSE [shown EXCEPT !.result = [run |-> r, site |-> x.site, items |-> x.got, finished |-> FALSE]]
    IN
    /\ a \in sessions[r].flight
    /\ \E y \in Pumped(x) : /\ sessions' = [sessions EXCEPT ![r] = y]
                            /\ Show(r, y, p, mode)
    /\ UNCHANGED <<site, pages>>

PauseInspection(mode) ==
    LET r == shown.active
        x == MaybeSettle([sessions[r] EXCEPT !.status = "paused"]) IN
    /\ shown.run = "running" /\ r # 0 /\ sessions[r].status = "running"
    /\ sessions' = [sessions EXCEPT ![r] = x]
    /\ Show(r, x, [shown EXCEPT !.run = "paused"], mode)
    /\ UNCHANGED <<site, pages>>

ResumeInspection(mode) ==
    LET r == shown.active IN
    /\ shown.run = "paused" /\ r # 0 /\ sessions[r].status = "paused"
    /\ \E y \in Pumped([sessions[r] EXCEPT !.status = "running"]) :
           /\ sessions' = [sessions EXCEPT ![r] = y]
           /\ Show(r, y, [shown EXCEPT !.run = "running"], mode)
    /\ UNCHANGED <<site, pages>>

\* stop(), of a session that is neither idle nor at its end.
Stopped(r) ==
    IF r = 0 \/ sessions[r].status \in {"completed", "stopped", "idle"} THEN sessions
    ELSE [sessions EXCEPT ![r] = MaybeSettle([@ EXCEPT !.status = "stopped"])]

\* handleStopInspection(): the page forgets the session before it stops it.
StopInspection ==
    /\ shown.run \in {"running", "paused"} /\ shown.active # 0
    /\ sessions' = Stopped(shown.active)
    /\ shown' = [shown EXCEPT !.active = 0, !.run = "idle", !.result = NoResult]
    /\ UNCHANGED <<site, stored, executing, pages>>

-----------------------------------------------------------------------------
(* Opening and leaving the page; the connection changes only in between. *)

\* loadCodexInspectionLastRun(): the stored run, if it is of the connection in use.
Restored == IF stored.site = site THEN stored ELSE NoResult

OpenInspection ==
    /\ shown.page = 0 /\ site # NoSite /\ pages < MaxRuns
    /\ pages' = pages + 1
    /\ shown' = [page |-> pages + 1, active |-> 0, result |-> Restored,
                 run |-> IF Restored.run # 0 THEN "success" ELSE "idle"]
    /\ UNCHANGED <<site, sessions, stored, executing>>

CloseInspection ==
    /\ shown.page # 0
    /\ sessions' = Stopped(shown.active)
    /\ shown' = Closed
    /\ UNCHANGED <<site, stored, executing, pages>>

ChangeSite(c) ==
    /\ shown.page = 0 /\ c # site
    /\ site' = c
    /\ UNCHANGED <<sessions, shown, stored, executing, pages>>

-----------------------------------------------------------------------------
(* Execution. *)

\* handleExecutePlanned(), handleExecuteSingle(): after a confirmation.
ExecuteItems(items) ==
    /\ shown.page # 0 /\ shown.run \notin {"running", "paused"} /\ shown.result.run # 0
    /\ {e \in executing : e.page = shown.page} = {}
    /\ shown.result.site = site
    /\ items # {} /\ items \subseteq DOMAIN shown.result.items
    /\ \A a \in items : shown.result.items[a] \in Executable
    /\ executing' = executing \cup {[page |-> shown.page, result |-> shown.result, done |-> {},
                                     todo |-> [a \in items |-> shown.result.items[a]]]}
    /\ UNCHANGED <<site, sessions, shown, stored, pages>>

\* Deletions first, then disables, then enables, each stage when the one before has ended.
Stage(e) ==
    LET of(action) == {a \in DOMAIN e.todo : e.todo[a] = action} IN
    IF of("delete") # {} THEN of("delete") ELSE IF of("disable") # {} THEN of("disable") ELSE of("enable")

ExecuteOne(e, a, ok) ==
    /\ a \in Stage(e)
    /\ executing' = (executing \ {e}) \cup
           {[e EXCEPT !.todo = [b \in DOMAIN @ \ {a} |-> @[b]], !.done = IF ok THEN @ \cup {a} ELSE @]}
    /\ UNCHANGED <<site, sessions, shown, stored, pages>>

\* applyCodexInspectionExecutionResult(): what was done needs doing no more.
Applied(e) == [e.result EXCEPT !.finished = TRUE,
                               !.items = [a \in DOMAIN @ |-> IF a \in e.done THEN "keep" ELSE @[a]]]

\* After the list is refreshed, the page that asked shows what remains.
ExecutionEnds(e) ==
    LET p == IF shown.page = e.page THEN [shown EXCEPT !.result = Applied(e)] ELSE shown IN
    /\ e.todo = NoItems
    /\ executing' = executing \ {e}
    /\ shown' = p
    /\ Save(p)
    /\ UNCHANGED <<site, sessions, pages>>

-----------------------------------------------------------------------------
InspectionAnswers ==
    \E r \in Runs, mode \in AutoModes :
        \/ \E sample \in SUBSET Accounts : ListAnswered(r, sample, mode)
        \/ ListFailed(r)
        \/ \E a \in Accounts, action \in Probed : ProbeEnds(r, a, action, mode)

InspectionNext ==
    \/ InspectionAnswers
    \/ \E r \in Runs : StartInspection(r)
    \/ \E mode \in AutoModes : PauseInspection(mode) \/ ResumeInspection(mode)
    \/ StopInspection \/ OpenInspection \/ CloseInspection
    \/ \E c \in Sites \cup {NoSite} : ChangeSite(c)
    \/ \E items \in SUBSET Accounts : ExecuteItems(items)
    \/ \E e \in executing :
        \/ \E a \in Accounts, ok \in BOOLEAN : ExecuteOne(e, a, ok)
        \/ ExecutionEnds(e)

InspectionSpec == InspectionInit /\ [][InspectionNext]_inspectionVars

-----------------------------------------------------------------------------
Items == UNION {[s -> Actions] : s \in SUBSET Accounts}
Result == [run : 0 .. MaxRuns, site : Sites \cup {NoSite}, items : Items, finished : BOOLEAN]

InspectionTypeOK ==
    /\ site \in Sites \cup {NoSite}
    /\ sessions \in [Runs -> [status : {"idle", "running", "paused", "stopped", "completed"},
                              site : Sites \cup {NoSite}, page : 0 .. MaxRuns, listing : BOOLEAN,
                              sampled : SUBSET Accounts, left : SUBSET Accounts,
                              flight : SUBSET Accounts, got : Items, settled : BOOLEAN]]
    /\ shown \in [page : {0, pages}, active : 0 .. MaxRuns,
                  run : {"idle", "running", "paused", "success", "error"}, result : Result]
    /\ stored \in Result
    /\ executing \subseteq [page : 1 .. MaxRuns, result : Result,
                            todo : Items, done : SUBSET Accounts]
    /\ pages \in 0 .. MaxRuns

\* The suggestions on the page, which one click carries out, are of the
\* connection in use: neither a stored run nor a late event brings another's.
ResultsAreOfThisSite == shown.result.run # 0 => shown.result.site = site

\* While a run goes on the page shows its results, never those of a run that
\* was stopped and whose probes still end.
LiveResultsAreOfTheRun ==
    shown.run \in {"running", "paused"} /\ shown.result.run # 0 => shown.result.run = shown.active

\* A session that is running and neither listed nor probing has been settled:
\* nobody waits for a run that has nothing under way.
RunIsServed ==
    \A r \in Runs : sessions[r].status \in {"running", "stopped"} /\ ~sessions[r].settled =>
        sessions[r].listing \/ sessions[r].flight # {}

\* The panel says "Inspection completed" (en.json): every account that was
\* sampled has been inspected by then, whatever was paused on the way.
CompletedRunInspectedAll ==
    \A r \in Runs : sessions[r].status = "completed" /\ shown.run = "success" /\ shown.active = r
                        => ~sessions[r].listing /\ DOMAIN sessions[r].got = sessions[r].sampled
=============================================================================
