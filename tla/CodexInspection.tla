--------------------------- MODULE CodexInspection ---------------------------
(***************************************************************************)
(* The server's inspection of Codex accounts: service/codexinspection,     *)
(* worker/codex_inspection_worker.go and the two tables of                 *)
(* repository/codexinspection.  Goroutines (the scheduled ones and those   *)
(* of the HTTP requests) compete for one flag; its holder lists CPA's      *)
(* accounts, probes them, and disables, enables or deletes auth files by   *)
(* name, or does the last part again for results an admin selected.        *)
(*                                                                         *)
(* Abstracted: what a probe reads (its verdict is chosen among those its   *)
(* account can get), the wording of reasons and logs, the counts of a run, *)
(* retries of a probe, results without a file name or an index.  Writes to *)
(* the database succeed, unless their context is cancelled.                *)
(***************************************************************************)
EXTENDS Naturals, FiniteSets, Sequences

CONSTANTS
    Accounts,      \* numbers: the order of the accounts in a listing
    Files,
    FileOf,        \* FileOf[a]: the auth file that account a is in
    Keys, Manual,  \* the schedule's trigger keys, and that of a request
    Callers,       \* goroutines, reused once they end
    Modes,         \* the modes of automatic actions that are configured
    Verdicts,      \* Verdicts[a]: what the probes of a may say, besides "keep"
    SampleSize,    \* how many accounts a run probes at most, 0 for all
    Switches,      \* what other clients switch files to
    DeleteWorkers, \* how many calls are made at a time
    MaxRuns, MaxUploads   \* bounds of the counters

ASSUME CodexInspectionAssumption ==
    /\ Accounts \subseteq Nat /\ IsFiniteSet(Accounts)
    /\ FileOf \in [Accounts -> Files]
    /\ Manual \notin Keys
    /\ Modes \subseteq {"none", "enable", "disable", "delete"}
    /\ Verdicts \in [Accounts -> SUBSET {"reauth", "delete", "disable", "enable"}]
    /\ Switches \subseteq {"disable", "enable"}
    /\ SampleSize \in Nat /\ DeleteWorkers \in Nat \ {0}
    /\ MaxRuns \in Nat /\ MaxUploads \in Nat

VARIABLES
    listed,     \* CPA: the accounts in its auth files
    disabled,   \* CPA: those that are disabled
    uploads,    \* CPA: uploads[f], how often f was uploaded anew
    accepted,   \* CPA: accepted[r], the accounts for which a call of run r was accepted
    running,    \* Service.running
    job,        \* job[c]: the goroutine c
    runs,       \* codex_inspection_runs
    results     \* codex_inspection_results: results[r][a]

cpaVars == <<listed, disabled, uploads, accepted>>
dbVars == <<runs, results>>
vars == <<cpaVars, running, job, dbVars>>

Executable == {"delete", "disable", "enable"}
Actions == {"keep", "reauth"} \cup Executable
RunIds == 1..MaxRuns

Least(m, n) == IF m < n THEN m ELSE n

\* A row that is not there has the action "none".
NoRow == [action |-> "none", status |-> "none"]
NoResults == [a \in Accounts |-> NoRow]
RunRow == [status : {"running", "completed", "failed"}, trigger : {Manual} \cup Keys]
Statuses == {"none", "pending", "success", "failed", "skipped", "needs_review"}
Row == [action : {"none"} \cup Actions, status : Statuses]
Settled == {"success", "skipped", "needs_review"}
\* "refused": failed without a call.
Outcomes == {"none", "success", "failed", "refused", "skipped", "needs_review"}
NoOutcomes == [a \in Accounts |-> "none"]

\* A goroutine: what it was started for, how far it is, and its local variables.
Idle ==
    [step |-> "idle", op |-> "run", key |-> Manual, cancelled |-> FALSE,
     run |-> 0, mode |-> "none", seen |-> [f \in Files |-> 0], off |-> {},
     found |-> NoResults, outcome |-> NoOutcomes,
     todo |-> {}, busy |-> {}, workers |-> 0]

Init ==
    /\ listed \in SUBSET Accounts
    /\ disabled \in SUBSET listed
    /\ uploads = [f \in Files |-> 0]
    /\ accepted = [r \in RunIds |-> {}]
    /\ running = FALSE
    /\ job = [c \in Callers |-> Idle]
    /\ runs = <<>>
    /\ results = [r \in RunIds |-> NoResults]
-----------------------------------------------------------------------------
(* CPA and its other clients *)

OfFile(f) == {a \in Accounts : FileOf[a] = f}
Present(f) == OfFile(f) \cap listed # {}

\* PATCH and DELETE name the file alone, and are refused when there is none.
Apply(action, f) ==
    /\ Present(f)
    /\ CASE action = "delete" ->
              listed' = listed \ OfFile(f) /\ disabled' = disabled \ OfFile(f)
         [] action = "disable" ->
              disabled' = disabled \cup (OfFile(f) \cap listed) /\ UNCHANGED listed
         [] action = "enable" ->
              disabled' = disabled \ OfFile(f) /\ UNCHANGED listed
    /\ UNCHANGED uploads

\* Another client uploads a file anew, deletes it, or switches it.
Upload(f, S) ==
    /\ uploads[f] < MaxUploads
    /\ listed' = (listed \ OfFile(f)) \cup S
    /\ disabled' = disabled \ OfFile(f)
    /\ uploads' = [uploads EXCEPT ![f] = @ + 1]
    /\ UNCHANGED <<accepted, running, job, dbVars>>

Switch(action, f) ==
    /\ Apply(action, f)
    /\ UNCHANGED <<accepted, running, job, dbVars>>
-----------------------------------------------------------------------------
(* The goroutines and the flag *)

Set(c, j) == job' = [job EXCEPT ![c] = j]

\* CodexInspectionWorker.tick: the key of now is due, and no run of it exists.
Tick(c, key) ==
    /\ job[c].step = "idle" /\ Len(runs) < MaxRuns
    /\ \A r \in 1..Len(runs) : runs[r].trigger # key
    /\ Set(c, [Idle EXCEPT !.step = "asked", !.key = key])
    /\ UNCHANGED <<cpaVars, running, dbVars>>

\* POST .../run, and POST .../runs/{id}/actions: its results are chosen when
\* they are read.
PostRun(c) ==
    /\ job[c].step = "idle" /\ Len(runs) < MaxRuns
    /\ Set(c, [Idle EXCEPT !.step = "asked"])
    /\ UNCHANGED <<cpaVars, running, dbVars>>

PostActions(c, r) ==
    /\ job[c].step = "idle"
    /\ Set(c, [Idle EXCEPT !.step = "asked", !.op = "actions", !.run = r])
    /\ UNCHANGED <<cpaVars, running, dbVars>>

\* The client of a request for actions leaves, or the server shuts down; a
\* request for a run has a context of its own.  Before the probes and before the
\* calls a cancelled context shows as a read that fails.
Cancel(c) ==
    /\ job[c].step \in {"probe", "act"} /\ ~job[c].cancelled
    /\ job[c].op = "actions" \/ job[c].key # Manual
    /\ Set(c, [job[c] EXCEPT !.cancelled = TRUE])
    /\ UNCHANGED <<cpaVars, running, dbVars>>

AcquireAlways(c) ==
    /\ job[c].step = "asked"
    /\ running' = TRUE
    /\ Set(c, [job[c] EXCEPT !.step = "begin"])
    /\ UNCHANGED <<cpaVars, dbVars>>

AcquireRun(c) ==
    /\ job[c].step = "asked" /\ ~running
    /\ running' = TRUE
    /\ Set(c, [job[c] EXCEPT !.step = "begin"])
    /\ UNCHANGED <<cpaVars, dbVars>>

\* ErrRunAlreadyActive.
Refuse(c) ==
    /\ job[c].step = "asked" /\ running
    /\ Set(c, Idle)
    /\ UNCHANGED <<cpaVars, running, dbVars>>

\* The deferred releaseRun, on every way out.
ReleaseRun(c) == running' = FALSE /\ Set(c, Idle)

\* The configuration, the row or CPA's listing cannot be read or written: nothing
\* has happened yet.
Leave(c) ==
    /\ job[c].step \in {"begin", "verify"}
    /\ ReleaseRun(c)
    /\ UNCHANGED <<cpaVars, dbVars>>

\* The process stops and starts again; a row that is "running" stays so.
Restart ==
    /\ job' = [c \in Callers |-> Idle] /\ running' = FALSE
    /\ UNCHANGED <<cpaVars, dbVars>>
-----------------------------------------------------------------------------
(* Results, actions and outcomes *)

\* NormalizeCodexInspectionActionStatus of a result without a status.
RowOf(action) ==
    [action |-> action, status |-> IF action \in Executable THEN "pending" ELSE "none"]

\* buildExecutableFileActionGroups
Group(found, f) == {a \in OfFile(f) : found[a].action \in Executable}
Mixed(found, f) == \E a, b \in Group(found, f) : found[a].action # found[b].action
First(found, a) == \A b \in Group(found, FileOf[a]) : a <= b
Grouped(found) == {a \in Accounts : found[a].action \in Executable}

AllowAutoAction(mode, action) ==
    \/ mode = "enable" /\ action = "enable"
    \/ mode \in {"disable", "delete"} /\ action \in Executable

\* resolveExecutableAction; a manual action is the result's own.
ActionOf(j, a) ==
    IF j.op = "run" /\ j.mode = "disable" /\ j.found[a].action = "delete"
    THEN "disable" ELSE j.found[a].action

\* selectAutoActionItems: one item per file, and the outcome of the others.
AutoItems(mode, found) ==
    {a \in Grouped(found) :
        /\ ~Mixed(found, FileOf[a]) /\ First(found, a)
        /\ AllowAutoAction(mode, found[a].action)}
AutoOutcome(mode, found) ==
    [a \in Accounts |->
        IF mode = "none" \/ a \notin Grouped(found) THEN "none"
        ELSE IF Mixed(found, FileOf[a]) THEN "needs_review"
        ELSE IF First(found, a) \/ ~AllowAutoAction(mode, found[a].action) THEN "none"
        ELSE "skipped"]

\* selectManualActionItems, likewise of the results that were picked.
Retryable == {"pending", "failed"}
ManualItems(picked, found) ==
    {a \in picked \cap Grouped(found) :
        found[a].status \in Retryable /\ ~Mixed(found, FileOf[a]) /\ First(found, a)}
ManualOutcome(picked, found) ==
    [a \in Accounts |->
        IF a \notin picked \/ found[a].action = "none" \/ a \in ManualItems(picked, found)
        THEN "none"
        ELSE IF found[a].action \notin Executable \/ found[a].status \in {"success", "skipped"}
        THEN "skipped"
        ELSE IF found[a].status = "needs_review" \/ Mixed(found, FileOf[a])
        THEN "needs_review" ELSE "skipped"]

\* applyActionOutcomes
Applied(found, outcome) ==
    [a \in Accounts |->
        IF outcome[a] = "none" THEN found[a]
        ELSE [found[a] EXCEPT !.status = IF outcome[a] = "refused" THEN "failed" ELSE outcome[a]]]

\* executeActionItems starts its workers.
Act(j, items, outcome) ==
    [j EXCEPT !.step = "act", !.todo = items, !.busy = {}, !.outcome = outcome,
              !.workers = Least(DeleteWorkers, Cardinality(items))]
-----------------------------------------------------------------------------
(* Run *)

CreateRun(c, mode) ==
    /\ job[c].step = "begin" /\ job[c].op = "run"
    /\ Len(runs) < MaxRuns
    /\ runs' = Append(runs, [status |-> "running", trigger |-> job[c].key])
    /\ Set(c, [job[c] EXCEPT !.step = "list", !.run = Len(runs) + 1, !.mode = mode])
    /\ UNCHANGED <<cpaVars, running, results>>

\* fetchAuthFiles and pickSample.
Samples ==
    LET size == IF SampleSize = 0 THEN Cardinality(listed)
                ELSE Least(SampleSize, Cardinality(listed))
    IN {S \in SUBSET listed : Cardinality(S) = size}

List(c) ==
    /\ job[c].step = "list"
    /\ \E sample \in Samples :
          Set(c, [job[c] EXCEPT !.step = "probe", !.todo = sample, !.off = disabled,
                                !.seen = uploads])
    /\ UNCHANGED <<cpaVars, running, dbVars>>

EndRun(c, status) ==
    /\ runs' = [runs EXCEPT ![job[c].run].status = status]
    /\ ReleaseRun(c)

\* failRun
ListFails(c) ==
    /\ job[c].step = "list"
    /\ EndRun(c, "failed")
    /\ UNCHANGED <<cpaVars, results>>

\* inspectSingleAccount, for an account as it was listed, and its row.  A
\* cancelled context fails the probe and the insert.
VerdictsOf(c, a) ==
    IF job[c].cancelled THEN {"keep"}
    ELSE {"keep"} \cup (Verdicts[a] \ (IF a \in job[c].off THEN {"disable"} ELSE {"enable"}))

Probe(c, a) ==
    /\ job[c].step = "probe" /\ a \in job[c].todo
    /\ \E verdict \in VerdictsOf(c, a) :
          /\ Set(c, [job[c] EXCEPT !.todo = @ \ {a}, !.found[a] = RowOf(verdict)])
          /\ results' = IF job[c].cancelled THEN results
                        ELSE [results EXCEPT ![job[c].run][a] = RowOf(verdict)]
    /\ UNCHANGED <<cpaVars, running, runs>>

\* The accounts are probed, or no more of them are once the context is
\* cancelled: then the run has failed, and keeps what was found.
ProbesCancelled(c) ==
    /\ job[c].step = "probe" /\ job[c].cancelled
    /\ results' = [results EXCEPT ![job[c].run] = job[c].found]
    /\ EndRun(c, "failed")
    /\ UNCHANGED <<cpaVars>>

ProbesEnd(c) ==
    /\ job[c].step = "probe" /\ ~job[c].cancelled /\ job[c].todo = {}
    /\ LET j == job[c] IN
       Set(c, Act([j EXCEPT !.off = {}], AutoItems(j.mode, j.found), AutoOutcome(j.mode, j.found)))
    /\ UNCHANGED <<cpaVars, running, dbVars>>
-----------------------------------------------------------------------------
(* ExecuteManualActions *)

ReadResults(c, picked) ==
    LET j == job[c]
        found == results[j.run]
        items == ManualItems(picked, found)
        outcome == ManualOutcome(picked, found)
        k == [j EXCEPT !.found = found]
    IN /\ j.step = "begin" /\ j.op = "actions"
       /\ runs[j.run].status = "completed"
       /\ items # {} \/ outcome # NoOutcomes
       /\ Set(c, IF items = {} THEN Act(k, {}, outcome)
                 ELSE [k EXCEPT !.step = "verify", !.todo = items, !.outcome = outcome])
       /\ UNCHANGED <<cpaVars, running, dbVars>>

\* validateManualActionItems: the account is still in the file, and is not yet
\* what the action would make it.
MatchFile(a) == Present(FileOf[a])
MatchCurrentAccount(a) == a \in listed
Superfluous(j, a) ==
    \/ j.found[a].action = "disable" /\ a \in disabled
    \/ j.found[a].action = "enable" /\ a \notin disabled

Verify(c) ==
    LET j == job[c]
        valid == {a \in j.todo : MatchCurrentAccount(a) /\ ~Superfluous(j, a)}
    IN /\ j.step = "verify"
       /\ Set(c, Act([j EXCEPT !.seen = uploads], valid,
                     [a \in Accounts |->
                         IF a \in j.todo \ valid
                         THEN IF MatchCurrentAccount(a) THEN "skipped" ELSE "refused"
                         ELSE j.outcome[a]]))
       /\ UNCHANGED <<cpaVars, running, dbVars>>
-----------------------------------------------------------------------------
(* executeActionItems *)

\* The feeder hands an item to a worker that waits for one.
Hand(c, a) ==
    /\ job[c].step = "act" /\ a \in job[c].todo
    /\ Cardinality(job[c].busy) < job[c].workers
    /\ Set(c, [job[c] EXCEPT !.todo = @ \ {a}, !.busy = @ \cup {a}])
    /\ UNCHANGED <<cpaVars, running, dbVars>>

Answer(c, a, outcome) ==
    Set(c, [job[c] EXCEPT !.busy = @ \ {a}, !.outcome[a] = outcome])

\* executeAction: CPA accepts the call, and answers or the answer is lost, as it
\* is when the context is cancelled meanwhile; or the call fails.
Call(c, a) ==
    /\ job[c].step = "act" /\ a \in job[c].busy
    /\ Apply(ActionOf(job[c], a), FileOf[a])
    /\ accepted' = [accepted EXCEPT ![job[c].run] = @ \cup {a}]
    /\ \E outcome \in {"failed"} \cup (IF job[c].cancelled THEN {} ELSE {"success"}) :
          Answer(c, a, outcome)
    /\ UNCHANGED <<running, dbVars>>

CallFails(c, a) ==
    /\ job[c].step = "act" /\ a \in job[c].busy
    /\ Answer(c, a, "failed")
    /\ UNCHANGED <<cpaVars, running, dbVars>>

\* Once the context is cancelled the workers and the feeder leave, each at its
\* next select.
WorkerLeavesBusy(c) ==
    /\ job[c].step = "act" /\ job[c].cancelled
    /\ Set(c, [job[c] EXCEPT !.workers = @ - 1])
    /\ UNCHANGED <<cpaVars, running, dbVars>>

WorkerLeaves(c) ==
    /\ job[c].step = "act" /\ job[c].cancelled
    /\ Cardinality(job[c].busy) < job[c].workers
    /\ Set(c, [job[c] EXCEPT !.workers = @ - 1])
    /\ UNCHANGED <<cpaVars, running, dbVars>>

FeederWaits(c) == FALSE
FeederLeaves(c) ==
    /\ job[c].step = "act" /\ job[c].cancelled /\ job[c].todo # {}
    /\ Set(c, [job[c] EXCEPT !.todo = {}])
    /\ UNCHANGED <<cpaVars, running, dbVars>>

\* Every item is handed out and every worker done: the outcomes are applied to
\* the results as they were read.
Finish(c) ==
    /\ job[c].step = "act" /\ job[c].todo = {} /\ job[c].busy = {}
    /\ results' = [results EXCEPT ![job[c].run] = Applied(job[c].found, job[c].outcome)]
    /\ EndRun(c, "completed")
    /\ UNCHANGED <<cpaVars>>
-----------------------------------------------------------------------------
Step(c) ==
    \/ AcquireRun(c) \/ Refuse(c) \/ Leave(c)
    \/ \E mode \in Modes : CreateRun(c, mode)
    \/ List(c) \/ ListFails(c)
    \/ \E a \in Accounts : Probe(c, a) \/ Hand(c, a) \/ Call(c, a) \/ CallFails(c, a)
    \/ ProbesCancelled(c) \/ ProbesEnd(c)
    \/ \E picked \in SUBSET Accounts \ {{}} : ReadResults(c, picked)
    \/ Verify(c)
    \/ WorkerLeaves(c) \/ FeederLeaves(c) \/ Finish(c)

Ask(c) ==
    \/ PostRun(c) \/ Cancel(c)
    \/ \E key \in Keys : Tick(c, key)
    \/ \E r \in 1..Len(runs) : PostActions(c, r)

Other ==
    \E f \in Files :
        \/ \E S \in SUBSET OfFile(f) : Upload(f, S)
        \/ \E action \in Switches : Switch(action, f)

Next ==
    \/ \E c \in Callers : Step(c) \/ Ask(c)
    \/ Restart \/ Other

Spec == Init /\ [][Next]_vars

\* A goroutine that was started goes on: CPA answers or its client's timeout
\* does.
Fairness == \A c \in Callers : WF_vars(Step(c))

FairSpec == Spec /\ Fairness
-----------------------------------------------------------------------------
(* Safety *)

JobType ==
    [step : {"idle", "asked", "begin", "list", "probe", "verify", "act"},
     op : {"run", "actions"}, key : {Manual} \cup Keys, cancelled : BOOLEAN,
     run : 0..MaxRuns, mode : {"none"} \cup Modes,
     seen : [Files -> 0..MaxUploads], off : SUBSET Accounts,
     found : [Accounts -> Row], outcome : [Accounts -> Outcomes],
     todo : SUBSET Accounts, busy : SUBSET Accounts, workers : Nat]

TypeOK ==
    /\ listed \subseteq Accounts /\ disabled \subseteq listed
    /\ uploads \in [Files -> 0..MaxUploads]
    /\ accepted \in [RunIds -> SUBSET Accounts]
    /\ running \in BOOLEAN
    /\ job \in [Callers -> JobType]
    /\ runs \in Seq(RunRow)
    /\ Len(runs) <= MaxRuns
    /\ results \in [RunIds -> [Accounts -> Row]]

\* An action reaches the account it was decided for, unless the file was
\* uploaded anew after the account was last looked up: the calls name the file
\* alone, and the results may be of a run long ago (validateManualActionItems,
\* matchCurrentAccount).
CallsHitTheAccount ==
    [][\A c \in Callers, a \in Accounts :
          Call(c, a) /\ job[c].seen[FileOf[a]] = uploads[FileOf[a]] => a \in listed]_vars

-----------------------------------------------------------------------------
(* The record of runs *)

InCharge(j) == j.step \in {"list", "probe", "verify", "act"}

\* The accounts whose call, in the work under way, has been made.
CalledBy(j) == {a \in Accounts : j.outcome[a] \in {"success", "failed"}}

Holder ==
    IF \E c \in Callers : InCharge(job[c])
    THEN job[CHOOSE c \in Callers : InCharge(job[c])].run ELSE 0
StatusOf == [r \in RunIds |-> IF r <= Len(runs) THEN runs[r].status ELSE "none"]
AdviceOf == [r \in RunIds |-> [a \in Accounts |-> results[r][a].action]]
SettledIn == [r \in RunIds |-> {a \in Accounts : results[r][a].status \in Settled}]
SuccessIn == [r \in RunIds |-> {a \in Accounts : results[r][a].status = "success"}]
Tried == {FileOf[a] : a \in UNION {CalledBy(job[c]) : c \in Callers}}

Ledger == INSTANCE RunLedger WITH
    Runs <- RunIds, holder <- Holder, status <- StatusOf, advice <- AdviceOf,
    settled <- SettledIn, success <- SuccessIn, tried <- Tried

\* The goroutines, the flag and the two tables keep the promises of RunLedger,
\* whatever overlaps, fails, is cancelled or is requested again.
ImplementsLedger == Ledger!Spec
-----------------------------------------------------------------------------
(* Liveness *)

\* What is asked of the inspection ends, and with it the flag that refuses
\* everybody else, although its workers and their feeder leave at different
\* times once the context is cancelled (executeActionItems).
RunEnds == \A c \in Callers : job[c].step # "idle" ~> job[c].step = "idle"
=============================================================================
