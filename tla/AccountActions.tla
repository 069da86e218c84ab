--------------------------- MODULE AccountActions ---------------------------
(***************************************************************************)
(* The queue of auth issues: AccountActionCandidateWorker                  *)
(* (worker/account_action_candidate.go) and the service the admins' panel  *)
(* calls (service/accountaction) over the table account_action_candidates  *)
(* (repository/accountaction).  A usage event that failed for want of a    *)
(* valid login becomes a pending candidate, and may disable the auth file  *)
(* at once; an admin ignores or resolves it, enables the file or deletes   *)
(* it.                                                                     *)
(*                                                                         *)
(* Every admin is an HTTP request under way; requests and the worker's run *)
(* loop interleave at every HTTP call to CPA and every SQL transaction.    *)
(*                                                                         *)
(* An account stands for the auth_index, the account id and the provider   *)
(* of its auth file.  Left out are the columns that are only shown: reason,*)
(* evidence, last_error, hit_count and the times.                          *)
(***************************************************************************)
EXTENDS Naturals, Sequences, FiniteSets

CONSTANTS
    Files,      \* auth file names
    Accounts,   \* accounts an auth file may be for
    NoAccount,  \* the event names no auth_index and no account id
    Labels,     \* account snapshots that name no account
    Types,      \* action types of the events in this instance
    Admins,     \* requests that may be under way at once
    QueueSize,  \* accountActionCandidateQueueSize
    Env,        \* what the environment does in this instance
    MaxRows,    \* bound: rows the table may have
    MaxUploads  \* bound: how often a file is uploaded

Disturbances ==
    { "fetch",        \* a GET of the auth files fails
      "call",         \* a PATCH or DELETE fails and changes nothing
      "lost",         \* a PATCH or DELETE is applied but its answer is lost
      "db",           \* a SQL statement fails
      "unconfigured", \* the collector has no CPA address
      "crash",        \* the process restarts
      "toggle",       \* an operator disables and enables files in CPA
      "replace" }     \* an operator deletes and uploads files in CPA

ActionTypes == {"delete", "reauth", "review"}
Decisions == {"ignored", "resolved", "deleted"}
Status == Decisions \cup {"pending"}

ASSUME IssueConstantsOK ==
    /\ NoAccount \notin Accounts /\ Accounts \cap Labels = {}
    /\ Types \subseteq ActionTypes
    /\ QueueSize \in Nat \ {0}
    /\ Env \subseteq Disturbances
    /\ MaxRows \in Nat /\ MaxUploads \in Nat

VARIABLES
    files,        \* the auth files as CPA holds them
    uploads,      \* history: how often a file was uploaded
    autoDisabled, \* history: files the worker disabled and nobody enabled since
    candidates,   \* account_action_candidates; a row's id is its position
    autoDisable,  \* the worker's flag
    jobs,         \* the worker's channel
    work,         \* the candidate the run loop is about to disable the file of
    request       \* per admin: the Enable or DeleteAuthFile under way

vars == <<files, uploads, autoDisabled, candidates, autoDisable, jobs, work, request>>
cpaVars == <<files, uploads, autoDisabled>>
workerVars == <<autoDisable, jobs, work>>

File == [present : BOOLEAN, account : Accounts, disabled : BOOLEAN]

\* One pending row per issue: file, type, auth_index and account id.
Issue == [file : Files, type : Types, account : Accounts \cup {NoAccount}]
Snapshot == Accounts \cup Labels
Row == [issue : Issue, snapshot : Snapshot, status : Status]
Job == [issue : Issue, snapshot : Snapshot]

\* A row as it was read, and the upload that was looked at since.
Held == [id : Nat \ {0}, issue : Issue, snapshot : Snapshot, seen : 0..MaxUploads]
Work == [step : {"fetch", "disable"}, item : Held]
Request == [step : {"fetch", "call", "mark"}, op : {"enable", "delete"}, item : Held]

NoWork == [step |-> "none"]

TypeOK ==
    /\ files \in [Files -> File]
    /\ uploads \in [Files -> 0..MaxUploads]
    /\ autoDisabled \subseteq Files
    /\ candidates \in Seq(Row) /\ Len(candidates) <= MaxRows
    /\ autoDisable \in BOOLEAN
    /\ jobs \in Seq(Job) /\ Len(jobs) <= QueueSize
    /\ work \in Work \cup {NoWork}
    /\ request \in [Admins -> Request \cup {NoWork}]

Init ==
    /\ files \in [Files -> [present : {TRUE}, account : Accounts, disabled : {FALSE}]]
    /\ uploads = [f \in Files |-> 0]
    /\ autoDisabled = {}
    /\ candidates = <<>>
    /\ autoDisable \in BOOLEAN
    /\ jobs = <<>>
    /\ work = NoWork
    /\ request = [a \in Admins |-> NoWork]

-----------------------------------------------------------------------------
(* repository/accountaction *)

PendingOf(issue) ==
    {i \in DOMAIN candidates :
        candidates[i].issue = issue /\ candidates[i].status = "pending"}

HeldRow(id, row) ==
    [id |-> id, issue |-> row.issue, snapshot |-> row.snapshot, seen |-> 0]

NewRow(job) == [issue |-> job.issue, snapshot |-> job.snapshot, status |-> "pending"]

\* One transaction: a hit on the issue's pending row, which takes over the
\* event's account snapshot, or a new row.
Upsert(job, id) ==
    \/ /\ id \in PendingOf(job.issue)
       /\ candidates' = [candidates EXCEPT ![id].snapshot = job.snapshot]
    \/ /\ PendingOf(job.issue) = {}
       /\ id = Len(candidates) + 1
       /\ candidates' = Append(candidates, NewRow(job))

UpdateAnyStatus(id, status) == candidates' = [candidates EXCEPT ![id].status = status]

\* where id = ? and status = 'pending'; another status is an error.
UpdatePendingStatus(id, status) ==
    candidates' = IF candidates[id].status = "pending"
                  THEN [candidates EXCEPT ![id].status = status] ELSE candidates

-----------------------------------------------------------------------------
(* cpaauthfiles: the identity is verified in a listing, while PATCH and     *)
(* DELETE name the file alone.  CPA refuses them when it has no such file.  *)

VerifyIssueOnly(item) ==
    /\ files[item.issue.file].present
    /\ item.issue.account \in {NoAccount, files[item.issue.file].account}

VerifyIdentity(item) ==
    /\ files[item.issue.file].present
    /\ item.issue.account \in {NoAccount, files[item.issue.file].account}
    /\ item.snapshot = files[item.issue.file].account

PatchDisabled(f, disabled) ==
    /\ files[f].present
    /\ files' = [files EXCEPT ![f].disabled = disabled]
    /\ UNCHANGED uploads

Delete(f) ==
    /\ files[f].present
    /\ files' = [files EXCEPT ![f].present = FALSE, ![f].disabled = FALSE]
    /\ autoDisabled' = autoDisabled \ {f}
    /\ UNCHANGED uploads

CallFails(f) ==
    /\ "call" \in Env \/ ~files[f].present
    /\ UNCHANGED cpaVars

-----------------------------------------------------------------------------
(* The worker *)

EnqueueOneTooMany(job) ==
    jobs' = IF Len(jobs) <= QueueSize THEN Append(jobs, job) ELSE jobs

Enqueue(job) ==
    jobs' = IF Len(jobs) < QueueSize THEN Append(jobs, job) ELSE jobs

\* On the collector's goroutine: an event of some account becomes a candidate,
\* or is dropped when the channel is full.  The event may lack what identifies
\* the account, and may have a label for its name.
HandleUsageEvents(f, type, a) ==
    /\ \E account \in {a, NoAccount}, snapshot \in {a} \cup Labels :
          Enqueue([issue |-> [file |-> f, type |-> type, account |-> account],
                   snapshot |-> snapshot])
    /\ UNCHANGED <<cpaVars, candidates, autoDisable, work, request>>

\* By the handler before it hands events over, and by AutomationRuntime.Reload.
SetAutoDisable(enabled) ==
    /\ autoDisable' = enabled
    /\ UNCHANGED <<cpaVars, candidates, jobs, work, request>>

Eligible(type) == type \in {"delete", "reauth"}

HandleCandidate ==
    /\ work = NoWork
    /\ jobs # <<>>
    /\ jobs' = Tail(jobs)
    /\ \E id \in 1..MaxRows :
          /\ Upsert(Head(jobs), id)
          /\ work' = IF autoDisable /\ Eligible(Head(jobs).issue.type)
                     THEN [step |-> "fetch", item |-> HeldRow(id, candidates'[id])]
                     ELSE NoWork
    /\ UNCHANGED <<cpaVars, autoDisable, request>>

GoOnWithoutRow ==
    /\ work = NoWork
    /\ jobs # <<>>
    /\ jobs' = Tail(jobs)
    /\ "db" \in Env
    /\ work' = [step |-> "fetch", item |-> HeldRow(1, NewRow(Head(jobs)))]
    /\ UNCHANGED <<cpaVars, candidates, autoDisable, request>>

\* The row cannot be written, which ends the candidate; or the row is written
\* and there is no address to go on with.
HandleCandidateFails ==
    /\ work = NoWork
    /\ jobs # <<>>
    /\ jobs' = Tail(jobs)
    /\ \/ "db" \in Env /\ UNCHANGED candidates
       \/ "unconfigured" \in Env /\ \E id \in 1..MaxRows : Upsert(Head(jobs), id)
    /\ UNCHANGED <<cpaVars, autoDisable, work, request>>

Looked(item) == [item EXCEPT !.seen = uploads[item.issue.file]]

\* maybeAutoDisable, its GET.
FetchBeforeDisable ==
    /\ work.step = "fetch"
    /\ \/ /\ VerifyIdentity(work.item)
          /\ work' = IF files[work.item.issue.file].disabled THEN NoWork
                     ELSE [step |-> "disable", item |-> Looked(work.item)]
       \/ /\ ~VerifyIdentity(work.item) \/ "fetch" \in Env
          /\ work' = NoWork
    /\ UNCHANGED <<cpaVars, candidates, autoDisable, jobs, request>>

\* maybeAutoDisable, its PATCH; an error would only be recorded.
Disable ==
    /\ work.step = "disable"
    /\ LET f == work.item.issue.file IN
       \/ /\ PatchDisabled(f, TRUE)
          /\ autoDisabled' = IF files[f].disabled THEN autoDisabled ELSE autoDisabled \cup {f}
       \/ CallFails(f)
    /\ work' = NoWork
    /\ UNCHANGED <<candidates, autoDisable, jobs, request>>

-----------------------------------------------------------------------------
(* The service *)

\* Ignore and Resolve
Decide(id, status) ==
    /\ UpdatePendingStatus(id, status)
    /\ UNCHANGED <<cpaVars, workerVars, request>>

\* Enable and DeleteAuthFile read the candidate, which has to be pending, ...
Begin(a, id, op) ==
    /\ request[a] = NoWork
    /\ candidates[id].status = "pending"
    /\ request' = [request EXCEPT
          ![a] = [step |-> "fetch", op |-> op, item |-> HeldRow(id, candidates[id])]]
    /\ UNCHANGED <<cpaVars, workerVars, candidates>>

Answer(a) == request' = [request EXCEPT ![a] = NoWork]

\* ... verify the auth file in a listing, ...
Verify(a) ==
    /\ request[a].step = "fetch"
    /\ \/ /\ VerifyIdentity(request[a].item)
          /\ request' = [request EXCEPT ![a].step = "call", ![a].item = Looked(@)]
       \/ /\ ~VerifyIdentity(request[a].item) \/ "fetch" \in Env
          /\ Answer(a)
    /\ UNCHANGED <<cpaVars, workerVars, candidates>>

Applied(a) ==
    LET f == request[a].item.issue.file IN
    \/ /\ request[a].op = "enable"
       /\ PatchDisabled(f, FALSE)
       /\ autoDisabled' = autoDisabled \ {f}
    \/ request[a].op = "delete" /\ Delete(f)

MarkAnyway(a) ==
    /\ request[a].step = "call"
    /\ Applied(a) \/ CallFails(request[a].item.issue.file)
    /\ request' = [request EXCEPT ![a].step = "mark"]
    /\ UNCHANGED <<workerVars, candidates>>

\* ... call CPA, ...
Call(a) ==
    /\ request[a].step = "call"
    /\ \/ Applied(a) /\ request' = [request EXCEPT ![a].step = "mark"]
       \/ "lost" \in Env /\ Applied(a) /\ Answer(a)
       \/ CallFails(request[a].item.issue.file) /\ Answer(a)
    /\ UNCHANGED <<workerVars, candidates>>

\* ... and close the candidate if it still is pending.
Mark(a) ==
    /\ request[a].step = "mark"
    /\ \/ UpdatePendingStatus(request[a].item.id,
                              IF request[a].op = "delete" THEN "deleted" ELSE "resolved")
       \/ "db" \in Env /\ UNCHANGED candidates
    /\ Answer(a)
    /\ UNCHANGED <<cpaVars, workerVars>>

-----------------------------------------------------------------------------
(* The process and the operator *)

Restart ==
    /\ "crash" \in Env
    /\ autoDisable' \in BOOLEAN
    /\ jobs' = <<>>
    /\ work' = NoWork
    /\ request' = [a \in Admins |-> NoWork]
    /\ UNCHANGED <<cpaVars, candidates>>

OperatorToggle(f) ==
    /\ "toggle" \in Env
    /\ PatchDisabled(f, ~files[f].disabled)
    /\ autoDisabled' = autoDisabled \ {f}
    /\ UNCHANGED <<workerVars, candidates, request>>

OperatorDelete(f) ==
    /\ "replace" \in Env
    /\ Delete(f)
    /\ UNCHANGED <<workerVars, candidates, request>>

OperatorUpload(f, account) ==
    /\ "replace" \in Env
    /\ uploads[f] < MaxUploads
    /\ files' = [files EXCEPT ![f] = [present |-> TRUE, account |-> account, disabled |-> FALSE]]
    /\ uploads' = [uploads EXCEPT ![f] = @ + 1]
    /\ autoDisabled' = autoDisabled \ {f}
    /\ UNCHANGED <<workerVars, candidates, request>>

-----------------------------------------------------------------------------

RunLoop == HandleCandidate \/ HandleCandidateFails \/ FetchBeforeDisable \/ Disable

Admin(a) ==
    \/ \E id \in DOMAIN candidates, op \in {"enable", "delete"} : Begin(a, id, op)
    \/ Verify(a) \/ Call(a) \/ Mark(a)

Operator(f) ==
    \/ OperatorToggle(f) \/ OperatorDelete(f)
    \/ \E account \in Accounts : OperatorUpload(f, account)

Next ==
    \/ \E f \in Files, type \in Types, a \in Accounts : HandleUsageEvents(f, type, a)
    \/ \E enabled \in BOOLEAN : SetAutoDisable(enabled)
    \/ RunLoop
    \/ \E id \in DOMAIN candidates, status \in {"ignored", "resolved"} : Decide(id, status)
    \/ \E a \in Admins : Admin(a)
    \/ Restart
    \/ \E f \in Files : Operator(f)

Spec == Init /\ [][Next]_vars
-----------------------------------------------------------------------------
(* Safety *)

\* An issue waits for one decision, not two (Upsert; the index
\* idx_account_action_candidates_pending_identity_action).
OnePendingPerIssue ==
    \A i, j \in DOMAIN candidates :
        /\ candidates[i].issue = candidates[j].issue
        /\ candidates[i].status = "pending" /\ candidates[j].status = "pending"
        => i = j

OpenIssues ==
    {candidates[i].issue : i \in {j \in DOMAIN candidates : candidates[j].status = "pending"}}

ClosedCases ==
    {[id |-> i, issue |-> candidates[i].issue, decision |-> candidates[i].status] :
        i \in {j \in DOMAIN candidates : candidates[j].status # "pending"}}

\* The table is the queue IssueQueue describes: reporting an issue again opens no
\* second case, one of several admins closes it, and what was decided stays
\* decided (Upsert against updateStatus).
Queue == INSTANCE IssueQueue WITH
    Issues <- Issue, Ids <- 1..MaxRows, open <- OpenIssues, closed <- ClosedCases

ImplementsQueue == Queue!Spec

StillThere(item) == files[item.issue.file].present /\ uploads[item.issue.file] = item.seen

\* When a candidate is closed as deleted, the very file its admin verified is no
\* longer in CPA, whatever was uploaded since, and whatever failed
\* (DeleteAuthFile).
DeletedMeansGone ==
    [][candidates' # candidates =>
          \A a \in Admins : Mark(a) /\ request[a].op = "delete" => ~StillThere(request[a].item)]_vars

\* A call that disables, enables or deletes a file finds there the account the
\* candidate is about, unless the file was replaced after the check
\* (VerifyIdentity; maybeAutoDisable, Enable, DeleteAuthFile).
HitsTheAccount(item) ==
    StillThere(item) => files[item.issue.file].account = item.snapshot

CallsHitTheAccount ==
    [][files' # files =>
          /\ Disable => HitsTheAccount(work.item)
          /\ \A a \in Admins : Call(a) => HitsTheAccount(request[a].item)]_vars

\* The worker disables no file without a row that tells the admins why, whatever
\* fails or crashes (handleCandidate).
DisableOnRecord ==
    \A f \in autoDisabled : \E i \in DOMAIN candidates :
        candidates[i].issue.file = f /\ Eligible(candidates[i].issue.type)
=============================================================================
