--------------------------- MODULE QuotaCooldown ---------------------------
(***************************************************************************)
(* The Codex usage-limit cooldown: RateLimitAutoDisableWorker              *)
(* (worker/rate_limit_auto_disable.go) with its table quota_cooldowns      *)
(* (repository/quotacooldown).  A 429 usage_limit_reached event disables a *)
(* CPA auth file and records until when; once that time is reached the     *)
(* file is enabled again.                                                  *)
(*                                                                         *)
(* Goroutines: the worker's run loop handles one candidate or one sweep of *)
(* due cooldowns at a time; every start of the collector adds a goroutine  *)
(* (an element of Syncs) that runs UpdateRuntimeConfig, hence a sweep of   *)
(* its own.  A step is one HTTP call to CPA or one SQL transaction.        *)
(*                                                                         *)
(* The columns owner and pre_disabled_state are left out: the worker is    *)
(* the table's only writer and always stores its own owner and FALSE, so   *)
(* the two guards on them (lines 281-292) never hold.                      *)
(***************************************************************************)
EXTENDS Naturals, FiniteSets, Sequences

CONSTANTS
    Files,      \* auth file names
    Indexes,    \* non-empty auth indexes
    NoIndex,    \* the empty auth index
    Syncs,      \* goroutines running UpdateRuntimeConfig
    QueueSize,  \* quotaAutoDisableQueueSize
    DueLimit,   \* quotaCooldownDueLimit
    Env,        \* what the environment does in this instance
    MaxTime,    \* bound: the clock stops here
    MaxRows     \* bound: no candidate is taken once the table has as many rows

Disturbances ==
    { "fetch",    \* a GET of the auth files fails
      "patch",    \* a PATCH fails and changes nothing
      "lost",     \* a PATCH is applied but its answer is lost
      "db",       \* a SQL statement fails
      "cancel",   \* the collector is stopped, which cancels a sync's context
      "crash",    \* the process restarts
      "toggle",   \* an operator disables and enables files in CPA
      "replace" } \* an operator deletes and uploads files in CPA

ASSUME ConstantsOK ==
    /\ NoIndex \notin Indexes
    /\ "loop" \notin Syncs
    /\ QueueSize \in Nat \ {0}
    /\ DueLimit \in Nat \ {0}
    /\ Env \subseteq Disturbances
    /\ MaxTime \in Nat
    /\ MaxRows \in Nat

VARIABLES
    now,        \* the clock
    cpa,        \* the auth files as CPA holds them
    holder,     \* history: who disabled a file ("none" when it is enabled)
    cooldowns,  \* the table quota_cooldowns; a row's id is its position
    configured, \* whether the worker knows CPA's URL and management key
    jobs,       \* the channel of candidates
    cand,       \* the candidate the run loop is handling
    sweep       \* per goroutine: the sweep of due cooldowns it is running

vars == <<now, cpa, holder, cooldowns, configured, jobs, cand, sweep>>
workerVars == <<configured, jobs, cand, sweep>>

Time == 1..MaxTime
AuthIndex == Indexes \cup {NoIndex}
Sweepers == Syncs \cup {"loop"}

AuthFile == [present : BOOLEAN, index : AuthIndex, disabled : BOOLEAN]

Row == [file : Files, index : AuthIndex, recoverAt : Time,
        status : {"active", "recovered", "skipped"}]
Job == [file : Files, index : AuthIndex, resetAt : Time]

\* What a sweep keeps of a row it listed.
Item == [id : Nat \ {0}, file : Files, index : AuthIndex, recoverAt : Time]

\* A candidate being handled, and the index its file had when last fetched.
Cand == [step : {"fetch", "disable", "persist", "rollback", "lookup", "extend"},
         job : Job, seen : AuthIndex]

Sweep == [step : {"none", "fetch", "enable", "mark", "skip"}, due : SUBSET Item]

NoCand == [step |-> "none"]
NoSweep == [step |-> "none", due |-> {}]

TypeOK ==
    /\ now \in 0..MaxTime
    /\ cpa \in [Files -> AuthFile]
    /\ holder \in [Files -> {"none", "worker", "operator"}]
    /\ cooldowns \in Seq(Row)
    /\ configured \in BOOLEAN
    /\ jobs \in Seq(Job)
    /\ Len(jobs) <= QueueSize
    /\ cand \in {NoCand} \cup Cand
    /\ sweep \in [Sweepers -> Sweep]

-----------------------------------------------------------------------------
(* repository/quotacooldown *)

FirstNonEmpty(a, b) == IF a # NoIndex THEN a ELSE b

LastReported(s, t) == t

Later(s, t) == IF s >= t THEN s ELSE t

AnyRows(f) == {i \in DOMAIN cooldowns : cooldowns[i].file = f}

ActiveRows(f) ==
    {i \in DOMAIN cooldowns : cooldowns[i].file = f /\ cooldowns[i].status = "active"}

ActiveRow(f, idx, t) == [file |-> f, index |-> idx, recoverAt |-> t, status |-> "active"]

AlwaysInsert(f, idx, t) == cooldowns' = Append(cooldowns, ActiveRow(f, idx, t))

\* One transaction: the active row of the file is prolonged, or a row inserted.
UpsertActive(f, idx, t) ==
    \/ \E i \in ActiveRows(f) : cooldowns' =
          [cooldowns EXCEPT ![i] = ActiveRow(f, idx, Later(cooldowns[i].recoverAt, t))]
    \/ ActiveRows(f) = {} /\ cooldowns' = Append(cooldowns, ActiveRow(f, idx, t))

SetStatus(id, s) == cooldowns' = [cooldowns EXCEPT ![id].status = s]

ActiveIds == {i \in DOMAIN cooldowns : cooldowns[i].status = "active"}

DueIds ==
    {i \in DOMAIN cooldowns : cooldowns[i].status = "active" /\ cooldowns[i].recoverAt <= now}

\* order by recover_at_ms asc, id asc
Before(a, b) == a.recoverAt < b.recoverAt \/ (a.recoverAt = b.recoverAt /\ a.id < b.id)

ItemOf(i) == [id |-> i, file |-> cooldowns[i].file, index |-> cooldowns[i].index,
              recoverAt |-> cooldowns[i].recoverAt]

ListDueBelowLimit ==
    LET due == {ItemOf(i) : i \in DueIds}
    IN  {x \in due : Cardinality({y \in due : ~Before(x, y)}) < DueLimit}

\* The first DueLimit of the due rows.
ListDue ==
    LET due == {ItemOf(i) : i \in DueIds}
    IN  {x \in due : Cardinality({y \in due : Before(y, x)}) < DueLimit}

-----------------------------------------------------------------------------
(* cpaauthfiles.Find and PatchDisabled: a PATCH names the file, not its     *)
(* index, and CPA refuses it when it has no such file.                      *)

Found(f, idx) == cpa[f].present /\ (idx = NoIndex \/ cpa[f].index = idx)

\* Disabling a file an operator has disabled already leaves it the operator's.
PatchDisable(f) ==
    /\ cpa[f].present
    /\ cpa' = [cpa EXCEPT ![f].disabled = TRUE]
    /\ holder' = [holder EXCEPT ![f] = IF cpa[f].disabled THEN @ ELSE "worker"]

PatchEnable(f) ==
    /\ cpa[f].present
    /\ cpa' = [cpa EXCEPT ![f].disabled = FALSE]
    /\ holder' = [holder EXCEPT ![f] = "none"]

PatchFails(f) ==
    /\ "patch" \in Env \/ ~cpa[f].present
    /\ UNCHANGED <<cpa, holder>>

Init ==
    /\ now = 0
    /\ cpa \in [Files -> [present : {TRUE}, index : AuthIndex, disabled : {FALSE}]]
    /\ holder = [f \in Files |-> "none"]
    /\ cooldowns = <<>>
    /\ configured \in BOOLEAN
    /\ jobs = <<>>
    /\ cand = NoCand
    /\ sweep = [g \in Sweepers |-> NoSweep]

-----------------------------------------------------------------------------
(* HandleUsageEvents, on the collector's goroutine: a new 429 event becomes *)
(* a candidate, or is dropped when the channel is full.  Its reset time is  *)
(* what CPA's answer said; it may have passed already.                      *)

EnqueueOneTooMany(q, job) == IF Len(q) <= QueueSize THEN Append(q, job) ELSE q

Enqueue(q, job) == IF Len(q) < QueueSize THEN Append(q, job) ELSE q

HandleUsageEvents(f, idx, t) ==
    /\ configured' = TRUE
    /\ jobs' = Enqueue(jobs, [file |-> f, index |-> idx, resetAt |-> t])
    /\ UNCHANGED <<now, cpa, holder, cooldowns, cand, sweep>>

-----------------------------------------------------------------------------
(* handleCandidate, on the run loop *)

LoopFree == cand = NoCand /\ sweep["loop"].step = "none"

TakeCandidate ==
    /\ LoopFree
    /\ jobs # <<>>
    /\ Len(cooldowns) < MaxRows
    /\ jobs' = Tail(jobs)
    /\ cand' = IF Head(jobs).resetAt > now
               THEN [step |-> "fetch", job |-> Head(jobs), seen |-> NoIndex]
               ELSE NoCand
    /\ UNCHANGED <<now, cpa, holder, cooldowns, configured, sweep>>

\* The auth file is disabled next, or its cooldown extended, or there is
\* nothing to do: the GET failed or found no such file.
FetchBeforeDisable ==
    /\ cand.step = "fetch"
    /\ LET f == cand.job.file IN
       \/ /\ Found(f, cand.job.index)
          /\ cand' = [cand EXCEPT !.step = IF cpa[f].disabled THEN "lookup" ELSE "disable",
                                  !.seen = cpa[f].index]
       \/ /\ ~Found(f, cand.job.index) \/ "fetch" \in Env
          /\ cand' = NoCand
    /\ UNCHANGED <<now, cpa, holder, cooldowns, configured, jobs, sweep>>

Disable ==
    /\ cand.step = "disable"
    /\ \/ PatchDisable(cand.job.file) /\ cand' = [cand EXCEPT !.step = "persist"]
       \/ "lost" \in Env /\ PatchDisable(cand.job.file) /\ cand' = NoCand
       \/ PatchFails(cand.job.file) /\ cand' = NoCand
    /\ UNCHANGED <<now, cooldowns, configured, jobs, sweep>>

PersistOrGiveUp ==
    /\ cand.step = "persist"
    /\ \/ UpsertActive(cand.job.file, FirstNonEmpty(cand.job.index, cand.seen), cand.job.resetAt)
       \/ "db" \in Env /\ UNCHANGED cooldowns
    /\ cand' = NoCand
    /\ UNCHANGED <<now, cpa, holder, configured, jobs, sweep>>

Persist ==
    /\ cand.step = "persist"
    /\ \/ /\ UpsertActive(cand.job.file, FirstNonEmpty(cand.job.index, cand.seen),
                          cand.job.resetAt)
          /\ cand' = NoCand
       \/ /\ "db" \in Env
          /\ cand' = [cand EXCEPT !.step = "rollback"]
          /\ UNCHANGED cooldowns
    /\ UNCHANGED <<now, cpa, holder, configured, jobs, sweep>>

Rollback ==
    /\ cand.step = "rollback"
    /\ PatchEnable(cand.job.file) \/ PatchFails(cand.job.file)
    /\ cand' = NoCand
    /\ UNCHANGED <<now, cooldowns, configured, jobs, sweep>>

\* extendExistingCooldown reads the active rows ...
LookupActive ==
    /\ cand.step = "lookup"
    /\ \/ \E i \in ActiveRows(cand.job.file) :
             /\ cooldowns[i].index \in {NoIndex, cand.seen}
             /\ cand' = [cand EXCEPT !.step = "extend",
                                     !.seen = FirstNonEmpty(cooldowns[i].index, @)]
       \/ /\ \/ "db" \in Env
             \/ \A i \in ActiveRows(cand.job.file) :
                   cooldowns[i].index \notin {NoIndex, cand.seen}
          /\ cand' = NoCand
    /\ UNCHANGED <<now, cpa, holder, cooldowns, configured, jobs, sweep>>

\* ... and writes in a transaction of its own.
Extend ==
    /\ cand.step = "extend"
    /\ \/ UpsertActive(cand.job.file, FirstNonEmpty(cand.job.index, cand.seen),
                       cand.job.resetAt)
       \/ "db" \in Env /\ UNCHANGED cooldowns
    /\ cand' = NoCand
    /\ UNCHANGED <<now, cpa, holder, configured, jobs, sweep>>

-----------------------------------------------------------------------------
(* enableDue and recoverCooldown, on the run loop and on the syncs *)

\* The sweep takes its items in the order they were listed.
IsCurrent(g, x) == \A y \in sweep[g].due : ~Before(y, x)

\* The sweep is done with item x.
Advance(g, x) ==
    LET rest == sweep[g].due \ {x}
    IN  sweep' = [sweep EXCEPT
            ![g] = IF rest = {} THEN NoSweep ELSE [step |-> "fetch", due |-> rest]]

GoTo(g, step) == sweep' = [sweep EXCEPT ![g].step = step]

StartSweep(g) ==
    sweep' = [sweep EXCEPT
        ![g] = IF ListDue = {} THEN NoSweep ELSE [step |-> "fetch", due |-> ListDue]]

\* The run loop's ticker, and its sweep on start.
Tick ==
    /\ LoopFree
    /\ configured
    /\ StartSweep("loop")
    /\ UNCHANGED <<now, cpa, holder, cooldowns, configured, jobs, cand>>

UpdateRuntimeConfig(g) ==
    /\ sweep[g].step = "none"
    /\ configured' = TRUE
    /\ StartSweep(g)
    /\ UNCHANGED <<now, cpa, holder, cooldowns, jobs, cand>>

\* After a failed GET the failure is recorded on the row, which stays active.
FetchBeforeEnable(g, x) ==
    /\ sweep[g].step = "fetch"
    /\ \/ ~Found(x.file, x.index) /\ GoTo(g, "skip")
       \/ Found(x.file, x.index) /\ cpa[x.file].disabled /\ GoTo(g, "enable")
       \/ Found(x.file, x.index) /\ ~cpa[x.file].disabled /\ GoTo(g, "mark")
       \/ "fetch" \in Env /\ Advance(g, x)
    /\ UNCHANGED <<now, cpa, holder, cooldowns, configured, jobs, cand>>

Enable(g, x) ==
    /\ sweep[g].step = "enable"
    /\ PatchEnable(x.file)
    /\ GoTo(g, "mark") \/ ("lost" \in Env /\ Advance(g, x))
    /\ UNCHANGED <<now, cooldowns, configured, jobs, cand>>

EnableFails(g, x) ==
    /\ sweep[g].step = "enable"
    /\ PatchFails(x.file)
    /\ Advance(g, x)
    /\ UNCHANGED <<now, cooldowns, configured, jobs, cand>>

\* MarkRecovered and MarkSkipped: the row is found by its id alone.  Their
\* error is not acted on.
Mark(g, x) ==
    /\ \/ sweep[g].step = "mark" /\ SetStatus(x.id, "recovered")
       \/ sweep[g].step = "skip" /\ SetStatus(x.id, "skipped")
       \/ /\ sweep[g].step \in {"mark", "skip"}
          /\ "db" \in Env
          /\ UNCHANGED cooldowns
    /\ Advance(g, x)
    /\ UNCHANGED <<now, cpa, holder, configured, jobs, cand>>

\* The collector is stopped or started again: the sync's context is
\* cancelled, and every call it has left fails.
CancelSync(g) ==
    /\ "cancel" \in Env
    /\ sweep[g].step # "none"
    /\ sweep' = [sweep EXCEPT ![g] = NoSweep]
    /\ UNCHANGED <<now, cpa, holder, cooldowns, configured, jobs, cand>>

-----------------------------------------------------------------------------
(* The environment: the clock, restarts of the process and the operator.    *)

Clock ==
    /\ now < MaxTime
    /\ now' = now + 1
    /\ UNCHANGED <<cpa, holder, cooldowns, workerVars>>

\* The worker starts with the URL and key of the environment, if it has them.
Restart ==
    /\ "crash" \in Env
    /\ configured' \in BOOLEAN
    /\ jobs' = <<>>
    /\ cand' = NoCand
    /\ sweep' = [g \in Sweepers |-> NoSweep]
    /\ UNCHANGED <<now, cpa, holder, cooldowns>>

OperatorDisable(f) ==
    /\ "toggle" \in Env
    /\ cpa[f].present /\ ~cpa[f].disabled
    /\ cpa' = [cpa EXCEPT ![f].disabled = TRUE]
    /\ holder' = [holder EXCEPT ![f] = "operator"]
    /\ UNCHANGED <<now, cooldowns, workerVars>>

OperatorEnable(f) ==
    /\ "toggle" \in Env
    /\ cpa[f].disabled
    /\ PatchEnable(f)
    /\ UNCHANGED <<now, cooldowns, workerVars>>

OperatorDelete(f) ==
    /\ "replace" \in Env
    /\ cpa[f].present
    /\ cpa' = [cpa EXCEPT ![f] = [@ EXCEPT !.present = FALSE, !.disabled = FALSE]]
    /\ holder' = [holder EXCEPT ![f] = "none"]
    /\ UNCHANGED <<now, cooldowns, workerVars>>

OperatorUpload(f, idx) ==
    /\ "replace" \in Env
    /\ ~cpa[f].present
    /\ cpa' = [cpa EXCEPT ![f] = [present |-> TRUE, index |-> idx, disabled |-> FALSE]]
    /\ UNCHANGED <<now, holder, cooldowns, workerVars>>

-----------------------------------------------------------------------------

HandleCandidate ==
    TakeCandidate \/ FetchBeforeDisable \/ Disable \/ Persist \/ Rollback
        \/ LookupActive \/ Extend

RecoverCooldown(g) ==
    \E x \in sweep[g].due :
        /\ IsCurrent(g, x)
        /\ FetchBeforeEnable(g, x) \/ Enable(g, x) \/ EnableFails(g, x) \/ Mark(g, x)

Operator(f) ==
    \/ OperatorDisable(f) \/ OperatorEnable(f) \/ OperatorDelete(f)
    \/ \E idx \in AuthIndex : OperatorUpload(f, idx)

WorkerNext ==
    \/ \E f \in Files, idx \in AuthIndex, t \in Time : HandleUsageEvents(f, idx, t)
    \/ HandleCandidate
    \/ Tick
    \/ \E g \in Syncs : UpdateRuntimeConfig(g) \/ CancelSync(g)
    \/ \E g \in Sweepers : RecoverCooldown(g)
    \/ Clock
    \/ Restart

Next == WorkerNext \/ \E f \in Files : Operator(f)

Spec == Init /\ [][Next]_vars
-----------------------------------------------------------------------------
(* Safety *)

\* A file has at most one active cooldown, however candidates and sweeps
\* interleave (UpsertActive; the index idx_quota_cooldowns_active_owner).
OneActivePerFile ==
    \A i, j \in DOMAIN cooldowns :
        /\ cooldowns[i].file = cooldowns[j].file
        /\ cooldowns[i].status = "active" /\ cooldowns[j].status = "active"
        => i = j

\* What a sweep works on is a stale copy: its row still is of the same file,
\* was due when listed, and may only have been prolonged since
\* (ListDue against UpsertActive on the run loop).
SweepSnapshots ==
    \A g \in Sweepers : \A x \in sweep[g].due :
        /\ x.id \in DOMAIN cooldowns
        /\ x.recoverAt <= now
        /\ cooldowns[x.id].file = x.file
        /\ cooldowns[x.id].recoverAt >= x.recoverAt

\* A closed cooldown is history: nothing reopens it or moves its recovery time
\* (MarkRecovered and MarkSkipped find it by id, whatever its status is).
ClosedStaysClosed ==
    [][\A i \in DOMAIN cooldowns : cooldowns[i].status # "active" =>
          /\ cooldowns'[i].status # "active"
          /\ cooldowns'[i].recoverAt = cooldowns[i].recoverAt]_vars

BeingDisabled(f) == cand.step \in {"persist", "rollback"} /\ cand.job.file = f

\* "Temporary disables are persisted": a file the worker disabled has an active
\* cooldown, which will enable it again, once the worker is done disabling it
\* (handleCandidate against recoverCooldown).
DisableIsOwned ==
    \A f \in Files :
        holder[f] = "worker" /\ ~BeingDisabled(f) => ActiveRows(f) # {}

EnabledByRecovery(f) ==
    /\ \E g \in Sweepers : \E x \in sweep[g].due : Enable(g, x) /\ x.file = f
    /\ cpa[f].disabled

Expired(i) == cooldowns[i].recoverAt <= now

\* Recovery enables a file only while it has an active cooldown, and only when
\* that cooldown has run out (recoverCooldown).
EnableOnlyWhenDue ==
    [][\A f \in Files : EnabledByRecovery(f) =>
          /\ ActiveRows(f) # {}
          /\ \A i \in ActiveRows(f) : Expired(i)]_vars

\* A cooldown that has not run out is not merely a row: CPA has the file
\* disabled (handleCandidate, extendExistingCooldown and recoverCooldown
\* together keep table and CPA in step).
HoldIsEffective ==
    \A f \in Files : \A i \in ActiveRows(f) : Expired(i) \/ cpa[f].disabled

\* The table, seen as one hold per file, is what AccountHold promises.
Until(f) ==
    IF ActiveRows(f) = {} THEN 0 ELSE cooldowns[CHOOSE i \in ActiveRows(f) : TRUE].recoverAt

Abstract == INSTANCE AccountHold WITH until <- [f \in Files |-> Until(f)]

\* UpsertActive and the sweep implement a hold that is only ever prolonged, and
\* lifted only when it has run out.
ImplementsHold == Abstract!Spec

-----------------------------------------------------------------------------
(* Liveness.  The goroutines run, Go's select does not starve a ready case,  *)
(* and a call that is made again and again succeeds in the end.  No operator *)
(* takes a hand, so that TLC can explore two files to the end.               *)

GetSucceeds(g) ==
    RecoverCooldown(g) /\ sweep[g].step = "fetch" /\ sweep'[g].step \in {"enable", "mark", "skip"}
PatchSucceeds(g) ==
    RecoverCooldown(g) /\ sweep[g].step = "enable" /\ sweep'[g].step = "mark"
MarkSucceeds(g) == RecoverCooldown(g) /\ cooldowns' # cooldowns

Fairness ==
    /\ WF_vars(Clock)
    /\ WF_vars(HandleCandidate)
    /\ SF_vars(Tick)
    /\ \A g \in Sweepers :
          /\ WF_vars(RecoverCooldown(g))
          /\ SF_vars(GetSucceeds(g))
          /\ SF_vars(PatchSucceeds(g))
          /\ SF_vars(MarkSucceeds(g))

FairSpec == Init /\ [][WorkerNext]_vars /\ Fairness

Overdue(i) ==
    i \in DOMAIN cooldowns /\ cooldowns[i].status = "active" /\ Expired(i)

\* A cooldown that has run out is closed or prolonged in the end, unless the
\* worker is left without CPA's address (enableDue, recoverCooldown).
DueIsClosed ==
    \A i \in 1..MaxRows : Overdue(i) /\ configured ~> ~Overdue(i) \/ ~configured
-----------------------------------------------------------------------------
(* Where two goroutines, an operator or a call cut short break the promises *)
(* above.  The code prevents none of it; the theorems are about the rest.   *)

WorksOn(g, f) == \E x \in sweep[g].due : x.file = f

Handles(f) == cand # NoCand /\ cand.job.file = f

OneHandPerFile ==
    \A f \in Files :
        /\ \A g, h \in Sweepers : WorksOn(g, f) /\ WorksOn(h, f) => g = h
        /\ \A g \in Sweepers : WorksOn(g, f) => ~Handles(f)

UnderHold(f) == Handles(f) \/ \E i \in ActiveRows(f) : ~Expired(i)

\* An operator takes a file out of the worker's hands.
HoldLifted == \E f \in Files : UnderHold(f) /\ (OperatorEnable(f) \/ OperatorDelete(f))

\* The PATCH is applied but its answer lost; the rollback fails; the process
\* stops before the row is written; or the file is deleted (and perhaps replaced
\* by one of another index) between the GET and the PATCH.
CutShort ==
    \/ Disable /\ cand' = NoCand /\ cpa' # cpa
    \/ Rollback /\ cpa[cand.job.file].disabled /\ cpa' = cpa
    \/ Restart /\ cand.step \in {"persist", "rollback"}
    \/ cand.step = "disable" /\ OperatorDelete(cand.job.file)
=============================================================================
