----------------------- MODULE CodexInspection_proofs -----------------------
(***************************************************************************)
(* Theorems about CodexInspection, for every value of its constants.       *)
(***************************************************************************)
EXTENDS CodexInspection, FiniteSetTheorems, SequenceTheorems, TLAPS

(***************************************************************************)
(* The inductive invariant.  One goroutine at most is past the flag; what  *)
(* it holds of its run agrees with the table; the items it still has to    *)
(* call are of different files, unsettled, and agreed on by the results of *)
(* their file; a success is backed by a call that CPA accepted.            *)
(***************************************************************************)

Active(c) == job[c].step \notin {"idle", "asked"}

Exclusive ==
    /\ \A c \in Callers : Active(c) => running
    /\ \A c, d \in Callers : Active(c) /\ Active(d) => c = d

RowsOK ==
    \A r \in RunIds :
        /\ r > Len(runs) => results[r] = NoResults
        /\ \A a \in Accounts : results[r][a].status = "success" => a \in accepted[r]

\* A goroutine that has found nothing yet.
Fresh(j) ==
    /\ j.found = NoResults /\ j.outcome = NoOutcomes
    /\ j.todo = {} /\ j.busy = {} /\ ~j.cancelled
    /\ j.op = "actions" => j.run \in 1..Len(runs)

Owns(j, status) == j.run \in 1..Len(runs) /\ runs[j.run].status = status

\* An account is listed, unless its file was uploaded since the listing.
Verified(j, a) ==
    /\ j.seen[FileOf[a]] <= uploads[FileOf[a]]
    /\ j.seen[FileOf[a]] = uploads[FileOf[a]] => a \in listed

Probing(j) ==
    /\ j.op = "run" /\ Owns(j, "running")
    /\ j.outcome = NoOutcomes /\ j.busy = {}
    /\ \A a \in Accounts :
          /\ j.found[a].status \notin {"success", "failed", "skipped", "needs_review"}
          /\ results[j.run][a].action # "none" => results[j.run][a] = j.found[a]
          /\ results[j.run][a].action = "none" => results[j.run][a].status = "none"
          /\ ~j.cancelled => results[j.run][a] = j.found[a]
          /\ a \in j.todo => j.found[a].action = "none"
          /\ a \in j.todo \/ j.found[a].action # "none" => Verified(j, a)

\* An account whose file may be called: the selection of an item.
Callable(j, a) ==
    /\ j.found[a].action \in Executable
    /\ j.found[a].status \notin Settled
    /\ \A b \in Accounts :
          FileOf[b] = FileOf[a] /\ j.found[b].action \in Executable
          => j.found[b].action = j.found[a].action

OnePerFile(S) == \A a, b \in S : FileOf[a] = FileOf[b] => a = b

Working(j) ==
    /\ Owns(j, IF j.op = "run" THEN "running" ELSE "completed")
    /\ j.found = results[j.run]
    /\ \A a \in j.todo \cup j.busy : Callable(j, a) /\ j.outcome[a] = "none"
    /\ \A a \in Accounts :
          j.outcome[a] \in {"success", "failed", "refused"} => j.found[a].status \notin Settled

Verifying(j) ==
    /\ j.op = "actions" /\ Working(j)
    /\ CalledBy(j) = {} /\ j.busy = {}
    /\ OnePerFile(j.todo)

Acting(j) ==
    /\ Working(j)
    /\ j.todo \cap j.busy = {}
    /\ OnePerFile(j.todo \cup j.busy \cup CalledBy(j))
    /\ \A a \in j.todo \cup j.busy : Verified(j, a)
    /\ \A a \in Accounts : j.outcome[a] = "success" => a \in accepted[j.run]

JobOK(j) ==
    /\ j.step \in {"idle", "asked", "begin"} => Fresh(j)
    /\ j.step = "list" => Fresh(j) /\ j.op = "run" /\ Owns(j, "running")
                          /\ results[j.run] = NoResults /\ ~j.cancelled
    /\ j.step = "probe" => Probing(j)
    /\ j.step = "verify" => Verifying(j)
    /\ j.step = "act" => Acting(j)

JobsOK == \A c \in Callers : JobOK(job[c])

IInv == TypeOK /\ Exclusive /\ RowsOK /\ JobsOK

(***************************************************************************)
(* Records and types.                                                      *)
(***************************************************************************)

LEMMA RowOfType ==
    ASSUME NEW action \in Actions
    PROVE  RowOf(action) \in Row /\ RowOf(action).action = action
           /\ RowOf(action).status \in {"none", "pending"}
  BY DEF RowOf, Row, Actions, Statuses, Executable

LEMMA IdleType == Idle \in JobType /\ Idle.step = "idle" /\ Fresh(Idle) /\ Fresh(Idle)'
  <1>1. NoResults \in [Accounts -> Row] /\ NoOutcomes \in [Accounts -> Outcomes]
    BY DEF NoResults, NoRow, Row, Statuses, NoOutcomes, Outcomes
  <1>2. [f \in Files |-> 0] \in [Files -> 0..MaxUploads] /\ 0 \in 0..MaxRuns
    BY CodexInspectionAssumption
  <1>3. QED
    BY <1>1, <1>2 DEF Idle, JobType, Fresh

LEMMA AccountsFinite ==
    ASSUME NEW S, S \subseteq Accounts
    PROVE  IsFiniteSet(S) /\ Cardinality(S) \in Nat
  BY CodexInspectionAssumption, FS_Subset, FS_CardinalityType

LEMMA LeastType ==
    ASSUME NEW m \in Nat, NEW n \in Nat
    PROVE  Least(m, n) \in Nat
  BY DEF Least

LEMMA AutoOutcomeType ==
    ASSUME NEW mode, NEW found
    PROVE  /\ AutoOutcome(mode, found) \in [Accounts -> Outcomes]
           /\ \A a \in Accounts :
                 AutoOutcome(mode, found)[a] \in {"none", "skipped", "needs_review"}
  BY DEF AutoOutcome, Outcomes

LEMMA ManualOutcomeType ==
    ASSUME NEW picked, NEW found
    PROVE  /\ ManualOutcome(picked, found) \in [Accounts -> Outcomes]
           /\ \A a \in Accounts :
                 ManualOutcome(picked, found)[a] \in {"none", "skipped", "needs_review"}
  BY DEF ManualOutcome, Outcomes

LEMMA AppliedType ==
    ASSUME NEW found \in [Accounts -> Row], NEW outcome \in [Accounts -> Outcomes]
    PROVE  /\ Applied(found, outcome) \in [Accounts -> Row]
           /\ \A a \in Accounts :
                 /\ Applied(found, outcome)[a].action = found[a].action
                 /\ Applied(found, outcome)[a].status =
                       IF outcome[a] = "none" THEN found[a].status
                       ELSE IF outcome[a] = "refused" THEN "failed" ELSE outcome[a]
  BY DEF Applied, Row, Outcomes, Statuses

LEMMA ActType ==
    ASSUME NEW j \in JobType, NEW items \in SUBSET Accounts,
           NEW outcome \in [Accounts -> Outcomes]
    PROVE  /\ Act(j, items, outcome) \in JobType
           /\ Act(j, items, outcome).step = "act"
           /\ Act(j, items, outcome).op = j.op
           /\ Act(j, items, outcome).run = j.run
           /\ Act(j, items, outcome).found = j.found
           /\ Act(j, items, outcome).seen = j.seen
           /\ Act(j, items, outcome).outcome = outcome
           /\ Act(j, items, outcome).todo = items
           /\ Act(j, items, outcome).busy = {}
  <1>1. Least(DeleteWorkers, Cardinality(items)) \in Nat
    BY AccountsFinite, LeastType, CodexInspectionAssumption
  <1>2. QED
    BY <1>1 DEF Act, JobType

LEMMA ApplyType ==
    ASSUME listed \subseteq Accounts, disabled \subseteq listed,
           NEW action \in Executable, NEW f, Apply(action, f)
    PROVE  /\ listed' \subseteq listed /\ disabled' \subseteq listed'
           /\ uploads' = uploads
           /\ \A a \in listed : FileOf[a] # f => a \in listed'
           /\ action # "delete" => listed' = listed
  <1>1. CASE action = "delete"
    BY <1>1 DEF Apply, OfFile
  <1>2. CASE action = "disable"
    BY <1>2 DEF Apply, OfFile
  <1>3. CASE action = "enable"
    BY <1>3 DEF Apply, OfFile
  <1>4. QED
    BY <1>1, <1>2, <1>3 DEF Executable

LEMMA SetKeeps ==
    ASSUME job \in [Callers -> JobType], NEW c \in Callers, NEW k, Set(c, k)
    PROVE  /\ job'[c] = k
           /\ \A d \in Callers \ {c} : job'[d] = job[d]
           /\ k \in JobType => job' \in [Callers -> JobType]
  BY DEF Set

(***************************************************************************)
(* The goroutines: a step of one leaves the others as they were.           *)
(***************************************************************************)

LEMMA OthersWait ==
    ASSUME IInv, NEW c \in Callers, NEW k, Set(c, k), Active(c), Len(runs) <= Len(runs'),
           Len(runs) \in Nat, Len(runs') \in Nat
    PROVE  \A d \in Callers \ {c} :
              /\ job'[d] = job[d] /\ job[d].step \in {"idle", "asked"}
              /\ JobOK(job[d])'
  <1> SUFFICES ASSUME NEW d \in Callers \ {c}
               PROVE  /\ job'[d] = job[d] /\ job[d].step \in {"idle", "asked"}
                      /\ JobOK(job[d])'
    OBVIOUS
  <1>1. job'[d] = job[d]
    BY SetKeeps DEF IInv, TypeOK
  <1>2. job[d].step \in {"idle", "asked"}
    BY DEF IInv, Exclusive, Active
  <1>3. Fresh(job[d]) /\ job[d] \in JobType
    BY <1>2 DEF IInv, JobsOK, JobOK, TypeOK
  <1>4. PICK e : e = job[d]
    OBVIOUS
  <1>5. Fresh(e)'
    BY <1>3, <1>4 DEF Fresh, JobType
  <1>6. JobOK(e)'
    BY <1>2, <1>4, <1>5 DEF JobOK
  <1>7. job'[d] = e
    BY <1>1, <1>4
  <1>8. QED
    BY <1>1, <1>2, <1>4, <1>6, <1>7

\* The holder of the flag goes on, ...
LEMMA HolderStep ==
    ASSUME IInv, NEW c \in Callers, Active(c), NEW k \in JobType, Set(c, k),
           k.step \notin {"idle", "asked"}, running' = running,
           Len(runs) <= Len(runs'), Len(runs) \in Nat, Len(runs') \in Nat, JobOK(k)'
    PROVE  job' \in [Callers -> JobType] /\ running' \in BOOLEAN /\ Exclusive' /\ JobsOK'
  <1>1. job' \in [Callers -> JobType] /\ job'[c] = k
    BY SetKeeps DEF IInv, TypeOK
  <1>2. \A d \in Callers \ {c} : job'[d] = job[d] /\ job[d].step \in {"idle", "asked"}
    BY OthersWait
  <1>3. running' /\ running' \in BOOLEAN
    BY DEF IInv, Exclusive, TypeOK
  <1>4. Exclusive'
    BY <1>1, <1>2, <1>3 DEF Exclusive, Active
  <1>5. JobsOK'
    <2> SUFFICES ASSUME NEW d \in Callers
                 PROVE  JobOK(job[d])'
      BY DEF JobsOK
    <2>1. CASE d = c
      BY <2>1, <1>1 DEF JobOK, Fresh, Probing, Verifying, Acting, Owns, Working, Verified,
                        Callable, CalledBy
    <2>2. CASE d # c
      BY <2>2, OthersWait
    <2>3. QED
      BY <2>1, <2>2
  <1>6. QED
    BY <1>1, <1>3, <1>4, <1>5

\* ... or returns.
LEMMA HolderReturns ==
    ASSUME IInv, NEW c \in Callers, Active(c), ReleaseRun(c),
           Len(runs) <= Len(runs'), Len(runs) \in Nat, Len(runs') \in Nat
    PROVE  job' \in [Callers -> JobType] /\ running' \in BOOLEAN /\ Exclusive' /\ JobsOK'
  <1>1. job' \in [Callers -> JobType] /\ job'[c] = Idle
    BY SetKeeps, IdleType DEF IInv, TypeOK, ReleaseRun
  <1>2. \A d \in Callers \ {c} :
          job'[d] = job[d] /\ job[d].step \in {"idle", "asked"} /\ JobOK(job[d])'
    BY OthersWait DEF ReleaseRun
  <1>3. Exclusive'
    BY <1>1, <1>2, IdleType DEF Exclusive, Active
  <1>4. JobsOK'
    <2> SUFFICES ASSUME NEW d \in Callers
                 PROVE  JobOK(job[d])'
      BY DEF JobsOK
    <2>1. CASE d = c
      BY <2>1, <1>1, IdleType DEF JobOK, Fresh, Idle
    <2>2. CASE d # c
      BY <2>2, <1>2
    <2>3. QED
      BY <2>1, <2>2
  <1>5. QED
    BY <1>1, <1>3, <1>4 DEF ReleaseRun

\* A goroutine without the flag changes nothing but itself and the flag.
LEMMA WaiterStep ==
    ASSUME IInv, NEW c \in Callers, job[c].step \in {"idle", "asked"},
           NEW k \in JobType, Set(c, k), k.step \in {"idle", "asked", "begin"}, Fresh(k),
           UNCHANGED <<cpaVars, dbVars>>,
           k.step # "begin" => running' = running,
           k.step = "begin" => ~running /\ running' = TRUE
    PROVE  IInv'
  <1>1. job' \in [Callers -> JobType] /\ job'[c] = k
        /\ \A d \in Callers \ {c} : job'[d] = job[d]
    BY SetKeeps DEF IInv, TypeOK
  <1>2. TypeOK' /\ RowsOK'
    BY <1>1 DEF IInv, TypeOK, RowsOK, cpaVars, dbVars
  <1>3. Exclusive'
    BY <1>1 DEF IInv, Exclusive, Active
  <1>4. JobsOK'
    <2> SUFFICES ASSUME NEW d \in Callers
                 PROVE  JobOK(job[d])'
      BY DEF JobsOK
    <2>1. CASE d = c
      BY <2>1, <1>1 DEF JobOK, Fresh, dbVars
    <2>2. CASE d # c
      <3>1. job'[d] = job[d] /\ JobOK(job[d])
        BY <2>2, <1>1 DEF IInv, JobsOK
      <3>2. QED
        BY <3>1 DEF JobOK, Fresh, Probing, Verifying, Acting, Owns, Working, Verified,
                    Callable, CalledBy, cpaVars, dbVars
    <2>3. QED
      BY <2>1, <2>2
  <1>5. QED
    BY <1>2, <1>3, <1>4 DEF IInv

(***************************************************************************)
(* The actions, one by one.                                                *)
(***************************************************************************)

LEMMA RunsLength ==
    ASSUME TypeOK
    PROVE  /\ Len(runs) \in Nat /\ Len(runs) <= MaxRuns
           /\ \A r \in 1..Len(runs) : r \in RunIds /\ runs[r] \in RunRow
  <1>1. runs \in Seq(RunRow) /\ Len(runs) <= MaxRuns
    BY DEF TypeOK
  <1>2. Len(runs) \in Nat /\ \A r \in 1..Len(runs) : runs[r] \in RunRow
    BY <1>1, ElementOfSeq, LenProperties
  <1>3. QED
    BY <1>1, <1>2, CodexInspectionAssumption DEF RunIds

LEMMA AppendRun ==
    ASSUME TypeOK, NEW row \in RunRow, runs' = Append(runs, row)
    PROVE  /\ runs' \in Seq(RunRow)
           /\ Len(runs') = Len(runs) + 1
           /\ runs'[Len(runs) + 1] = row
           /\ \A r \in 1..Len(runs) : runs'[r] = runs[r]
  BY AppendProperties DEF TypeOK

LEMMA EndRunType ==
    ASSUME TypeOK, NEW r \in 1..Len(runs), NEW status \in {"running", "completed", "failed"},
           runs' = [runs EXCEPT ![r].status = status]
    PROVE  /\ runs' \in Seq(RunRow)
           /\ Len(runs') = Len(runs)
           /\ runs'[r].status = status
           /\ \A q \in 1..Len(runs) : q # r => runs'[q] = runs[q]
  <1>1. runs \in Seq(RunRow) /\ Len(runs) \in Nat /\ runs[r] \in RunRow
    BY RunsLength DEF TypeOK
  <1>2. PICK row : row = [runs[r] EXCEPT !.status = status]
    OBVIOUS
  <1>3. row \in RunRow /\ row.status = status
    BY <1>1, <1>2 DEF RunRow
  <1>4. runs' = [runs EXCEPT ![r] = row]
    BY <1>2
  <1>5. QED
    BY <1>1, <1>3, <1>4, ExceptSeq

LEMMA TickInv ==
    ASSUME IInv, NEW c \in Callers, NEW key \in Keys, Tick(c, key)
    PROVE  IInv'
  <1>1. PICK k : k = [Idle EXCEPT !.step = "asked", !.key = key]
    OBVIOUS
  <1>2. k \in JobType /\ k.step = "asked" /\ Fresh(k)
    BY <1>1, IdleType DEF JobType, Fresh
  <1>3. QED
    BY <1>1, <1>2, WaiterStep DEF Tick, cpaVars, dbVars

LEMMA PostRunInv ==
    ASSUME IInv, NEW c \in Callers, PostRun(c)
    PROVE  IInv'
  <1>1. PICK k : k = [Idle EXCEPT !.step = "asked"]
    OBVIOUS
  <1>2. k \in JobType /\ k.step = "asked" /\ Fresh(k)
    BY <1>1, IdleType DEF JobType, Fresh
  <1>3. QED
    BY <1>1, <1>2, WaiterStep DEF PostRun, cpaVars, dbVars

LEMMA PostActionsInv ==
    ASSUME IInv, NEW c \in Callers, NEW r \in 1..Len(runs), PostActions(c, r)
    PROVE  IInv'
  <1>1. PICK k : k = [Idle EXCEPT !.step = "asked", !.op = "actions", !.run = r]
    OBVIOUS
  <1>2. r \in 0..MaxRuns
    BY RunsLength, CodexInspectionAssumption DEF IInv, RunIds
  <1>3. k \in JobType /\ k.step = "asked" /\ Fresh(k)
    BY <1>1, <1>2, IdleType DEF JobType, Fresh
  <1>4. QED
    BY <1>1, <1>3, WaiterStep DEF PostActions, cpaVars, dbVars

LEMMA AcquireRunInv ==
    ASSUME IInv, NEW c \in Callers, AcquireRun(c)
    PROVE  IInv'
  <1>1. PICK k : k = [job[c] EXCEPT !.step = "begin"]
    OBVIOUS
  <1>2. job[c] \in JobType /\ Fresh(job[c])
    BY DEF IInv, TypeOK, JobsOK, JobOK, AcquireRun
  <1>3. k \in JobType /\ k.step = "begin" /\ Fresh(k)
    BY <1>1, <1>2 DEF JobType, Fresh
  <1>4. QED
    BY <1>1, <1>3, WaiterStep DEF AcquireRun, cpaVars, dbVars

LEMMA RefuseInv ==
    ASSUME IInv, NEW c \in Callers, Refuse(c)
    PROVE  IInv'
  BY IdleType, WaiterStep DEF Refuse, cpaVars, dbVars

LEMMA LeaveInv ==
    ASSUME IInv, NEW c \in Callers, Leave(c)
    PROVE  IInv'
  <1>1. Len(runs) <= Len(runs') /\ Len(runs) \in Nat /\ Len(runs') \in Nat
    BY RunsLength DEF IInv, Leave, dbVars
  <1>2. job' \in [Callers -> JobType] /\ running' \in BOOLEAN /\ Exclusive' /\ JobsOK'
    BY <1>1, HolderReturns DEF Leave, Active
  <1>3. QED
    BY <1>2 DEF IInv, TypeOK, RowsOK, Leave, cpaVars, dbVars

LEMMA RestartInv ==
    ASSUME IInv, Restart
    PROVE  IInv'
  <1>1. \A d \in Callers : job'[d] = Idle
    BY DEF Restart
  <1>2. TypeOK' /\ RowsOK'
    BY IdleType DEF IInv, TypeOK, RowsOK, Restart, cpaVars, dbVars
  <1>3. Exclusive'
    BY <1>1, IdleType DEF Exclusive, Active
  <1>4. JobsOK'
    BY <1>1, IdleType DEF JobsOK, JobOK, Fresh, Idle
  <1>5. QED
    BY <1>2, <1>3, <1>4 DEF IInv

LEMMA CreateRunInv ==
    ASSUME IInv, NEW c \in Callers, NEW mode \in Modes, CreateRun(c, mode)
    PROVE  IInv'
  <1>1. PICK j : j = job[c]
    OBVIOUS
  <1>2. PICK k : k = [j EXCEPT !.step = "list", !.run = Len(runs) + 1, !.mode = mode]
    OBVIOUS
  <1>3. j \in JobType /\ Fresh(j) /\ j.step = "begin" /\ j.op = "run"
    BY <1>1 DEF IInv, TypeOK, JobsOK, JobOK, CreateRun
  <1>4. Len(runs) \in Nat /\ Len(runs) + 1 \in RunIds /\ Len(runs) + 1 \in 0..MaxRuns
    BY RunsLength, CodexInspectionAssumption DEF IInv, CreateRun, RunIds
  <1>5. k \in JobType
    BY <1>2, <1>3, <1>4 DEF JobType
  <1>6. [status |-> "running", trigger |-> j.key] \in RunRow
    BY <1>3 DEF JobType, RunRow
  <1>7. /\ runs' \in Seq(RunRow)
        /\ Len(runs') = Len(runs) + 1
        /\ runs'[Len(runs) + 1].status = "running"
        /\ \A r \in 1..Len(runs) : runs'[r] = runs[r]
    BY <1>1, <1>6, AppendRun DEF CreateRun, IInv
  <1>8. JobOK(k)'
    <2>1. k.step = "list" /\ k.op = "run" /\ k.run = Len(runs) + 1 /\ Fresh(k)' /\ ~k.cancelled
      BY <1>2, <1>3 DEF JobType, Fresh
    <2>2. Owns(k, "running")'
      BY <2>1, <1>4, <1>7 DEF Owns
    <2>3. results'[k.run] = NoResults
      BY <2>1, <1>4 DEF IInv, RowsOK, CreateRun
    <2>4. QED
      BY <2>1, <2>2, <2>3 DEF JobOK
  <1>9. job' \in [Callers -> JobType] /\ running' \in BOOLEAN /\ Exclusive' /\ JobsOK'
    <2>1. Set(c, k) /\ Active(c) /\ running' = running
      BY <1>1, <1>2 DEF CreateRun, Active
    <2>2. k.step = "list"
      BY <1>2, <1>3 DEF JobType
    <2>3. QED
      BY <2>1, <2>2, <1>4, <1>5, <1>7, <1>8, HolderStep
  <1>10. TypeOK' /\ RowsOK'
    BY <1>4, <1>7, <1>9 DEF IInv, TypeOK, RowsOK, CreateRun, cpaVars, RunIds
  <1>11. QED
    BY <1>9, <1>10 DEF IInv

\* A step that changes nothing but its goroutine, ...
LEMMA QuietStep ==
    ASSUME IInv, NEW c \in Callers, Active(c), NEW k \in JobType, Set(c, k),
           k.step \notin {"idle", "asked"}, UNCHANGED <<cpaVars, running, dbVars>>, JobOK(k)
    PROVE  IInv'
  <1>1. Len(runs) <= Len(runs') /\ Len(runs) \in Nat /\ Len(runs') \in Nat
    BY RunsLength DEF IInv, dbVars
  <1>2. JobOK(k)'
    BY DEF JobOK, Fresh, Probing, Verifying, Acting, Owns, Working, Verified, Callable, CalledBy,
           cpaVars, dbVars
  <1>3. job' \in [Callers -> JobType] /\ running' \in BOOLEAN /\ Exclusive' /\ JobsOK'
    BY <1>1, <1>2, HolderStep
  <1>4. QED
    BY <1>3 DEF IInv, TypeOK, RowsOK, cpaVars, dbVars

\* ... and one that ends a run.
LEMMA EndStep ==
    ASSUME IInv, NEW c \in Callers, Active(c), job[c].run \in 1..Len(runs),
           NEW status \in {"running", "completed", "failed"}, EndRun(c, status),
           UNCHANGED cpaVars, results' \in [RunIds -> [Accounts -> Row]],
           \A r \in RunIds \ {job[c].run} : results'[r] = results[r],
           \A a \in Accounts :
               results'[job[c].run][a].status = "success" => a \in accepted[job[c].run]
    PROVE  IInv'
  <1>1. /\ runs' \in Seq(RunRow) /\ Len(runs') = Len(runs)
    BY EndRunType DEF EndRun, IInv
  <1>2. Len(runs) \in Nat
    BY RunsLength DEF IInv
  <1>3. job' \in [Callers -> JobType] /\ running' \in BOOLEAN /\ Exclusive' /\ JobsOK'
    BY <1>1, <1>2, HolderReturns DEF EndRun
  <1>4. RowsOK'
    <2> SUFFICES ASSUME NEW r \in RunIds
                 PROVE  /\ r > Len(runs') => results'[r] = NoResults
                        /\ \A a \in Accounts :
                              results'[r][a].status = "success" => a \in accepted'[r]
      BY DEF RowsOK
    <2>1. CASE r = job[c].run
      BY <2>1, <1>1, <1>2 DEF cpaVars
    <2>2. CASE r # job[c].run
      BY <2>2, <1>1 DEF cpaVars, IInv, RowsOK
    <2>3. QED
      BY <2>1, <2>2
  <1>5. QED
    BY <1>1, <1>3, <1>4 DEF IInv, TypeOK, cpaVars

LEMMA CancelInv ==
    ASSUME IInv, NEW c \in Callers, Cancel(c)
    PROVE  IInv'
  <1>1. PICK j : j = job[c]
    OBVIOUS
  <1>2. PICK k : k = [j EXCEPT !.cancelled = TRUE]
    OBVIOUS
  <1>3. j \in JobType /\ JobOK(j) /\ j.step \in {"probe", "act"}
    BY <1>1 DEF IInv, TypeOK, JobsOK, Cancel
  <1>4. /\ k \in JobType /\ k.step = j.step /\ k.op = j.op /\ k.run = j.run /\ k.seen = j.seen
        /\ k.found = j.found /\ k.outcome = j.outcome /\ k.todo = j.todo /\ k.busy = j.busy
        /\ k.cancelled
    BY <1>2, <1>3 DEF JobType
  <1>5. JobOK(k)
    BY <1>3, <1>4 DEF JobOK, Probing, Acting, Owns, Working, Verified, Callable, CalledBy
  <1>6. Set(c, k) /\ Active(c) /\ UNCHANGED <<cpaVars, running, dbVars>>
    BY <1>1, <1>2, <1>3 DEF Cancel, Active
  <1>7. QED
    BY <1>3, <1>4, <1>5, <1>6, QuietStep

LEMMA ListInv ==
    ASSUME IInv, NEW c \in Callers, List(c)
    PROVE  IInv'
  <1>1. PICK j : j = job[c]
    OBVIOUS
  <1>2. PICK sample \in Samples :
           Set(c, [j EXCEPT !.step = "probe", !.todo = sample, !.off = disabled, !.seen = uploads])
    BY <1>1 DEF List
  <1>3. PICK k : k = [j EXCEPT !.step = "probe", !.todo = sample, !.off = disabled,
                               !.seen = uploads]
    OBVIOUS
  <1>4. sample \subseteq listed
    BY DEF Samples
  <1>5. /\ j \in JobType /\ j.step = "list" /\ Fresh(j) /\ j.op = "run" /\ Owns(j, "running")
        /\ results[j.run] = NoResults
    BY <1>1 DEF IInv, TypeOK, JobsOK, JobOK, List
  <1>6. listed \subseteq Accounts /\ disabled \subseteq listed /\ uploads \in [Files -> 0..MaxUploads]
    BY DEF IInv, TypeOK
  <1>7. /\ k \in JobType /\ k.step = "probe" /\ k.op = "run" /\ k.run = j.run /\ k.seen = uploads
        /\ k.found = NoResults /\ k.outcome = NoOutcomes /\ k.todo = sample /\ k.busy = {}
    BY <1>3, <1>4, <1>5, <1>6 DEF JobType, Fresh
  <1>8. Probing(k)
    <2>1. k.op = "run" /\ Owns(k, "running") /\ k.outcome = NoOutcomes /\ k.busy = {}
      BY <1>5, <1>7 DEF Owns
    <2> SUFFICES ASSUME NEW a \in Accounts
                 PROVE  /\ k.found[a].status \notin {"success", "failed", "skipped", "needs_review"}
                        /\ results[k.run][a] = k.found[a]
                        /\ results[k.run][a].action = "none"
                        /\ results[k.run][a].status = "none"
                        /\ k.found[a].action = "none"
                        /\ a \in k.todo \/ k.found[a].action # "none" => Verified(k, a)
      BY <2>1 DEF Probing
    <2>2. NoResults[a] = NoRow
      BY DEF NoResults
    <2>3. a \in k.todo => Verified(k, a)
      BY <1>4, <1>6, <1>7, CodexInspectionAssumption DEF Verified
    <2>4. QED
      BY <1>5, <1>7, <2>2, <2>3 DEF NoRow
  <1>9. JobOK(k)
    BY <1>7, <1>8 DEF JobOK
  <1>10. Set(c, k) /\ Active(c) /\ UNCHANGED <<cpaVars, running, dbVars>>
    BY <1>1, <1>2, <1>3, <1>5 DEF List, Active
  <1>11. QED
    BY <1>7, <1>9, <1>10, QuietStep

LEMMA ListFailsInv ==
    ASSUME IInv, NEW c \in Callers, ListFails(c)
    PROVE  IInv'
  <1>1. Active(c) /\ job[c].run \in 1..Len(runs) /\ results[job[c].run] = NoResults
    BY DEF IInv, JobsOK, JobOK, ListFails, Active, Owns
  <1>2. results' \in [RunIds -> [Accounts -> Row]] /\ results' = results
    BY DEF IInv, TypeOK, ListFails
  <1>3. \A a \in Accounts : NoResults[a].status = "none"
    BY DEF NoResults, NoRow
  <1>4. QED
    BY <1>1, <1>2, <1>3, EndStep DEF ListFails

LEMMA ProbeInv ==
    ASSUME IInv, NEW c \in Callers, NEW a \in Accounts, Probe(c, a)
    PROVE  IInv'
  <1>1. PICK j : j = job[c]
    OBVIOUS
  <1>2. PICK verdict \in VerdictsOf(c, a) :
          /\ Set(c, [j EXCEPT !.todo = @ \ {a}, !.found[a] = RowOf(verdict)])
          /\ results' = IF j.cancelled THEN results
                        ELSE [results EXCEPT ![j.run][a] = RowOf(verdict)]
    BY <1>1 DEF Probe
  <1>3. PICK row : row = RowOf(verdict)
    OBVIOUS
  <1>4. row \in Row /\ row.status \in {"none", "pending"} /\ row.action # "none"
    <2>1. verdict \in Actions
      BY <1>2, CodexInspectionAssumption DEF VerdictsOf, Actions, Executable
    <2>2. QED
      BY <1>3, <2>1, RowOfType DEF Actions, Executable
  <1>5. PICK k : k = [j EXCEPT !.todo = j.todo \ {a}, !.found = [j.found EXCEPT ![a] = row]]
    OBVIOUS
  <1>6. j \in JobType /\ Probing(j) /\ j.step = "probe" /\ a \in j.todo
    BY <1>1 DEF IInv, TypeOK, JobsOK, JobOK, Probe
  <1>7. /\ k \in JobType /\ k.step = "probe" /\ k.op = j.op /\ k.run = j.run /\ k.seen = j.seen
        /\ k.outcome = j.outcome /\ k.todo = j.todo \ {a} /\ k.busy = j.busy
        /\ k.cancelled = j.cancelled
        /\ \A b \in Accounts : k.found[b] = IF b = a THEN row ELSE j.found[b]
    BY <1>4, <1>5, <1>6 DEF JobType
  <1>8. Set(c, k) /\ Active(c) /\ running' = running /\ runs' = runs /\ UNCHANGED cpaVars
    <2>1. k = [j EXCEPT !.todo = @ \ {a}, !.found[a] = RowOf(verdict)]
      BY <1>3, <1>5, <1>6 DEF JobType
    <2>2. QED
      BY <1>1, <1>2, <1>6, <2>1 DEF Probe, Active
  <1>9. j.run \in RunIds /\ Len(runs) \in Nat /\ j.run \in 1..Len(runs)
    BY <1>6, RunsLength DEF Probing, Owns, IInv
  <1>10. results \in [RunIds -> [Accounts -> Row]]
    BY DEF IInv, TypeOK
  <1>11. /\ results' \in [RunIds -> [Accounts -> Row]]
         /\ \A r \in RunIds \ {j.run} : results'[r] = results[r]
         /\ \A b \in Accounts :
               results'[j.run][b] =
                   IF b = a /\ ~j.cancelled THEN row ELSE results[j.run][b]
    <2>1. CASE j.cancelled
      BY <2>1, <1>2, <1>10
    <2>2. CASE ~j.cancelled
      <3>1. results' = [results EXCEPT ![j.run] = [results[j.run] EXCEPT ![a] = row]]
        BY <2>2, <1>2, <1>3
      <3>2. QED
        BY <2>2, <3>1, <1>4, <1>9, <1>10
    <2>3. QED
      BY <2>1, <2>2
  <1>12. Probing(k)'
    <2>1. k.op = "run" /\ Owns(k, "running")' /\ k.outcome = NoOutcomes /\ k.busy = {}
      BY <1>6, <1>7, <1>8 DEF Probing, Owns
    <2>2. \A b \in Accounts :
            /\ k.found[b].status \notin {"success", "failed", "skipped", "needs_review"}
            /\ results'[k.run][b].action # "none" => results'[k.run][b] = k.found[b]
            /\ results'[k.run][b].action = "none" => results'[k.run][b].status = "none"
            /\ ~k.cancelled => results'[k.run][b] = k.found[b]
            /\ b \in k.todo => k.found[b].action = "none"
      <3> TAKE b \in Accounts
      <3>1. CASE b = a
        <4>1. CASE j.cancelled
          <5>1. results[j.run][a].action = "none" /\ results[j.run][a].status = "none"
            BY <1>6 DEF Probing
          <5>2. QED
            BY <3>1, <4>1, <5>1, <1>4, <1>7, <1>11
        <4>2. CASE ~j.cancelled
          BY <3>1, <4>2, <1>4, <1>7, <1>11
        <4>3. QED
          BY <4>1, <4>2
      <3>2. CASE b # a
        BY <3>2, <1>6, <1>7, <1>11 DEF Probing
      <3>3. QED
        BY <3>1, <3>2
    <2>3. \A b \in Accounts : b \in k.todo \/ k.found[b].action # "none" => Verified(k, b)'
      BY <1>6, <1>7, <1>8 DEF Probing, Verified, cpaVars
    <2>4. QED
      BY <2>1, <2>2, <2>3 DEF Probing
  <1>13. JobOK(k)'
    BY <1>7, <1>12 DEF JobOK
  <1>14. job' \in [Callers -> JobType] /\ running' \in BOOLEAN /\ Exclusive' /\ JobsOK'
    BY <1>7, <1>8, <1>9, <1>13, HolderStep
  <1>15. RowsOK'
    <2> SUFFICES ASSUME NEW r \in RunIds
                 PROVE  /\ r > Len(runs') => results'[r] = NoResults
                        /\ \A b \in Accounts :
                              results'[r][b].status = "success" => b \in accepted'[r]
      BY DEF RowsOK
    <2>1. CASE r = j.run
      BY <2>1, <1>4, <1>8, <1>9, <1>11 DEF cpaVars, IInv, RowsOK
    <2>2. CASE r # j.run
      BY <2>2, <1>8, <1>11 DEF cpaVars, IInv, RowsOK
    <2>3. QED
      BY <2>1, <2>2
  <1>16. QED
    BY <1>8, <1>11, <1>14, <1>15 DEF IInv, TypeOK, cpaVars

(***************************************************************************)
(* The selection of items.                                                 *)
(***************************************************************************)

\* Two accounts that are each the first of one file are the same.
LEMMA FirstIsOne ==
    ASSUME NEW found, NEW a \in Grouped(found), NEW b \in Grouped(found),
           FileOf[a] = FileOf[b], First(found, a), First(found, b)
    PROVE  a = b
  <1>1. a \in Nat /\ b \in Nat
    BY CodexInspectionAssumption DEF Grouped
  <1>2. a \in Group(found, FileOf[b]) /\ b \in Group(found, FileOf[a])
    BY DEF Grouped, Group, OfFile
  <1>3. a <= b /\ b <= a
    BY <1>2 DEF First
  <1>4. QED
    BY <1>1, <1>3

LEMMA AgreedOn ==
    ASSUME NEW found, NEW a \in Grouped(found), ~Mixed(found, FileOf[a])
    PROVE  /\ a \in Accounts /\ found[a].action \in Executable
           /\ \A b \in Accounts :
                 FileOf[b] = FileOf[a] /\ found[b].action \in Executable
                 => found[b].action = found[a].action
  BY DEF Grouped, Mixed, Group, OfFile

LEMMA AutoItemsType ==
    ASSUME NEW mode, NEW found
    PROVE  /\ AutoItems(mode, found) \in SUBSET Accounts
           /\ OnePerFile(AutoItems(mode, found))
           /\ \A a \in AutoItems(mode, found) :
                 /\ a \in Grouped(found) /\ ~Mixed(found, FileOf[a])
                 /\ AutoOutcome(mode, found)[a] = "none"
  <1>1. \A a \in AutoItems(mode, found) :
           a \in Grouped(found) /\ ~Mixed(found, FileOf[a]) /\ First(found, a)
    BY DEF AutoItems
  <1>2. \A a \in Grouped(found) : a \in Accounts
    BY DEF Grouped
  <1>3. OnePerFile(AutoItems(mode, found))
    BY <1>1, FirstIsOne DEF OnePerFile
  <1>4. \A a \in AutoItems(mode, found) : AutoOutcome(mode, found)[a] = "none"
    BY <1>1, <1>2 DEF AutoOutcome
  <1>5. QED
    BY <1>1, <1>2, <1>3, <1>4

LEMMA ManualItemsType ==
    ASSUME NEW picked, NEW found
    PROVE  /\ ManualItems(picked, found) \in SUBSET Accounts
           /\ OnePerFile(ManualItems(picked, found))
           /\ \A a \in ManualItems(picked, found) :
                 /\ a \in Grouped(found) /\ ~Mixed(found, FileOf[a])
                 /\ found[a].status \in Retryable
                 /\ ManualOutcome(picked, found)[a] = "none"
  <1>1. \A a \in ManualItems(picked, found) :
           /\ a \in Grouped(found) /\ ~Mixed(found, FileOf[a]) /\ First(found, a)
           /\ found[a].status \in Retryable
    BY DEF ManualItems
  <1>2. \A a \in Grouped(found) : a \in Accounts
    BY DEF Grouped
  <1>3. OnePerFile(ManualItems(picked, found))
    BY <1>1, FirstIsOne DEF OnePerFile
  <1>4. \A a \in ManualItems(picked, found) : ManualOutcome(picked, found)[a] = "none"
    BY <1>1, <1>2 DEF ManualOutcome
  <1>5. QED
    BY <1>1, <1>2, <1>3, <1>4

LEMMA ProbesCancelledInv ==
    ASSUME IInv, NEW c \in Callers, ProbesCancelled(c)
    PROVE  IInv'
  <1>1. PICK j : j = job[c]
    OBVIOUS
  <1>2. j \in JobType /\ Probing(j) /\ Active(c)
    BY <1>1 DEF IInv, TypeOK, JobsOK, JobOK, ProbesCancelled, Active
  <1>3. j.run \in 1..Len(runs) /\ j.run \in RunIds
    BY <1>2, RunsLength DEF Probing, Owns, IInv
  <1>4. results \in [RunIds -> [Accounts -> Row]] /\ j.found \in [Accounts -> Row]
    BY <1>2 DEF IInv, TypeOK, JobType
  <1>5. results' = [results EXCEPT ![j.run] = j.found] /\ EndRun(c, "failed") /\ UNCHANGED cpaVars
    BY <1>1 DEF ProbesCancelled
  <1>6. /\ results' \in [RunIds -> [Accounts -> Row]]
        /\ \A r \in RunIds \ {j.run} : results'[r] = results[r]
        /\ results'[j.run] = j.found
    BY <1>3, <1>4, <1>5
  <1>7. \A a \in Accounts : j.found[a].status # "success"
    BY <1>2 DEF Probing
  <1>8. QED
    BY <1>1, <1>2, <1>3, <1>5, <1>6, <1>7, EndStep

LEMMA ProbesEndInv ==
    ASSUME IInv, NEW c \in Callers, ProbesEnd(c)
    PROVE  IInv'
  <1>1. PICK j : j = job[c]
    OBVIOUS
  <1>2. PICK i : i = [j EXCEPT !.off = {}]
    OBVIOUS
  <1>3. PICK items : items = AutoItems(j.mode, j.found)
    OBVIOUS
  <1>4. PICK outcome : outcome = AutoOutcome(j.mode, j.found)
    OBVIOUS
  <1>5. PICK k : k = Act(i, items, outcome)
    OBVIOUS
  <1>6. j \in JobType /\ Probing(j) /\ ~j.cancelled
    BY <1>1 DEF IInv, TypeOK, JobsOK, JobOK, ProbesEnd
  <1>7. i \in JobType /\ i.op = "run" /\ i.run = j.run /\ i.found = j.found /\ i.seen = j.seen
    BY <1>2, <1>6 DEF JobType, Probing
  <1>8. items \in SUBSET Accounts /\ OnePerFile(items)
        /\ \A a \in items : a \in Grouped(j.found) /\ ~Mixed(j.found, FileOf[a])
                            /\ outcome[a] = "none"
    BY <1>3, <1>4, AutoItemsType
  <1>9. outcome \in [Accounts -> Outcomes]
        /\ \A a \in Accounts : outcome[a] \in {"none", "skipped", "needs_review"}
    BY <1>4, AutoOutcomeType
  <1>10. /\ k \in JobType /\ k.step = "act" /\ k.op = "run" /\ k.run = j.run /\ k.found = j.found
         /\ k.seen = j.seen /\ k.outcome = outcome /\ k.todo = items /\ k.busy = {}
    BY <1>5, <1>7, <1>8, <1>9, ActType
  <1>11. k.found = results[k.run]
    <2>1. j.run \in RunIds
      BY <1>6, RunsLength DEF Probing, Owns, IInv
    <2>2. results[j.run] \in [Accounts -> Row] /\ j.found \in [Accounts -> Row]
      BY <2>1, <1>6 DEF IInv, TypeOK, JobType
    <2>3. \A a \in Accounts : results[j.run][a] = j.found[a]
      BY <1>6 DEF Probing
    <2>4. QED
      BY <2>2, <2>3, <1>10
  <1>12. \A a \in items : Callable(k, a) /\ Verified(k, a)
    <2> TAKE a \in items
    <2>1. a \in Accounts /\ j.found[a].action \in Executable
      BY <1>8, AgreedOn
    <2>2. Callable(k, a)
      BY <2>1, <1>6, <1>8, <1>10, AgreedOn DEF Callable, Probing, Settled
    <2>3. Verified(j, a)
      BY <2>1, <1>6 DEF Probing, Executable
    <2>4. QED
      BY <2>2, <2>3, <1>10 DEF Verified
  <1>13. Working(k)
    <2>1. Owns(k, "running")
      BY <1>6, <1>10 DEF Probing, Owns
    <2>2. QED
      BY <2>1, <1>8, <1>9, <1>10, <1>11, <1>12 DEF Working
  <1>14. CalledBy(k) = {}
    BY <1>9, <1>10 DEF CalledBy
  <1>15. JobOK(k)
    BY <1>8, <1>9, <1>10, <1>12, <1>13, <1>14 DEF JobOK, Acting
  <1>16. Set(c, k) /\ Active(c) /\ UNCHANGED <<cpaVars, running, dbVars>>
    BY <1>1, <1>2, <1>3, <1>4, <1>5 DEF ProbesEnd, Active
  <1>17. QED
    BY <1>10, <1>15, <1>16, QuietStep

LEMMA ReadResultsInv ==
    ASSUME IInv, NEW c \in Callers, NEW picked, ReadResults(c, picked)
    PROVE  IInv'
  <1>1. PICK j : j = job[c]
    OBVIOUS
  <1>2. PICK found : found = results[j.run]
    OBVIOUS
  <1>3. PICK items : items = ManualItems(picked, found)
    OBVIOUS
  <1>4. PICK outcome : outcome = ManualOutcome(picked, found)
    OBVIOUS
  <1>5. PICK i : i = [j EXCEPT !.found = found]
    OBVIOUS
  <1>6. PICK k : k = IF items = {} THEN Act(i, {}, outcome)
                     ELSE [i EXCEPT !.step = "verify", !.todo = items, !.outcome = outcome]
    OBVIOUS
  <1>7. j \in JobType /\ Fresh(j) /\ j.op = "actions" /\ runs[j.run].status = "completed"
        /\ j.run \in 1..Len(runs)
    BY <1>1 DEF IInv, TypeOK, JobsOK, JobOK, ReadResults, Fresh
  <1>8. found \in [Accounts -> Row]
    BY <1>2, <1>7, RunsLength DEF IInv, TypeOK
  <1>9. i \in JobType /\ i.op = "actions" /\ i.run = j.run /\ i.found = found /\ i.seen = j.seen
        /\ i.busy = {}
    BY <1>5, <1>7, <1>8 DEF JobType, Fresh
  <1>10. items \in SUBSET Accounts /\ OnePerFile(items)
         /\ \A a \in items : a \in Grouped(found) /\ ~Mixed(found, FileOf[a])
                             /\ found[a].status \in Retryable /\ outcome[a] = "none"
    BY <1>3, <1>4, ManualItemsType
  <1>11. outcome \in [Accounts -> Outcomes]
         /\ \A a \in Accounts : outcome[a] \in {"none", "skipped", "needs_review"}
    BY <1>4, ManualOutcomeType
  <1>12. /\ k \in JobType /\ k.op = "actions" /\ k.run = j.run /\ k.found = found
         /\ k.outcome = outcome /\ k.todo = items /\ k.busy = {}
         /\ k.step = IF items = {} THEN "act" ELSE "verify"
    <2>1. CASE items = {}
      BY <2>1, <1>6, <1>9, <1>11, ActType
    <2>2. CASE items # {}
      BY <2>2, <1>6, <1>9, <1>10, <1>11 DEF JobType
    <2>3. QED
      BY <2>1, <2>2
  <1>13. Working(k)
    <2>1. Owns(k, "completed")
      BY <1>7, <1>12 DEF Owns
    <2>2. \A a \in items : Callable(k, a)
      BY <1>10, <1>12, AgreedOn DEF Callable, Retryable, Settled
    <2>3. QED
      BY <2>1, <2>2, <1>2, <1>10, <1>11, <1>12 DEF Working
  <1>14. CalledBy(k) = {}
    BY <1>11, <1>12 DEF CalledBy
  <1>15. JobOK(k)
    <2>1. CASE items = {}
      BY <2>1, <1>11, <1>12, <1>13, <1>14 DEF JobOK, Acting, OnePerFile
    <2>2. CASE items # {}
      BY <2>2, <1>10, <1>12, <1>13, <1>14 DEF JobOK, Verifying
    <2>3. QED
      BY <2>1, <2>2
  <1>16. Set(c, k) /\ Active(c) /\ UNCHANGED <<cpaVars, running, dbVars>>
    BY <1>1, <1>2, <1>3, <1>4, <1>5, <1>6 DEF ReadResults, Active
  <1>17. QED
    BY <1>12, <1>15, <1>16, QuietStep

LEMMA VerifyInv ==
    ASSUME IInv, NEW c \in Callers, Verify(c)
    PROVE  IInv'
  <1>1. PICK j : j = job[c]
    OBVIOUS
  <1>2. PICK valid : valid = {a \in j.todo : MatchCurrentAccount(a) /\ ~Superfluous(j, a)}
    OBVIOUS
  <1>3. PICK outcome :
           outcome = [a \in Accounts |->
                         IF a \in j.todo \ valid
                         THEN IF MatchCurrentAccount(a) THEN "skipped" ELSE "refused"
                         ELSE j.outcome[a]]
    OBVIOUS
  <1>4. PICK i : i = [j EXCEPT !.seen = uploads]
    OBVIOUS
  <1>5. PICK k : k = Act(i, valid, outcome)
    OBVIOUS
  <1>6. j \in JobType /\ Verifying(j) /\ j.step = "verify"
    BY <1>1 DEF IInv, TypeOK, JobsOK, JobOK, Verify
  <1>7. uploads \in [Files -> 0..MaxUploads]
    BY DEF IInv, TypeOK
  <1>8. i \in JobType /\ i.op = "actions" /\ i.run = j.run /\ i.found = j.found /\ i.seen = uploads
    BY <1>4, <1>6, <1>7 DEF JobType, Verifying
  <1>9. valid \in SUBSET Accounts /\ valid \subseteq j.todo /\ valid \subseteq listed
    BY <1>2, <1>6 DEF JobType, MatchCurrentAccount
  <1>10. /\ outcome \in [Accounts -> Outcomes]
         /\ \A a \in valid : outcome[a] = j.outcome[a]
         /\ \A a \in Accounts : outcome[a] \in {"success", "failed"} => a \in CalledBy(j)
         /\ \A a \in Accounts :
               outcome[a] \in {"success", "failed", "refused"} =>
                   a \in j.todo \/ j.outcome[a] \in {"success", "failed", "refused"}
    BY <1>3, <1>6, <1>9 DEF JobType, Outcomes, CalledBy
  <1>11. /\ k \in JobType /\ k.step = "act" /\ k.op = "actions" /\ k.run = j.run
         /\ k.found = j.found /\ k.seen = uploads /\ k.outcome = outcome
         /\ k.todo = valid /\ k.busy = {}
    BY <1>5, <1>8, <1>9, <1>10, ActType
  <1>12. Working(k)
    <2>1. Working(j) /\ j.op = "actions"
      BY <1>6 DEF Verifying
    <2>2. Owns(k, "completed") /\ k.found = results[k.run]
      BY <2>1, <1>11 DEF Working, Owns
    <2>3. \A a \in valid : Callable(k, a) /\ outcome[a] = "none"
      BY <2>1, <1>9, <1>10, <1>11 DEF Working, Callable
    <2>4. \A a \in Accounts :
            outcome[a] \in {"success", "failed", "refused"} => k.found[a].status \notin Settled
      BY <2>1, <1>10, <1>11 DEF Working, Callable
    <2>5. QED
      BY <2>2, <2>3, <2>4, <1>11 DEF Working
  <1>13. CalledBy(k) = {}
    BY <1>6, <1>10, <1>11 DEF CalledBy, Verifying
  <1>14. OnePerFile(valid) /\ \A a \in valid : Verified(k, a)
    BY <1>6, <1>7, <1>9, <1>11, CodexInspectionAssumption DEF Verifying, OnePerFile, Verified
  <1>15. JobOK(k)
    <2>1. \A a \in Accounts : outcome[a] # "success"
      BY <1>11, <1>13 DEF CalledBy
    <2>2. QED
      BY <2>1, <1>11, <1>12, <1>13, <1>14 DEF JobOK, Acting
  <1>16. Set(c, k) /\ Active(c) /\ UNCHANGED <<cpaVars, running, dbVars>>
    BY <1>1, <1>2, <1>3, <1>4, <1>5, <1>6 DEF Verify, Active
  <1>17. QED
    BY <1>11, <1>15, <1>16, QuietStep

LEMMA HandInv ==
    ASSUME IInv, NEW c \in Callers, NEW a \in Accounts, Hand(c, a)
    PROVE  IInv'
  <1>1. PICK j : j = job[c]
    OBVIOUS
  <1>2. PICK k : k = [j EXCEPT !.todo = j.todo \ {a}, !.busy = j.busy \cup {a}]
    OBVIOUS
  <1>3. j \in JobType /\ Acting(j) /\ j.step = "act" /\ a \in j.todo
    BY <1>1 DEF IInv, TypeOK, JobsOK, JobOK, Hand
  <1>4. /\ k \in JobType /\ k.step = "act" /\ k.op = j.op /\ k.run = j.run /\ k.seen = j.seen
        /\ k.found = j.found /\ k.outcome = j.outcome
        /\ k.todo = j.todo \ {a} /\ k.busy = j.busy \cup {a}
    BY <1>2, <1>3 DEF JobType
  <1>5. k.todo \cup k.busy = j.todo \cup j.busy /\ k.todo \cap k.busy = {}
    BY <1>3, <1>4 DEF Acting
  <1>6. CalledBy(k) = CalledBy(j)
    BY <1>4 DEF CalledBy
  <1>7. Working(k)
    BY <1>3, <1>4, <1>5 DEF Acting, Working, Owns, Callable
  <1>8. JobOK(k)
    BY <1>3, <1>4, <1>5, <1>6, <1>7 DEF JobOK, Acting, Verified
  <1>9. Set(c, k) /\ Active(c) /\ UNCHANGED <<cpaVars, running, dbVars>>
    BY <1>1, <1>2, <1>3 DEF Hand, Active
  <1>10. QED
    BY <1>4, <1>8, <1>9, QuietStep

\* What an answer does to the goroutine that waited for it.
Answered(j, a, outcome) ==
    [j EXCEPT !.busy = j.busy \ {a}, !.outcome = [j.outcome EXCEPT ![a] = outcome]]

AnswerOK(j, k, a, outcome) ==
    /\ k \in JobType /\ k.step = "act" /\ k.op = j.op /\ k.run = j.run /\ k.seen = j.seen
    /\ k.found = j.found /\ k.todo = j.todo /\ k.busy = j.busy \ {a}
    /\ \A b \in Accounts : k.outcome[b] = IF b = a THEN outcome ELSE j.outcome[b]
    /\ Working(k) /\ CalledBy(k) = CalledBy(j) \cup {a}
    /\ k.todo \cap k.busy = {}
    /\ OnePerFile(k.todo \cup k.busy \cup CalledBy(k))
    /\ \A b \in k.todo \cup k.busy : FileOf[b] # FileOf[a] /\ Verified(k, b)

LEMMA AnswerType ==
    ASSUME NEW j \in JobType, Acting(j), j.step = "act", NEW a \in j.busy,
           NEW outcome \in {"success", "failed"}, NEW k, k = Answered(j, a, outcome)
    PROVE  AnswerOK(j, k, a, outcome)
  <1>1. a \in Accounts /\ outcome \in Outcomes
    BY DEF JobType, Outcomes
  <1>2. /\ k \in JobType /\ k.step = "act" /\ k.op = j.op /\ k.run = j.run /\ k.seen = j.seen
        /\ k.found = j.found /\ k.todo = j.todo /\ k.busy = j.busy \ {a}
        /\ \A b \in Accounts : k.outcome[b] = IF b = a THEN outcome ELSE j.outcome[b]
    BY <1>1 DEF JobType, Answered
  <1>3. CalledBy(k) = CalledBy(j) \cup {a}
    BY <1>1, <1>2 DEF CalledBy
  <1>4. k.todo \cup k.busy \subseteq (j.todo \cup j.busy) \ {a} /\ k.todo \cap k.busy = {}
    BY <1>2 DEF Acting
  <1>5. k.todo \cup k.busy \subseteq Accounts
    BY <1>2 DEF JobType
  <1>6. Working(k)
    <2>1. Working(j) /\ Callable(j, a)
      BY DEF Acting, Working
    <2>2. \A b \in k.todo \cup k.busy : Callable(k, b) /\ k.outcome[b] = "none"
      BY <2>1, <1>2, <1>4, <1>5 DEF Working, Callable
    <2>3. \A b \in Accounts :
            k.outcome[b] \in {"success", "failed", "refused"} => k.found[b].status \notin Settled
      BY <2>1, <1>2 DEF Working, Callable
    <2>4. QED
      BY <2>1, <2>2, <2>3, <1>2 DEF Working, Owns
  <1>7. OnePerFile(k.todo \cup k.busy \cup CalledBy(k))
    BY <1>3, <1>4 DEF Acting, OnePerFile
  <1>8. \A b \in k.todo \cup k.busy : FileOf[b] # FileOf[a] /\ Verified(k, b)
    BY <1>2, <1>4 DEF Acting, OnePerFile, Verified
  <1>9. QED
    BY <1>2, <1>3, <1>4, <1>6, <1>7, <1>8 DEF AnswerOK

LEMMA CallInv ==
    ASSUME IInv, NEW c \in Callers, NEW a \in Accounts, Call(c, a)
    PROVE  IInv'
  <1>1. PICK j : j = job[c]
    OBVIOUS
  <1>2. PICK outcome \in {"success", "failed"} :
           Set(c, [j EXCEPT !.busy = @ \ {a}, !.outcome[a] = outcome])
    BY <1>1 DEF Call, Answer
  <1>3. PICK k : k = Answered(j, a, outcome)
    OBVIOUS
  <1>4. j \in JobType /\ Acting(j) /\ j.step = "act" /\ a \in j.busy
    BY <1>1 DEF IInv, TypeOK, JobsOK, JobOK, Call
  <1>5. /\ k \in JobType /\ k.step = "act" /\ k.op = j.op /\ k.run = j.run /\ k.seen = j.seen
        /\ k.found = j.found /\ k.todo = j.todo /\ k.busy = j.busy \ {a}
        /\ \A b \in Accounts : k.outcome[b] = IF b = a THEN outcome ELSE j.outcome[b]
        /\ Working(k) /\ CalledBy(k) = CalledBy(j) \cup {a}
        /\ k.todo \cap k.busy = {}
        /\ OnePerFile(k.todo \cup k.busy \cup CalledBy(k))
        /\ \A b \in k.todo \cup k.busy : FileOf[b] # FileOf[a] /\ Verified(k, b)
    <2>1. AnswerOK(j, k, a, outcome)
      BY <1>3, <1>4, AnswerType
    <2>2. QED
      BY <2>1 DEF AnswerOK
  <1>6. ActionOf(j, a) \in Executable
    BY <1>4 DEF Acting, Working, Callable, ActionOf, Executable
  <1>7. /\ listed' \subseteq listed /\ disabled' \subseteq listed' /\ uploads' = uploads
        /\ \A b \in listed : FileOf[b] # FileOf[a] => b \in listed'
    BY <1>1, <1>6, ApplyType DEF Call, IInv, TypeOK
  <1>8. j.run \in RunIds /\ Len(runs) \in Nat
    BY <1>4, RunsLength DEF Acting, Working, Owns, IInv
  <1>9. /\ accepted' \in [RunIds -> SUBSET Accounts]
        /\ accepted'[j.run] = accepted[j.run] \cup {a}
        /\ \A r \in RunIds : accepted[r] \subseteq accepted'[r]
    BY <1>1, <1>8 DEF Call, IInv, TypeOK
  <1>10. running' = running /\ UNCHANGED dbVars /\ Active(c) /\ Set(c, k)
    BY <1>1, <1>2, <1>3, <1>4 DEF Call, Answered, Active
  <1>11. Acting(k)'
    <2>1. Working(k)'
      BY <1>5, <1>10 DEF Working, Owns, Callable, dbVars
    <2>2. \A b \in k.todo \cup k.busy : Verified(k, b)'
      BY <1>5, <1>7 DEF Verified
    <2>3. \A b \in Accounts : k.outcome[b] = "success" => b \in accepted'[k.run]
      BY <1>4, <1>5, <1>9 DEF Acting
    <2>4. CalledBy(k)' = CalledBy(k)
      BY DEF CalledBy
    <2>5. OnePerFile(k.todo \cup k.busy \cup CalledBy(k))'
      BY <1>5, <2>4 DEF OnePerFile
    <2>6. QED
      BY <1>5, <2>1, <2>2, <2>3, <2>5 DEF Acting
  <1>12. JobOK(k)'
    BY <1>5, <1>11 DEF JobOK
  <1>13. job' \in [Callers -> JobType] /\ running' \in BOOLEAN /\ Exclusive' /\ JobsOK'
    BY <1>5, <1>8, <1>10, <1>12, HolderStep DEF dbVars
  <1>14. RowsOK'
    BY <1>9, <1>10 DEF IInv, RowsOK, dbVars
  <1>15. QED
    BY <1>7, <1>9, <1>10, <1>13, <1>14 DEF IInv, TypeOK, dbVars

LEMMA CallFailsInv ==
    ASSUME IInv, NEW c \in Callers, NEW a \in Accounts, CallFails(c, a)
    PROVE  IInv'
  <1>1. PICK j : j = job[c]
    OBVIOUS
  <1>2. PICK k : k = Answered(j, a, "failed")
    OBVIOUS
  <1>3. j \in JobType /\ Acting(j) /\ j.step = "act" /\ a \in j.busy
    BY <1>1 DEF IInv, TypeOK, JobsOK, JobOK, CallFails
  <1>4. /\ k \in JobType /\ k.step = "act" /\ k.run = j.run
        /\ \A b \in Accounts : k.outcome[b] = IF b = a THEN "failed" ELSE j.outcome[b]
        /\ Working(k) /\ k.todo \cap k.busy = {}
        /\ OnePerFile(k.todo \cup k.busy \cup CalledBy(k))
        /\ \A b \in k.todo \cup k.busy : Verified(k, b)
    <2>1. AnswerOK(j, k, a, "failed")
      BY <1>2, <1>3, AnswerType
    <2>2. QED
      BY <2>1 DEF AnswerOK
  <1>5. JobOK(k)
    BY <1>3, <1>4 DEF JobOK, Acting
  <1>6. Set(c, k) /\ Active(c) /\ UNCHANGED <<cpaVars, running, dbVars>>
    BY <1>1, <1>2, <1>3 DEF CallFails, Answer, Answered, Active
  <1>7. QED
    BY <1>4, <1>5, <1>6, QuietStep

LEMMA WorkerLeavesInv ==
    ASSUME IInv, NEW c \in Callers, WorkerLeaves(c)
    PROVE  IInv'
  <1>1. PICK j : j = job[c]
    OBVIOUS
  <1>2. PICK k : k = [j EXCEPT !.workers = j.workers - 1]
    OBVIOUS
  <1>3. j \in JobType /\ Acting(j) /\ j.step = "act" /\ Cardinality(j.busy) < j.workers
    BY <1>1 DEF IInv, TypeOK, JobsOK, JobOK, WorkerLeaves
  <1>4. Cardinality(j.busy) \in Nat
    BY <1>3, AccountsFinite DEF JobType
  <1>5. /\ k \in JobType /\ k.step = "act" /\ k.op = j.op /\ k.run = j.run /\ k.seen = j.seen
        /\ k.found = j.found /\ k.outcome = j.outcome /\ k.todo = j.todo /\ k.busy = j.busy
    BY <1>2, <1>3, <1>4 DEF JobType
  <1>6. JobOK(k)
    BY <1>3, <1>5 DEF JobOK, Acting, Working, Owns, Callable, Verified, CalledBy
  <1>7. Set(c, k) /\ Active(c) /\ UNCHANGED <<cpaVars, running, dbVars>>
    BY <1>1, <1>2, <1>3 DEF WorkerLeaves, Active
  <1>8. QED
    BY <1>5, <1>6, <1>7, QuietStep

LEMMA FeederLeavesInv ==
    ASSUME IInv, NEW c \in Callers, FeederLeaves(c)
    PROVE  IInv'
  <1>1. PICK j : j = job[c]
    OBVIOUS
  <1>2. PICK k : k = [j EXCEPT !.todo = {}]
    OBVIOUS
  <1>3. j \in JobType /\ Acting(j) /\ j.step = "act"
    BY <1>1 DEF IInv, TypeOK, JobsOK, JobOK, FeederLeaves
  <1>4. /\ k \in JobType /\ k.step = "act" /\ k.op = j.op /\ k.run = j.run /\ k.seen = j.seen
        /\ k.found = j.found /\ k.outcome = j.outcome /\ k.todo = {} /\ k.busy = j.busy
    BY <1>2, <1>3 DEF JobType
  <1>5. CalledBy(k) = CalledBy(j)
    BY <1>4 DEF CalledBy
  <1>6. Working(k)
    BY <1>3, <1>4 DEF Acting, Working, Owns, Callable
  <1>7. OnePerFile(k.todo \cup k.busy \cup CalledBy(k))
    BY <1>3, <1>4, <1>5 DEF Acting, OnePerFile
  <1>8. JobOK(k)
    BY <1>3, <1>4, <1>6, <1>7 DEF JobOK, Acting, Verified
  <1>9. Set(c, k) /\ Active(c) /\ UNCHANGED <<cpaVars, running, dbVars>>
    BY <1>1, <1>2, <1>3 DEF FeederLeaves, Active
  <1>10. QED
    BY <1>4, <1>8, <1>9, QuietStep

\* What Finish writes.
LEMMA FinishType ==
    ASSUME IInv, NEW c \in Callers, Finish(c)
    PROVE  /\ job[c] \in JobType /\ Acting(job[c]) /\ Active(c)
           /\ job[c].run \in 1..Len(runs) /\ job[c].run \in RunIds
           /\ results' \in [RunIds -> [Accounts -> Row]]
           /\ \A r \in RunIds \ {job[c].run} : results'[r] = results[r]
           /\ \A a \in Accounts :
                 /\ results'[job[c].run][a].action = results[job[c].run][a].action
                 /\ results'[job[c].run][a].status =
                       IF job[c].outcome[a] = "none" THEN results[job[c].run][a].status
                       ELSE IF job[c].outcome[a] = "refused" THEN "failed" ELSE job[c].outcome[a]
                 /\ results'[job[c].run][a].status = "success" => a \in accepted[job[c].run]
  <1>1. PICK j : j = job[c]
    OBVIOUS
  <1>2. j \in JobType /\ Acting(j) /\ Active(c)
    BY <1>1 DEF IInv, TypeOK, JobsOK, JobOK, Finish, Active
  <1>3. j.run \in 1..Len(runs) /\ j.run \in RunIds
    BY <1>2, RunsLength DEF Acting, Working, Owns, IInv
  <1>4. results \in [RunIds -> [Accounts -> Row]] /\ j.found \in [Accounts -> Row]
        /\ j.outcome \in [Accounts -> Outcomes] /\ j.found = results[j.run]
    BY <1>2 DEF IInv, TypeOK, JobType, Acting, Working
  <1>5. PICK rows : rows = Applied(j.found, j.outcome)
    OBVIOUS
  <1>6. /\ rows \in [Accounts -> Row]
        /\ \A a \in Accounts :
              /\ rows[a].action = j.found[a].action
              /\ rows[a].status = IF j.outcome[a] = "none" THEN j.found[a].status
                                  ELSE IF j.outcome[a] = "refused" THEN "failed" ELSE j.outcome[a]
    BY <1>4, <1>5, AppliedType
  <1>7. results' = [results EXCEPT ![j.run] = rows]
    BY <1>1, <1>5 DEF Finish
  <1>8. /\ results' \in [RunIds -> [Accounts -> Row]]
        /\ \A r \in RunIds \ {j.run} : results'[r] = results[r]
        /\ results'[j.run] = rows
    BY <1>3, <1>4, <1>6, <1>7
  <1>9. \A a \in Accounts : rows[a].status = "success" => a \in accepted[j.run]
    BY <1>2, <1>3, <1>4, <1>6 DEF IInv, RowsOK, Acting
  <1>10. QED
    BY <1>1, <1>2, <1>3, <1>4, <1>6, <1>8, <1>9

LEMMA FinishInv ==
    ASSUME IInv, NEW c \in Callers, Finish(c)
    PROVE  IInv'
  BY FinishType, EndStep DEF Finish

\* CPA's other clients.
LEMMA OtherStep ==
    ASSUME IInv, UNCHANGED <<accepted, running, job, dbVars>>,
           listed' \subseteq Accounts /\ disabled' \subseteq listed',
           uploads' \in [Files -> 0..MaxUploads],
           \A j \in JobType, a \in Accounts : Verified(j, a) => Verified(j, a)'
    PROVE  IInv'
  <1>1. TypeOK' /\ Exclusive' /\ RowsOK'
    BY DEF IInv, TypeOK, Exclusive, Active, RowsOK, dbVars
  <1>2. JobsOK'
    <2> SUFFICES ASSUME NEW c \in Callers
                 PROVE  JobOK(job[c])'
      BY DEF JobsOK
    <2>1. PICK j : j = job[c]
      OBVIOUS
    <2>2. j \in JobType /\ JobOK(j)
      BY <2>1 DEF IInv, TypeOK, JobsOK
    <2>3. \A a \in Accounts : Verified(j, a) => Verified(j, a)'
      BY <2>2
    <2>4. j.todo \cup j.busy \subseteq Accounts
      BY <2>2 DEF JobType
    <2>5. Probing(j) => Probing(j)'
      BY <2>3 DEF Probing, Owns, dbVars
    <2>6. Verifying(j) => Verifying(j)'
      BY DEF Verifying, Working, Owns, Callable, CalledBy, OnePerFile, dbVars
    <2>7. Acting(j) => Acting(j)'
      <3> SUFFICES ASSUME Acting(j)
                   PROVE  Acting(j)'
        OBVIOUS
      <3>1. \A a \in j.todo \cup j.busy : Verified(j, a)'
        BY <2>3, <2>4 DEF Acting
      <3>2. Working(j)' /\ CalledBy(j)' = CalledBy(j)
        BY DEF Acting, Working, Owns, Callable, CalledBy, dbVars
      <3>3. OnePerFile(j.todo \cup j.busy \cup CalledBy(j))'
        BY <3>2 DEF Acting, OnePerFile
      <3>4. QED
        BY <3>1, <3>2, <3>3 DEF Acting
    <2>8. JobOK(j)'
      BY <2>2, <2>5, <2>6, <2>7 DEF JobOK, Fresh, Owns, dbVars
    <2>9. job'[c] = j
      BY <2>1
    <2>10. QED
      BY <2>8, <2>9 DEF JobOK, Fresh, Probing, Verifying, Acting, Owns, Working, Verified,
                        Callable, CalledBy
  <1>3. QED
    BY <1>1, <1>2 DEF IInv

LEMMA UploadInv ==
    ASSUME IInv, NEW f \in Files, NEW S \in SUBSET OfFile(f), Upload(f, S)
    PROVE  IInv'
  <1>1. uploads \in [Files -> 0..MaxUploads] /\ uploads[f] \in Nat /\ uploads[f] + 1 \in 0..MaxUploads
    BY CodexInspectionAssumption DEF IInv, TypeOK, Upload
  <1>2. /\ uploads' \in [Files -> 0..MaxUploads] /\ uploads'[f] = uploads[f] + 1
        /\ \A g \in Files \ {f} : uploads'[g] = uploads[g]
    BY <1>1 DEF Upload
  <1>3. listed' \subseteq Accounts /\ disabled' \subseteq listed'
        /\ \A a \in Accounts : FileOf[a] # f /\ a \in listed => a \in listed'
    BY DEF IInv, TypeOK, Upload, OfFile
  <1>4. \A j \in JobType, a \in Accounts : Verified(j, a) => Verified(j, a)'
    <2> TAKE j \in JobType, a \in Accounts
    <2>1. FileOf[a] \in Files /\ j.seen[FileOf[a]] \in Nat
      BY CodexInspectionAssumption DEF JobType
    <2>2. CASE FileOf[a] = f
      BY <2>1, <2>2, <1>1, <1>2 DEF Verified
    <2>3. CASE FileOf[a] # f
      BY <2>1, <2>3, <1>2, <1>3 DEF Verified
    <2>4. QED
      BY <2>2, <2>3
  <1>5. QED
    BY <1>2, <1>3, <1>4, OtherStep DEF Upload

LEMMA SwitchInv ==
    ASSUME IInv, NEW f \in Files, NEW action \in Switches, Switch(action, f)
    PROVE  IInv'
  <1>1. action \in Executable /\ action # "delete"
    BY CodexInspectionAssumption DEF Executable
  <1>2. listed' = listed /\ disabled' \subseteq listed' /\ uploads' = uploads
    BY <1>1, ApplyType DEF Switch, IInv, TypeOK
  <1>3. \A j \in JobType, a \in Accounts : Verified(j, a) => Verified(j, a)'
    BY <1>2 DEF Verified
  <1>4. QED
    BY <1>2, <1>3, OtherStep DEF Switch, IInv, TypeOK

(***************************************************************************)
(* Type correctness, and the calls.                                        *)
(***************************************************************************)

LEMMA InitInv == Init => IInv
  <1> SUFFICES ASSUME Init
               PROVE  IInv
    OBVIOUS
  <1>1. \A c \in Callers : job[c] = Idle
    BY DEF Init
  <1>2. runs \in Seq(RunRow) /\ Len(runs) = 0
    BY DEF Init
  <1>3. results \in [RunIds -> [Accounts -> Row]] /\ accepted \in [RunIds -> SUBSET Accounts]
    BY DEF Init, NoResults, NoRow, Row, Statuses
  <1>4. TypeOK
    <2>1. MaxUploads \in Nat /\ MaxRuns \in Nat
      BY CodexInspectionAssumption
    <2>2. uploads \in [Files -> 0..MaxUploads] /\ Len(runs) <= MaxRuns
      BY <2>1, <1>2 DEF Init
    <2>3. job \in [Callers -> JobType] /\ running \in BOOLEAN
      BY IdleType DEF Init
    <2>4. listed \subseteq Accounts /\ disabled \subseteq listed
      BY DEF Init
    <2>5. QED
      BY <1>2, <1>3, <2>2, <2>3, <2>4 DEF TypeOK
  <1>5. RowsOK
    BY DEF Init, RowsOK, NoResults, NoRow
  <1>6. Exclusive
    BY <1>1, IdleType DEF Exclusive, Active
  <1>7. JobsOK
    BY <1>1, IdleType DEF JobsOK, JobOK, Fresh, Idle
  <1>8. QED
    BY <1>4, <1>5, <1>6, <1>7 DEF IInv

LEMMA StepInv ==
    ASSUME IInv, NEW c \in Callers, Step(c)
    PROVE  IInv'
  <1>1. CASE AcquireRun(c) \/ Refuse(c) \/ Leave(c)
    BY <1>1, AcquireRunInv, RefuseInv, LeaveInv
  <1>2. CASE \E mode \in Modes : CreateRun(c, mode)
    BY <1>2, CreateRunInv
  <1>3. CASE List(c) \/ ListFails(c)
    BY <1>3, ListInv, ListFailsInv
  <1>4. CASE \E a \in Accounts : Probe(c, a) \/ Hand(c, a) \/ Call(c, a) \/ CallFails(c, a)
    BY <1>4, ProbeInv, HandInv, CallInv, CallFailsInv
  <1>5. CASE ProbesCancelled(c) \/ ProbesEnd(c)
    BY <1>5, ProbesCancelledInv, ProbesEndInv
  <1>6. CASE \E picked \in SUBSET Accounts \ {{}} : ReadResults(c, picked)
    BY <1>6, ReadResultsInv
  <1>7. CASE Verify(c)
    BY <1>7, VerifyInv
  <1>8. CASE WorkerLeaves(c) \/ FeederLeaves(c) \/ Finish(c)
    BY <1>8, WorkerLeavesInv, FeederLeavesInv, FinishInv
  <1>9. QED
    BY <1>1, <1>2, <1>3, <1>4, <1>5, <1>6, <1>7, <1>8 DEF Step

LEMMA NextInv == IInv /\ [Next]_vars => IInv'
  <1> SUFFICES ASSUME IInv, [Next]_vars
               PROVE  IInv'
    OBVIOUS
  <1>1. ASSUME NEW c \in Callers, Step(c)
        PROVE  IInv'
    BY <1>1, StepInv
  <1>2. ASSUME NEW c \in Callers, Ask(c)
        PROVE  IInv'
    BY <1>2, TickInv, PostRunInv, PostActionsInv, CancelInv DEF Ask
  <1>3. CASE Restart
    BY <1>3, RestartInv
  <1>4. CASE Other
    BY <1>4, UploadInv, SwitchInv DEF Other
  <1>5. CASE UNCHANGED vars
    <2>1. \A j \in JobType, a \in Accounts : Verified(j, a) => Verified(j, a)'
      BY <1>5 DEF Verified, vars, cpaVars
    <2>2. QED
      BY <1>5, <2>1, OtherStep DEF IInv, TypeOK, vars, cpaVars, dbVars
  <1>6. QED
    BY <1>1, <1>2, <1>3, <1>4, <1>5 DEF Next

\* The goroutines, the flag and the two tables keep their types; the inductive
\* invariant always holds.
THEOREM TypeCorrect == Spec => []TypeOK
  <1>1. Spec => []IInv
    BY InitInv, NextInv, PTL DEF Spec
  <1>2. IInv => TypeOK
    BY DEF IInv
  <1>3. QED
    BY <1>1, <1>2, PTL

\* executeAction names a file alone; unless that file was uploaded anew since its
\* account was last looked up, the account is in it.
THEOREM CallsReachTheirAccount == Spec => CallsHitTheAccount
  <1>1. ASSUME IInv, [Next]_vars, NEW c \in Callers, NEW a \in Accounts, Call(c, a),
               job[c].seen[FileOf[a]] = uploads[FileOf[a]]
        PROVE  a \in listed
    <2>1. Acting(job[c]) /\ a \in job[c].busy
      BY <1>1 DEF IInv, JobsOK, JobOK, Call
    <2>2. QED
      BY <1>1, <2>1 DEF Acting, Verified
  <1>2. IInv /\ [Next]_vars =>
          [\A c \in Callers, a \in Accounts :
              Call(c, a) /\ job[c].seen[FileOf[a]] = uploads[FileOf[a]] => a \in listed]_vars
    BY <1>1
  <1>3. QED
    BY <1>2, InitInv, NextInv, PTL DEF Spec, CallsHitTheAccount

(***************************************************************************)
(* The record of runs.                                                     *)
(***************************************************************************)

\* Whom the goroutines show to be at work, and what they have called.
HolderOf(jobs) ==
    IF \E c \in Callers : InCharge(jobs[c])
    THEN jobs[CHOOSE c \in Callers : InCharge(jobs[c])].run ELSE 0
TriedBy(jobs) == {FileOf[a] : a \in UNION {CalledBy(jobs[c]) : c \in Callers}}

TriedFor(j) == {FileOf[a] : a \in CalledBy(j)}

LEMMA ShownBy ==
    /\ Holder = HolderOf(job) /\ Holder' = HolderOf(job')
    /\ Tried = TriedBy(job) /\ Tried' = TriedBy(job')
  BY DEF Holder, HolderOf, Tried, TriedBy, InCharge, CalledBy

LEMMA OneShows ==
    ASSUME NEW jobs, NEW c \in Callers,
           \A d \in Callers \ {c} : ~InCharge(jobs[d]) /\ CalledBy(jobs[d]) = {}
    PROVE  /\ HolderOf(jobs) = IF InCharge(jobs[c]) THEN jobs[c].run ELSE 0
           /\ TriedBy(jobs) = TriedFor(jobs[c])
  <1>1. ASSUME InCharge(jobs[c])
        PROVE  HolderOf(jobs) = jobs[c].run
    <2>1. \A d \in Callers : InCharge(jobs[d]) <=> d = c
      BY <1>1
    <2>2. (CHOOSE d \in Callers : InCharge(jobs[d])) = c
      BY <2>1
    <2>3. QED
      BY <1>1, <2>2 DEF HolderOf
  <1>2. ASSUME ~InCharge(jobs[c])
        PROVE  HolderOf(jobs) = 0
    BY <1>2 DEF HolderOf
  <1>3. UNION {CalledBy(jobs[d]) : d \in Callers} = CalledBy(jobs[c])
    <2> DEFINE sets == {CalledBy(jobs[d]) : d \in Callers}
    <2>1. CalledBy(jobs[c]) \in sets
      OBVIOUS
    <2>2. \A s \in sets : s = {} \/ s = CalledBy(jobs[c])
      OBVIOUS
    <2> HIDE DEF sets
    <2>3. UNION sets = CalledBy(jobs[c])
      BY <2>1, <2>2
    <2>4. QED
      BY <2>3 DEF sets
  <1>4. QED
    BY <1>1, <1>2, <1>3 DEF TriedBy, TriedFor

LEMMA NobodyShows ==
    ASSUME NEW jobs, \A c \in Callers : ~InCharge(jobs[c]) /\ CalledBy(jobs[c]) = {}
    PROVE  HolderOf(jobs) = 0 /\ TriedBy(jobs) = {}
  BY DEF HolderOf, TriedBy

LEMMA FreshShows ==
    ASSUME NEW j, Fresh(j)
    PROVE  CalledBy(j) = {}
  BY DEF Fresh, CalledBy, NoOutcomes

LEMMA OthersShow ==
    ASSUME IInv, NEW c \in Callers, Active(c)
    PROVE  \A d \in Callers \ {c} : ~InCharge(job[d]) /\ CalledBy(job[d]) = {}
  <1> TAKE d \in Callers \ {c}
  <1>1. job[d].step \in {"idle", "asked"}
    BY DEF IInv, Exclusive, Active
  <1>2. Fresh(job[d])
    BY <1>1 DEF IInv, JobsOK, JobOK
  <1>3. QED
    BY <1>1, <1>2, FreshShows DEF InCharge

\* The view before and after a step of the goroutine past the flag, ...
LEMMA HolderView ==
    ASSUME IInv, NEW c \in Callers, Active(c), NEW k, Set(c, k)
    PROVE  /\ Holder = IF InCharge(job[c]) THEN job[c].run ELSE 0
           /\ Holder' = IF InCharge(k) THEN k.run ELSE 0
           /\ Tried = TriedFor(job[c]) /\ Tried' = TriedFor(k)
  <1>1. job'[c] = k /\ \A d \in Callers \ {c} : job'[d] = job[d]
    BY SetKeeps DEF IInv, TypeOK
  <1>2. \A d \in Callers \ {c} : ~InCharge(job[d]) /\ CalledBy(job[d]) = {}
    BY OthersShow
  <1>3. \A d \in Callers \ {c} : ~InCharge(job'[d]) /\ CalledBy(job'[d]) = {}
    BY <1>1, <1>2
  <1>4. HolderOf(job) = (IF InCharge(job[c]) THEN job[c].run ELSE 0)
        /\ TriedBy(job) = TriedFor(job[c])
    BY <1>2, OneShows
  <1>5. HolderOf(job') = (IF InCharge(job'[c]) THEN job'[c].run ELSE 0)
        /\ TriedBy(job') = TriedFor(job'[c])
    BY <1>3, OneShows
  <1>6. QED
    BY <1>1, <1>4, <1>5, ShownBy

\* ... and of one that is not.
LEMMA WaiterView ==
    ASSUME IInv, NEW c \in Callers, job[c].step \in {"idle", "asked"},
           NEW k, Set(c, k), k.step \in {"idle", "asked", "begin"}, Fresh(k)
    PROVE  Holder' = Holder /\ Tried' = Tried
  <1>1. job'[c] = k /\ \A d \in Callers \ {c} : job'[d] = job[d]
    BY SetKeeps DEF IInv, TypeOK
  <1>2. ~InCharge(job[c]) /\ CalledBy(job[c]) = {} /\ ~InCharge(k) /\ CalledBy(k) = {}
    BY FreshShows DEF IInv, JobsOK, JobOK, InCharge
  <1>3. CASE \E d \in Callers : Active(d)
    <2>1. PICK d \in Callers : Active(d)
      BY <1>3
    <2>2. d # c
      BY <2>1 DEF Active
    <2>3. \A e \in Callers \ {d} : ~InCharge(job[e]) /\ CalledBy(job[e]) = {}
      BY <2>1, OthersShow
    <2>4. job'[d] = job[d]
          /\ \A e \in Callers \ {d} : ~InCharge(job'[e]) /\ CalledBy(job'[e]) = {}
      BY <1>1, <1>2, <2>2, <2>3
    <2>5. HolderOf(job) = (IF InCharge(job[d]) THEN job[d].run ELSE 0)
          /\ TriedBy(job) = TriedFor(job[d])
      BY <2>3, OneShows
    <2>6. HolderOf(job') = (IF InCharge(job'[d]) THEN job'[d].run ELSE 0)
          /\ TriedBy(job') = TriedFor(job'[d])
      BY <2>4, OneShows
    <2>7. QED
      BY <2>4, <2>5, <2>6, ShownBy
  <1>4. CASE \A d \in Callers : ~Active(d)
    <2>1. \A d \in Callers : ~InCharge(job[d]) /\ CalledBy(job[d]) = {}
      BY <1>4, FreshShows DEF IInv, JobsOK, JobOK, InCharge, Active
    <2>2. \A d \in Callers : ~InCharge(job'[d]) /\ CalledBy(job'[d]) = {}
      BY <1>1, <1>2, <2>1
    <2>3. QED
      BY <2>1, <2>2, NobodyShows, ShownBy
  <1>5. QED
    BY <1>3, <1>4

LEMMA SameRecord ==
    ASSUME UNCHANGED dbVars
    PROVE  StatusOf' = StatusOf /\ AdviceOf' = AdviceOf /\ SettledIn' = SettledIn
           /\ SuccessIn' = SuccessIn
  BY DEF StatusOf, AdviceOf, SettledIn, SuccessIn, dbVars

\* Steps that change nothing of the record.
LEMMA WaiterRecord ==
    ASSUME IInv, NEW c \in Callers, job[c].step \in {"idle", "asked"},
           NEW k, Set(c, k), k.step \in {"idle", "asked", "begin"}, Fresh(k),
           UNCHANGED <<accepted, dbVars>>
    PROVE  UNCHANGED Ledger!ledgerVars
  BY WaiterView, SameRecord DEF Ledger!ledgerVars

LEMMA HolderRecord ==
    ASSUME IInv, NEW c \in Callers, Active(c), NEW k, Set(c, k),
           InCharge(k) <=> InCharge(job[c]), InCharge(k) => k.run = job[c].run,
           CalledBy(k) = CalledBy(job[c]), UNCHANGED <<accepted, dbVars>>
    PROVE  UNCHANGED Ledger!ledgerVars
  BY HolderView, SameRecord DEF Ledger!ledgerVars, TriedFor

LEMMA AskRecord ==
    ASSUME IInv, NEW c \in Callers, Ask(c)
    PROVE  UNCHANGED Ledger!ledgerVars
  <1>1. CASE PostRun(c)
    <2>1. PICK k : k = [Idle EXCEPT !.step = "asked"]
      OBVIOUS
    <2>2. k.step = "asked" /\ Fresh(k)
      BY <2>1, IdleType DEF JobType, Fresh
    <2>3. QED
      BY <1>1, <2>1, <2>2, WaiterRecord DEF PostRun, cpaVars
  <1>2. CASE Cancel(c)
    <2>1. PICK k : k = [job[c] EXCEPT !.cancelled = TRUE]
      OBVIOUS
    <2>2. k.step = job[c].step /\ k.run = job[c].run /\ k.outcome = job[c].outcome
      BY <2>1 DEF IInv, TypeOK, JobType
    <2>3. QED
      BY <1>2, <2>1, <2>2, HolderRecord DEF Cancel, Active, InCharge, CalledBy, cpaVars
  <1>3. ASSUME NEW key \in Keys, Tick(c, key)
        PROVE  UNCHANGED Ledger!ledgerVars
    <2>1. PICK k : k = [Idle EXCEPT !.step = "asked", !.key = key]
      OBVIOUS
    <2>2. k.step = "asked" /\ Fresh(k)
      BY <2>1, IdleType DEF JobType, Fresh
    <2>3. QED
      BY <1>3, <2>1, <2>2, WaiterRecord DEF Tick, cpaVars
  <1>4. ASSUME NEW r \in 1..Len(runs), PostActions(c, r)
        PROVE  UNCHANGED Ledger!ledgerVars
    <2>1. PICK k : k = [Idle EXCEPT !.step = "asked", !.op = "actions", !.run = r]
      OBVIOUS
    <2>2. k.step = "asked" /\ Fresh(k)
      BY <2>1, IdleType DEF JobType, Fresh
    <2>3. QED
      BY <1>4, <2>1, <2>2, WaiterRecord DEF PostActions, cpaVars
  <1>5. QED
    BY <1>1, <1>2, <1>3, <1>4 DEF Ask

LEMMA FlagRecord ==
    ASSUME IInv, NEW c \in Callers, AcquireRun(c) \/ Refuse(c)
    PROVE  UNCHANGED Ledger!ledgerVars
  <1>1. CASE AcquireRun(c)
    <2>1. PICK k : k = [job[c] EXCEPT !.step = "begin"]
      OBVIOUS
    <2>2. job[c] \in JobType /\ Fresh(job[c])
      BY <1>1 DEF IInv, TypeOK, JobsOK, JobOK, AcquireRun
    <2>3. k.step = "begin" /\ Fresh(k)
      BY <2>1, <2>2 DEF JobType, Fresh
    <2>4. QED
      BY <1>1, <2>1, <2>3, WaiterRecord DEF AcquireRun, cpaVars
  <1>2. CASE Refuse(c)
    BY <1>2, IdleType, WaiterRecord DEF Refuse, cpaVars
  <1>3. QED
    BY <1>1, <1>2

\* Steps of the goroutine past the flag that leave what it called and the run.
LEMMA QuietRecord ==
    ASSUME IInv, NEW c \in Callers,
           \/ List(c) \/ ProbesEnd(c) \/ Verify(c)
           \/ WorkerLeaves(c) \/ FeederLeaves(c)
           \/ \E a \in Accounts : Hand(c, a)
    PROVE  UNCHANGED Ledger!ledgerVars
  <1>1. PICK j : j = job[c]
    OBVIOUS
  <1>2. j \in JobType /\ JobOK(j)
    BY <1>1 DEF IInv, TypeOK, JobsOK
  <1>3. CASE List(c)
    <2>1. PICK sample \in Samples : Set(c, [j EXCEPT !.step = "probe", !.todo = sample,
                                                     !.off = disabled, !.seen = uploads])
      BY <1>1, <1>3 DEF List
    <2>2. PICK k : k = [j EXCEPT !.step = "probe", !.todo = sample, !.off = disabled,
                                 !.seen = uploads]
      OBVIOUS
    <2>3. k.step = "probe" /\ k.run = j.run /\ k.outcome = j.outcome
      BY <1>2, <2>2 DEF JobType
    <2>4. QED
      BY <1>1, <1>3, <2>1, <2>2, <2>3, HolderRecord DEF List, Active, InCharge, CalledBy, cpaVars
  <1>4. CASE ProbesEnd(c)
    <2>1. PICK outcome : outcome = AutoOutcome(j.mode, j.found)
      OBVIOUS
    <2>2. PICK k : k = Act([j EXCEPT !.off = {}], AutoItems(j.mode, j.found), outcome)
      OBVIOUS
    <2>3. k.step = "act" /\ k.run = j.run /\ k.outcome = outcome
      BY <1>2, <2>2 DEF JobType, Act
    <2>4. CalledBy(k) = {}
      BY <2>1, <2>3, AutoOutcomeType DEF CalledBy
    <2>5. CalledBy(j) = {}
      BY <1>1, <1>2, <1>4 DEF ProbesEnd, JobOK, Probing, CalledBy, NoOutcomes
    <2>6. Set(c, k)
      BY <1>1, <1>4, <2>1, <2>2 DEF ProbesEnd
    <2>7. QED
      BY <1>1, <1>4, <2>3, <2>4, <2>5, <2>6, HolderRecord
         DEF ProbesEnd, Active, InCharge, cpaVars
  <1>5. CASE Verify(c)
    <2>1. PICK valid : valid = {a \in j.todo : MatchCurrentAccount(a) /\ ~Superfluous(j, a)}
      OBVIOUS
    <2>2. PICK outcome :
             outcome = [a \in Accounts |->
                           IF a \in j.todo \ valid
                           THEN IF MatchCurrentAccount(a) THEN "skipped" ELSE "refused"
                           ELSE j.outcome[a]]
      OBVIOUS
    <2>3. PICK k : k = Act([j EXCEPT !.seen = uploads], valid, outcome)
      OBVIOUS
    <2>4. k.step = "act" /\ k.run = j.run /\ k.outcome = outcome
      BY <1>2, <2>3 DEF JobType, Act
    <2>5. CalledBy(j) = {}
      BY <1>1, <1>2, <1>5 DEF Verify, JobOK, Verifying
    <2>6. CalledBy(k) = {}
      BY <2>2, <2>4, <2>5 DEF CalledBy
    <2>7. Set(c, k)
      BY <1>1, <1>5, <2>1, <2>2, <2>3 DEF Verify
    <2>8. QED
      BY <1>1, <1>5, <2>4, <2>5, <2>6, <2>7, HolderRecord DEF Verify, Active, InCharge, cpaVars
  <1>6. CASE WorkerLeaves(c)
    <2>1. PICK k : k = [j EXCEPT !.workers = @ - 1]
      OBVIOUS
    <2>2. k.step = j.step /\ k.run = j.run /\ k.outcome = j.outcome
      BY <1>2, <2>1 DEF JobType
    <2>3. QED
      BY <1>1, <1>6, <2>1, <2>2, HolderRecord DEF WorkerLeaves, Active, InCharge, CalledBy, cpaVars
  <1>7. CASE FeederLeaves(c)
    <2>1. PICK k : k = [j EXCEPT !.todo = {}]
      OBVIOUS
    <2>2. k.step = j.step /\ k.run = j.run /\ k.outcome = j.outcome
      BY <1>2, <2>1 DEF JobType
    <2>3. QED
      BY <1>1, <1>7, <2>1, <2>2, HolderRecord DEF FeederLeaves, Active, InCharge, CalledBy, cpaVars
  <1>8. ASSUME NEW a \in Accounts, Hand(c, a)
        PROVE  UNCHANGED Ledger!ledgerVars
    <2>1. PICK k : k = [j EXCEPT !.todo = @ \ {a}, !.busy = @ \cup {a}]
      OBVIOUS
    <2>2. k.step = j.step /\ k.run = j.run /\ k.outcome = j.outcome
      BY <1>2, <2>1 DEF JobType
    <2>3. QED
      BY <1>1, <1>8, <2>1, <2>2, HolderRecord DEF Hand, Active, InCharge, CalledBy, cpaVars
  <1>9. QED
    BY <1>3, <1>4, <1>5, <1>6, <1>7, <1>8

\* The end of a run.
LEMMA EndRecord ==
    ASSUME IInv, NEW c \in Callers, InCharge(job[c]), job[c].run \in 1..Len(runs),
           NEW status \in {"running", "completed", "failed"}, EndRun(c, status),
           UNCHANGED accepted
    PROVE  /\ job[c].run \in RunIds /\ job[c].run # 0 /\ Holder = job[c].run
           /\ StatusOf[job[c].run] = runs[job[c].run].status
           /\ Ledger!Close
           /\ StatusOf' = [StatusOf EXCEPT ![job[c].run] = status]
  <1>1. PICK r : r = job[c].run
    OBVIOUS
  <1>2. r \in 1..Len(runs) /\ r \in RunIds /\ Len(runs) \in Nat /\ r # 0
    BY <1>1, RunsLength DEF IInv
  <1>3. Active(c) /\ Set(c, Idle)
    BY DEF EndRun, ReleaseRun, Active, InCharge
  <1>4. ~InCharge(Idle) /\ TriedFor(Idle) = {}
    BY IdleType, FreshShows DEF InCharge, TriedFor
  <1>5. Holder = r /\ Holder' = 0 /\ Tried' = {}
    BY <1>1, <1>3, <1>4, HolderView
  <1>6. Len(runs') = Len(runs) /\ runs'[r].status = status
        /\ \A q \in 1..Len(runs) : q # r => runs'[q] = runs[q]
    BY <1>1, <1>2, EndRunType DEF EndRun, IInv
  <1>7. StatusOf' = [StatusOf EXCEPT ![r] = status]
    <2>1. \A q \in RunIds : StatusOf'[q] = IF q = r THEN status ELSE StatusOf[q]
      BY <1>2, <1>6 DEF StatusOf, RunIds
    <2>2. QED
      BY <2>1 DEF StatusOf
  <1>8. StatusOf[r] = runs[r].status
    BY <1>2 DEF StatusOf
  <1>9. QED
    BY <1>1, <1>2, <1>5, <1>7, <1>8 DEF Ledger!Close

LEMMA LeaveRecord ==
    ASSUME IInv, NEW c \in Callers, Leave(c)
    PROVE  [Ledger!Next]_Ledger!ledgerVars
  <1>1. Active(c) /\ Set(c, Idle) /\ UNCHANGED <<accepted, dbVars>>
    BY DEF Leave, ReleaseRun, Active, cpaVars
  <1>2. ~InCharge(Idle) /\ CalledBy(Idle) = {} /\ TriedFor(Idle) = {}
    BY IdleType, FreshShows DEF InCharge, TriedFor
  <1>3. CASE job[c].step = "begin"
    <2>1. ~InCharge(job[c]) /\ CalledBy(job[c]) = {}
      BY <1>3, FreshShows DEF IInv, JobsOK, JobOK, InCharge
    <2>2. QED
      BY <1>1, <1>2, <2>1, HolderRecord
  <1>4. CASE job[c].step = "verify"
    <2>1. InCharge(job[c]) /\ job[c].run \in 1..Len(runs)
      BY <1>4 DEF IInv, JobsOK, JobOK, InCharge, Verifying, Working, Owns
    <2>2. job[c].run # 0
      BY <2>1, RunsLength DEF IInv
    <2>3. Holder # 0 /\ Holder' = 0 /\ Tried' = {}
      BY <1>1, <1>2, <2>1, <2>2, HolderView
    <2>4. Ledger!Abandon
      BY <1>1, <2>3, SameRecord DEF Ledger!Abandon, Ledger!Close
    <2>5. QED
      BY <2>4 DEF Ledger!Next
  <1>5. QED
    BY <1>3, <1>4 DEF Leave

LEMMA RestartRecord ==
    ASSUME IInv, Restart
    PROVE  [Ledger!Next]_Ledger!ledgerVars
  <1>1. UNCHANGED <<accepted, dbVars>> /\ \A d \in Callers : job'[d] = Idle
    BY DEF Restart, cpaVars
  <1>2. \A d \in Callers : ~InCharge(job'[d]) /\ CalledBy(job'[d]) = {}
    BY <1>1, IdleType, FreshShows DEF InCharge
  <1>3. Holder' = 0 /\ Tried' = {}
    BY <1>2, NobodyShows, ShownBy
  <1>4. CASE Holder # 0
    BY <1>1, <1>3, <1>4, SameRecord DEF Ledger!Abandon, Ledger!Close, Ledger!Next
  <1>5. CASE Holder = 0
    <2>1. ASSUME NEW c \in Callers, InCharge(job[c])
          PROVE  FALSE
      <3>1. Active(c) /\ job[c].run \in 1..Len(runs)
        BY <2>1 DEF IInv, JobsOK, JobOK, InCharge, Active, Probing, Verifying, Acting, Working, Owns
      <3>2. HolderOf(job) = job[c].run
        BY <2>1, <3>1, OthersShow, OneShows
      <3>3. QED
        BY <1>5, <3>1, <3>2, ShownBy, RunsLength DEF IInv
    <2>2. \A c \in Callers : CalledBy(job[c]) = {}
      BY <2>1, FreshShows DEF IInv, JobsOK, JobOK, InCharge, TypeOK, JobType
    <2>3. Tried = {}
      BY <2>1, <2>2, NobodyShows, ShownBy
    <2>4. QED
      BY <1>1, <1>3, <1>5, <2>3, SameRecord DEF Ledger!ledgerVars
  <1>6. QED
    BY <1>4, <1>5

LEMMA CreateRunRecord ==
    ASSUME IInv, NEW c \in Callers, NEW mode \in Modes, CreateRun(c, mode)
    PROVE  \E r \in RunIds : Ledger!Begin(r)
  <1>1. PICK j : j = job[c]
    OBVIOUS
  <1>2. PICK r : r = Len(runs) + 1
    OBVIOUS
  <1>3. PICK k : k = [j EXCEPT !.step = "list", !.run = r, !.mode = mode]
    OBVIOUS
  <1>4. j \in JobType /\ Fresh(j) /\ j.step = "begin"
    BY <1>1 DEF IInv, TypeOK, JobsOK, JobOK, CreateRun
  <1>5. Len(runs) \in Nat /\ r \in RunIds /\ r \in 1..MaxRuns /\ r > Len(runs) /\ r \in Nat
    BY <1>2, RunsLength, CodexInspectionAssumption DEF IInv, CreateRun, RunIds
  <1>6. k.step = "list" /\ k.run = r /\ k.outcome = j.outcome
    BY <1>3, <1>4, <1>5 DEF JobType
  <1>7. Active(c) /\ Set(c, k) /\ UNCHANGED <<accepted, results>>
    BY <1>1, <1>2, <1>3, <1>4 DEF CreateRun, Active, cpaVars
  <1>8. [status |-> "running", trigger |-> j.key] \in RunRow
    BY <1>4 DEF JobType, RunRow
  <1>9. Len(runs') = r /\ runs'[r].status = "running" /\ \A q \in 1..Len(runs) : runs'[q] = runs[q]
    BY <1>1, <1>2, <1>8, AppendRun DEF CreateRun, IInv
  <1>10. Holder = 0 /\ Holder' = r /\ Tried' = Tried
    <2>1. ~InCharge(j) /\ InCharge(k) /\ CalledBy(k) = CalledBy(j)
      BY <1>4, <1>6 DEF InCharge, CalledBy
    <2>2. QED
      BY <1>1, <1>6, <1>7, <2>1, HolderView DEF TriedFor
  <1>11. StatusOf[r] = "none" /\ StatusOf' = [StatusOf EXCEPT ![r] = "running"]
    <2>1. StatusOf[r] = "none"
      BY <1>5 DEF StatusOf
    <2>2. \A q \in RunIds : StatusOf'[q] = IF q = r THEN "running" ELSE StatusOf[q]
      BY <1>2, <1>5, <1>9 DEF StatusOf, RunIds
    <2>3. QED
      BY <2>1, <2>2 DEF StatusOf
  <1>12. AdviceOf' = AdviceOf /\ SettledIn' = SettledIn /\ SuccessIn' = SuccessIn
    BY <1>7 DEF AdviceOf, SettledIn, SuccessIn
  <1>13. QED
    BY <1>5, <1>7, <1>10, <1>11, <1>12 DEF Ledger!Begin

LEMMA ReadResultsRecord ==
    ASSUME IInv, NEW c \in Callers, NEW picked, ReadResults(c, picked)
    PROVE  \E r \in RunIds : Ledger!Open(r)
  <1>1. PICK j : j = job[c]
    OBVIOUS
  <1>2. PICK found : found = results[j.run]
    OBVIOUS
  <1>3. PICK items : items = ManualItems(picked, found)
    OBVIOUS
  <1>4. PICK outcome : outcome = ManualOutcome(picked, found)
    OBVIOUS
  <1>5. PICK i : i = [j EXCEPT !.found = found]
    OBVIOUS
  <1>6. PICK k : k = IF items = {} THEN Act(i, {}, outcome)
                     ELSE [i EXCEPT !.step = "verify", !.todo = items, !.outcome = outcome]
    OBVIOUS
  <1>7. j \in JobType /\ Fresh(j) /\ runs[j.run].status = "completed" /\ j.run \in 1..Len(runs)
        /\ j.step = "begin"
    BY <1>1 DEF IInv, TypeOK, JobsOK, JobOK, ReadResults, Fresh
  <1>8. j.run \in RunIds /\ Len(runs) \in Nat
    BY <1>7, RunsLength DEF IInv
  <1>9. k.step \in {"act", "verify"} /\ k.run = j.run /\ k.outcome = outcome
    <2>1. CASE items = {}
      BY <2>1, <1>5, <1>6, <1>7 DEF JobType, Act
    <2>2. CASE items # {}
      BY <2>2, <1>5, <1>6, <1>7 DEF JobType
    <2>3. QED
      BY <2>1, <2>2
  <1>10. CalledBy(k) = {} /\ CalledBy(j) = {}
    BY <1>4, <1>7, <1>9, ManualOutcomeType, FreshShows DEF CalledBy
  <1>11. Set(c, k) /\ Active(c) /\ UNCHANGED <<accepted, dbVars>>
    BY <1>1, <1>2, <1>3, <1>4, <1>5, <1>6 DEF ReadResults, Active, cpaVars
  <1>12. Holder = 0 /\ Holder' = j.run /\ Tried' = Tried
    <2>1. ~InCharge(j) /\ InCharge(k)
      BY <1>7, <1>9 DEF InCharge
    <2>2. QED
      BY <1>1, <1>9, <1>10, <1>11, <2>1, HolderView DEF TriedFor
  <1>13. StatusOf[j.run] = "completed"
    BY <1>7, <1>8 DEF StatusOf
  <1>14. QED
    BY <1>8, <1>11, <1>12, <1>13, SameRecord DEF Ledger!Open

LEMMA ListFailsRecord ==
    ASSUME IInv, NEW c \in Callers, ListFails(c)
    PROVE  \E r \in RunIds : Ledger!Fail(r)
  <1>1. PICK r : r = job[c].run
    OBVIOUS
  <1>2. InCharge(job[c]) /\ r \in 1..Len(runs) /\ runs[r].status = "running"
    BY <1>1 DEF IInv, JobsOK, JobOK, ListFails, InCharge, Owns
  <1>3. EndRun(c, "failed") /\ UNCHANGED <<accepted, results>>
    BY DEF ListFails, cpaVars
  <1>4. /\ r \in RunIds /\ Holder = r /\ StatusOf[r] = "running" /\ Ledger!Close
        /\ StatusOf' = [StatusOf EXCEPT ![r] = "failed"]
    BY <1>1, <1>2, <1>3, EndRecord
  <1>5. AdviceOf' = AdviceOf /\ SettledIn' = SettledIn /\ SuccessIn' = SuccessIn
    BY <1>3 DEF AdviceOf, SettledIn, SuccessIn
  <1>6. Ledger!AdviceGrows(r)
    BY <1>5 DEF Ledger!AdviceGrows
  <1>7. QED
    BY <1>4, <1>5, <1>6 DEF Ledger!Fail

\* New rows with what the probes found: advice grows, nothing is settled yet.
LEMMA FoundRecord ==
    ASSUME NEW r \in RunIds,
           results \in [RunIds -> [Accounts -> Row]], results' \in [RunIds -> [Accounts -> Row]],
           \A q \in RunIds \ {r} : results'[q] = results[q],
           \A a \in Accounts :
              /\ results[r][a].action # "none" => results'[r][a] = results[r][a]
              /\ results[r][a].action = "none" =>
                    results[r][a].status = "none"
                    /\ results'[r][a].status \notin {"success", "skipped", "needs_review"}
    PROVE  Ledger!AdviceGrows(r) /\ SettledIn' = SettledIn /\ SuccessIn' = SuccessIn
  <1>1. \A a \in Accounts :
           /\ results'[r][a].status \in Settled <=> results[r][a].status \in Settled
           /\ results'[r][a].status = "success" <=> results[r][a].status = "success"
    BY DEF Settled
  <1>2. \A q \in RunIds, a \in Accounts :
           /\ results'[q][a].status \in Settled <=> results[q][a].status \in Settled
           /\ results'[q][a].status = "success" <=> results[q][a].status = "success"
    BY <1>1
  <1>3. SettledIn' = SettledIn /\ SuccessIn' = SuccessIn
    BY <1>2 DEF SettledIn, SuccessIn
  <1>4. Ledger!AdviceGrows(r)
    BY DEF Ledger!AdviceGrows, Ledger!Advised, AdviceOf
  <1>5. QED
    BY <1>3, <1>4

LEMMA ProbeRecord ==
    ASSUME IInv, NEW c \in Callers, NEW a \in Accounts, Probe(c, a)
    PROVE  \E r \in RunIds : Ledger!Advise(r)
  <1>1. PICK j : j = job[c]
    OBVIOUS
  <1>2. PICK verdict \in VerdictsOf(c, a) :
          /\ Set(c, [j EXCEPT !.todo = @ \ {a}, !.found[a] = RowOf(verdict)])
          /\ results' = IF j.cancelled THEN results
                        ELSE [results EXCEPT ![j.run][a] = RowOf(verdict)]
    BY <1>1 DEF Probe
  <1>3. PICK row : row = RowOf(verdict)
    OBVIOUS
  <1>4. row \in Row /\ row.status \in {"none", "pending"}
    <2>1. verdict \in Actions
      BY <1>2, CodexInspectionAssumption DEF VerdictsOf, Actions, Executable
    <2>2. QED
      BY <1>3, <2>1, RowOfType
  <1>5. PICK k : k = [j EXCEPT !.todo = @ \ {a}, !.found[a] = RowOf(verdict)]
    OBVIOUS
  <1>6. j \in JobType /\ Probing(j) /\ j.step = "probe" /\ a \in j.todo
    BY <1>1 DEF IInv, TypeOK, JobsOK, JobOK, Probe
  <1>7. k.step = "probe" /\ k.run = j.run /\ k.outcome = j.outcome
    BY <1>5, <1>6 DEF JobType
  <1>8. Active(c) /\ Set(c, k) /\ runs' = runs /\ UNCHANGED accepted
    BY <1>1, <1>2, <1>5, <1>6 DEF Probe, Active, cpaVars
  <1>9. j.run \in RunIds /\ Len(runs) \in Nat /\ j.run \in 1..Len(runs)
    BY <1>6, RunsLength DEF Probing, Owns, IInv
  <1>10. Holder = j.run /\ Holder' = j.run /\ Tried' = Tried
    <2>1. InCharge(j) /\ InCharge(k) /\ CalledBy(k) = CalledBy(j)
      BY <1>6, <1>7 DEF InCharge, CalledBy
    <2>2. QED
      BY <1>1, <1>7, <1>8, <2>1, HolderView DEF TriedFor
  <1>11. StatusOf[j.run] = "running" /\ StatusOf' = StatusOf
    BY <1>6, <1>8, <1>9 DEF StatusOf, Probing, Owns
  <1>12. results \in [RunIds -> [Accounts -> Row]]
    BY DEF IInv, TypeOK
  <1>13. /\ results' \in [RunIds -> [Accounts -> Row]]
         /\ \A r \in RunIds \ {j.run} : results'[r] = results[r]
         /\ \A b \in Accounts :
               results'[j.run][b] =
                   IF b = a /\ ~j.cancelled THEN row ELSE results[j.run][b]
    <2>1. CASE j.cancelled
      BY <2>1, <1>2, <1>12
    <2>2. CASE ~j.cancelled
      <3>1. results' = [results EXCEPT ![j.run] = [results[j.run] EXCEPT ![a] = row]]
        BY <2>2, <1>2, <1>3
      <3>2. QED
        BY <2>2, <3>1, <1>4, <1>9, <1>12
    <2>3. QED
      BY <2>1, <2>2
  <1>14. \A b \in Accounts :
            /\ results[j.run][b].action # "none" => results'[j.run][b] = results[j.run][b]
            /\ results[j.run][b].action = "none" =>
                  results[j.run][b].status = "none"
                  /\ results'[j.run][b].status \notin {"success", "skipped", "needs_review"}
    BY <1>4, <1>6, <1>13 DEF Probing
  <1>15. Ledger!AdviceGrows(j.run) /\ SettledIn' = SettledIn /\ SuccessIn' = SuccessIn
    BY <1>9, <1>12, <1>13, <1>14, FoundRecord
  <1>16. QED
    BY <1>8, <1>9, <1>10, <1>11, <1>15 DEF Ledger!Advise

LEMMA ProbesCancelledRecord ==
    ASSUME IInv, NEW c \in Callers, ProbesCancelled(c)
    PROVE  \E r \in RunIds : Ledger!Fail(r)
  <1>1. PICK j : j = job[c]
    OBVIOUS
  <1>2. j \in JobType /\ Probing(j) /\ InCharge(j)
    BY <1>1 DEF IInv, TypeOK, JobsOK, JobOK, ProbesCancelled, InCharge
  <1>3. j.run \in 1..Len(runs) /\ runs[j.run].status = "running"
    BY <1>2 DEF Probing, Owns
  <1>4. EndRun(c, "failed") /\ UNCHANGED accepted
    BY DEF ProbesCancelled, cpaVars
  <1>5. /\ j.run \in RunIds /\ Holder = j.run /\ StatusOf[j.run] = "running" /\ Ledger!Close
        /\ StatusOf' = [StatusOf EXCEPT ![j.run] = "failed"]
    BY <1>1, <1>2, <1>3, <1>4, EndRecord
  <1>6. results \in [RunIds -> [Accounts -> Row]] /\ j.found \in [Accounts -> Row]
    BY <1>2 DEF IInv, TypeOK, JobType
  <1>7. results' = [results EXCEPT ![j.run] = j.found]
    BY <1>1 DEF ProbesCancelled
  <1>8. /\ results' \in [RunIds -> [Accounts -> Row]]
        /\ \A r \in RunIds \ {j.run} : results'[r] = results[r]
        /\ results'[j.run] = j.found
    BY <1>5, <1>6, <1>7
  <1>9. \A b \in Accounts :
            /\ results[j.run][b].action # "none" => results'[j.run][b] = results[j.run][b]
            /\ results[j.run][b].action = "none" =>
                  results[j.run][b].status = "none"
                  /\ results'[j.run][b].status \notin {"success", "skipped", "needs_review"}
    BY <1>2, <1>8 DEF Probing
  <1>10. Ledger!AdviceGrows(j.run) /\ SettledIn' = SettledIn /\ SuccessIn' = SuccessIn
    BY <1>5, <1>6, <1>8, <1>9, FoundRecord
  <1>11. QED
    BY <1>5, <1>10 DEF Ledger!Fail

\* Finish settles what was carried out or set aside, and unsettles nothing.
LEMMA FinishRecord ==
    ASSUME IInv, NEW c \in Callers, Finish(c)
    PROVE  \E r \in RunIds : Ledger!Record(r)
  <1>1. PICK j : j = job[c]
    OBVIOUS
  <1>2. PICK r : r = j.run
    OBVIOUS
  <1>3. /\ j \in JobType /\ Acting(j) /\ InCharge(j)
        /\ r \in 1..Len(runs) /\ r \in RunIds
        /\ results' \in [RunIds -> [Accounts -> Row]]
        /\ \A q \in RunIds \ {r} : results'[q] = results[q]
        /\ \A a \in Accounts :
              /\ results'[r][a].action = results[r][a].action
              /\ results'[r][a].status =
                    IF j.outcome[a] = "none" THEN results[r][a].status
                    ELSE IF j.outcome[a] = "refused" THEN "failed" ELSE j.outcome[a]
              /\ results'[r][a].status = "success" => a \in accepted[r]
    BY <1>1, <1>2, FinishType DEF Finish, InCharge
  <1>4. EndRun(c, "completed") /\ UNCHANGED accepted
    BY DEF Finish, cpaVars
  <1>5. /\ Holder = r /\ StatusOf[r] = runs[r].status /\ Ledger!Close
        /\ StatusOf' = [StatusOf EXCEPT ![r] = "completed"]
    BY <1>1, <1>2, <1>3, <1>4, EndRecord
  <1>6. StatusOf[r] \in {"running", "completed"}
    BY <1>2, <1>3, <1>5 DEF Acting, Working, Owns
  <1>7. AdviceOf' = AdviceOf
    <2>1. \A q \in RunIds, a \in Accounts : results'[q][a].action = results[q][a].action
      BY <1>3
    <2>2. QED
      BY <2>1 DEF AdviceOf
  <1>8. PICK s : s = {a \in Accounts : results'[r][a].status \in Settled}
    OBVIOUS
  <1>9. PICK done : done = {a \in Accounts : results'[r][a].status = "success"}
    OBVIOUS
  <1>10. s \in SUBSET Accounts /\ done \in SUBSET accepted[r] /\ done \subseteq s
    BY <1>3, <1>8, <1>9 DEF Settled
  <1>11. SettledIn[r] \subseteq s
    <2>1. j.found = results[r]
      BY <1>2, <1>3 DEF Acting, Working
    <2>2. \A a \in Accounts :
             results[r][a].status \in Settled => results'[r][a].status \in Settled
      <3> TAKE a \in Accounts
      <3>1. j.outcome[a] \in Outcomes
        BY <1>3 DEF JobType
      <3>2. j.outcome[a] \in {"success", "failed", "refused"} => results[r][a].status \notin Settled
        BY <1>3, <2>1 DEF Acting, Working
      <3>3. QED
        BY <1>3, <3>1, <3>2 DEF Outcomes, Settled
    <2>3. QED
      BY <1>3, <1>8, <2>2 DEF SettledIn
  <1>12. SettledIn' = [SettledIn EXCEPT ![r] = s]
    <2>1. \A q \in RunIds : SettledIn'[q] = IF q = r THEN s ELSE SettledIn[q]
      BY <1>3, <1>8 DEF SettledIn
    <2>2. QED
      BY <2>1 DEF SettledIn
  <1>13. SuccessIn' = [SuccessIn EXCEPT ![r] = done]
    <2>1. \A q \in RunIds : SuccessIn'[q] = IF q = r THEN done ELSE SuccessIn[q]
      BY <1>3, <1>9 DEF SuccessIn
    <2>2. QED
      BY <2>1 DEF SuccessIn
  <1>14. Ledger!Record(r)
    BY <1>5, <1>6, <1>7, <1>10, <1>11, <1>12, <1>13 DEF Ledger!Record
  <1>15. QED
    BY <1>3, <1>14

\* An answer, or none: the file is tried, whatever CPA did.
LEMMA AnswerRecord ==
    ASSUME IInv, NEW c \in Callers, NEW a \in Accounts, job[c].step = "act", a \in job[c].busy,
           NEW outcome \in {"success", "failed"}, Answer(c, a, outcome), UNCHANGED dbVars,
           accepted' \in {accepted, [accepted EXCEPT ![job[c].run] = @ \cup {a}]}
    PROVE  \E r \in RunIds : Ledger!Call(r, a)
  <1>1. PICK j : j = job[c]
    OBVIOUS
  <1>2. PICK k : k = Answered(j, a, outcome)
    OBVIOUS
  <1>3. j \in JobType /\ Acting(j) /\ j.step = "act" /\ a \in j.busy
    BY <1>1 DEF IInv, TypeOK, JobsOK, JobOK
  <1>4. AnswerOK(j, k, a, outcome)
    BY <1>2, <1>3, AnswerType
  <1>5. k.step = "act" /\ k.run = j.run /\ CalledBy(k) = CalledBy(j) \cup {a}
    BY <1>4 DEF AnswerOK
  <1>6. Active(c) /\ Set(c, k)
    BY <1>1, <1>2, <1>3 DEF Answer, Answered, Active
  <1>7. Working(j) /\ Callable(j, a) /\ j.outcome[a] = "none"
    BY <1>3 DEF Acting, Working
  <1>8. j.run \in RunIds /\ Len(runs) \in Nat /\ j.run \in 1..Len(runs)
    BY <1>7, RunsLength DEF Working, Owns, IInv
  <1>9. Holder = j.run /\ Holder' = j.run /\ Tried = TriedFor(j) /\ Tried' = TriedFor(k)
    <2>1. InCharge(j) /\ InCharge(k)
      BY <1>3, <1>5 DEF InCharge
    <2>2. QED
      BY <1>1, <1>5, <1>6, <2>1, HolderView
  <1>10. Tried' = Tried \cup {FileOf[a]}
    BY <1>5, <1>9 DEF TriedFor
  <1>11. FileOf[a] \notin Tried
    <2>1. \A b \in CalledBy(j) : FileOf[b] # FileOf[a]
      BY <1>3, <1>7 DEF Acting, OnePerFile, CalledBy
    <2>2. QED
      BY <1>9, <2>1 DEF TriedFor
  <1>12. StatusOf[j.run] \in {"running", "completed"}
    BY <1>7, <1>8 DEF StatusOf, Working, Owns
  <1>13. /\ AdviceOf[j.run][a] \in Executable /\ a \notin SettledIn[j.run]
         /\ Ledger!Agreed(j.run, a)
    <2>1. j.found = results[j.run]
      BY <1>7 DEF Working
    <2>2. \A b \in Accounts : AdviceOf[j.run][b] = j.found[b].action
      BY <1>8, <2>1 DEF AdviceOf
    <2>3. a \notin SettledIn[j.run]
      BY <1>7, <1>8, <2>1 DEF SettledIn, Callable
    <2>4. QED
      BY <1>7, <2>2, <2>3 DEF Callable, Ledger!Agreed
  <1>14. QED
    BY <1>1, <1>8, <1>9, <1>10, <1>11, <1>12, <1>13, SameRecord DEF Ledger!Call

LEMMA StepRecord ==
    ASSUME IInv, NEW c \in Callers, Step(c)
    PROVE  [Ledger!Next]_Ledger!ledgerVars
  <1>1. CASE AcquireRun(c) \/ Refuse(c)
    BY <1>1, FlagRecord
  <1>2. CASE Leave(c)
    BY <1>2, LeaveRecord
  <1>3. ASSUME NEW mode \in Modes, CreateRun(c, mode)
        PROVE  [Ledger!Next]_Ledger!ledgerVars
    BY <1>3, CreateRunRecord DEF Ledger!Next
  <1>4. CASE \/ List(c) \/ ProbesEnd(c) \/ Verify(c) \/ WorkerLeaves(c) \/ FeederLeaves(c)
             \/ \E a \in Accounts : Hand(c, a)
    BY <1>4, QuietRecord
  <1>5. CASE ListFails(c)
    BY <1>5, ListFailsRecord DEF Ledger!Next
  <1>6. ASSUME NEW a \in Accounts, Probe(c, a)
        PROVE  [Ledger!Next]_Ledger!ledgerVars
    BY <1>6, ProbeRecord DEF Ledger!Next
  <1>7. ASSUME NEW a \in Accounts, Call(c, a)
        PROVE  [Ledger!Next]_Ledger!ledgerVars
    <2>1. PICK outcome \in {"success", "failed"} : Answer(c, a, outcome)
      BY <1>7 DEF Call
    <2>2. \E r \in RunIds : Ledger!Call(r, a)
      BY <1>7, <2>1, AnswerRecord DEF Call
    <2>3. QED
      BY <2>2 DEF Ledger!Next
  <1>8. ASSUME NEW a \in Accounts, CallFails(c, a)
        PROVE  [Ledger!Next]_Ledger!ledgerVars
    <2>1. \E r \in RunIds : Ledger!Call(r, a)
      BY <1>8, AnswerRecord DEF CallFails, cpaVars
    <2>2. QED
      BY <2>1 DEF Ledger!Next
  <1>9. CASE ProbesCancelled(c)
    BY <1>9, ProbesCancelledRecord DEF Ledger!Next
  <1>10. ASSUME NEW picked, ReadResults(c, picked)
         PROVE  [Ledger!Next]_Ledger!ledgerVars
    BY <1>10, ReadResultsRecord DEF Ledger!Next
  <1>11. CASE Finish(c)
    BY <1>11, FinishRecord DEF Ledger!Next
  <1>12. QED
    BY <1>1, <1>2, <1>3, <1>4, <1>5, <1>6, <1>7, <1>8, <1>9, <1>10, <1>11 DEF Step

LEMMA NextRecord == IInv /\ [Next]_vars => [Ledger!Next]_Ledger!ledgerVars
  <1> SUFFICES ASSUME IInv, [Next]_vars
               PROVE  [Ledger!Next]_Ledger!ledgerVars
    OBVIOUS
  <1>1. ASSUME NEW c \in Callers, Step(c)
        PROVE  [Ledger!Next]_Ledger!ledgerVars
    BY <1>1, StepRecord
  <1>2. ASSUME NEW c \in Callers, Ask(c)
        PROVE  [Ledger!Next]_Ledger!ledgerVars
    BY <1>2, AskRecord
  <1>3. CASE Restart
    BY <1>3, RestartRecord
  <1>4. ASSUME UNCHANGED <<accepted, job, dbVars>>
        PROVE  UNCHANGED Ledger!ledgerVars
    <2>1. Holder' = Holder /\ Tried' = Tried
      BY <1>4, ShownBy
    <2>2. QED
      BY <1>4, <2>1, SameRecord DEF Ledger!ledgerVars
  <1>5. CASE Other \/ UNCHANGED vars
    BY <1>4, <1>5 DEF Other, Upload, Switch, vars, cpaVars, dbVars
  <1>6. QED
    BY <1>1, <1>2, <1>3, <1>5 DEF Next

LEMMA InitRecord == Init => Ledger!Init
  <1> SUFFICES ASSUME Init
               PROVE  Ledger!Init
    OBVIOUS
  <1>1. \A c \in Callers : ~InCharge(job[c]) /\ CalledBy(job[c]) = {}
    BY IdleType, FreshShows DEF Init, InCharge
  <1>2. Holder = 0 /\ Tried = {}
    BY <1>1, NobodyShows, ShownBy
  <1>3. \A r \in RunIds : r \in Nat /\ r > 0
    BY CodexInspectionAssumption DEF RunIds
  <1>4. runs = <<>> /\ Len(runs) = 0
    BY DEF Init
  <1>5. StatusOf = [r \in RunIds |-> "none"]
    BY <1>3, <1>4 DEF StatusOf
  <1>6. \A r \in RunIds, a \in Accounts : results[r][a] = NoRow
    BY DEF Init, NoResults
  <1>7. AdviceOf = [r \in RunIds |-> [a \in Accounts |-> "none"]]
    BY <1>6 DEF AdviceOf, NoRow
  <1>8. \A r \in RunIds :
           /\ {a \in Accounts : results[r][a].status \in Settled} = {}
           /\ {a \in Accounts : results[r][a].status = "success"} = {}
    BY <1>6 DEF NoRow, Settled
  <1>9. SettledIn = Ledger!Nobody /\ SuccessIn = Ledger!Nobody
    BY <1>8 DEF SettledIn, SuccessIn, Ledger!Nobody
  <1>10. QED
    BY <1>2, <1>5, <1>7, <1>9 DEF Init, Ledger!Init, Ledger!Nobody

\* Whatever overlaps, fails, is cancelled or is asked again, Run and
\* ExecuteManualActions keep the promises of RunLedger.
THEOREM RunsKeepTheLedger == Spec => ImplementsLedger
  <1>1. Init => Ledger!Init
    BY InitRecord
  <1>2. IInv /\ [Next]_vars => [Ledger!Next]_Ledger!ledgerVars
    BY NextRecord
  <1>3. QED
    BY <1>1, <1>2, InitInv, NextInv, PTL DEF Spec, ImplementsLedger, Ledger!Spec
=============================================================================
