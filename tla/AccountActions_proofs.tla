------------------------ MODULE AccountActions_proofs ------------------------
(***************************************************************************)
(* Theorems about AccountActions, for every value of its constants.        *)
(***************************************************************************)
EXTENDS AccountActions, SequenceTheorems, TLAPS

(***************************************************************************)
(* The inductive invariant.  A row that was read goes on existing with its *)
(* issue; a file that was verified still is for the account unless it was  *)
(* uploaded again; a file that was deleted is gone although it may have    *)
(* been uploaded again.                                                    *)
(***************************************************************************)

Backed(item) ==
    /\ item.id \in DOMAIN candidates
    /\ candidates[item.id].issue = item.issue

Checked(item) ==
    /\ item.seen <= uploads[item.issue.file]
    /\ HitsTheAccount(item)

Gone(item) ==
    /\ item.seen <= uploads[item.issue.file]
    /\ ~StillThere(item)

\* What is known of a candidate whose file the worker may disable ...
WorkFine(w) ==
    w # NoWork =>
        /\ Backed(w.item)
        /\ Eligible(w.item.issue.type)
        /\ w.step = "disable" => Checked(w.item)

\* ... and of a request under way.
RequestFine(r) ==
    r # NoWork =>
        /\ Backed(r.item)
        /\ r.step = "call" => Checked(r.item)
        /\ r.step = "mark" /\ r.op = "delete" => Gone(r.item)

WorkOK == WorkFine(work)
RequestOK == \A a \in Admins : RequestFine(request[a])

IInv == TypeOK /\ OnePendingPerIssue /\ WorkOK /\ RequestOK /\ DisableOnRecord

(***************************************************************************)
(* What a step does to the table and to CPA's files.                       *)
(***************************************************************************)

\* Rows are neither deleted nor given another issue, and a decision is final.
RowsEvolve ==
    /\ candidates' \in Seq(Row) /\ Len(candidates') <= MaxRows
    /\ DOMAIN candidates \subseteq DOMAIN candidates'
    /\ \A i \in DOMAIN candidates :
          /\ candidates'[i].issue = candidates[i].issue
          /\ candidates[i].status # "pending" => candidates'[i].status = candidates[i].status
    /\ OnePendingPerIssue'

\* A file comes back, or changes hands, only by being uploaded.
FilesEvolve ==
    /\ files' \in [Files -> File]
    /\ uploads' \in [Files -> 0..MaxUploads]
    /\ \A f \in Files :
          /\ uploads'[f] >= uploads[f]
          /\ uploads'[f] = uploads[f] =>
                /\ files'[f].present => files[f].present
                /\ files'[f].account = files[f].account

LEMMA RowTypes ==
    ASSUME TypeOK
    PROVE  /\ Len(candidates) \in Nat /\ DOMAIN candidates = 1..Len(candidates)
           /\ \A i \in DOMAIN candidates : candidates[i] \in Row
BY LenProperties, ElementOfSeq DEF TypeOK

LEMMA RowsUnchanged ==
    ASSUME TypeOK, OnePendingPerIssue, UNCHANGED candidates
    PROVE  RowsEvolve
BY DEF RowsEvolve, TypeOK, OnePendingPerIssue

LEMMA FilesUnchanged ==
    ASSUME TypeOK, UNCHANGED <<files, uploads>>
    PROVE  FilesEvolve
BY DEF FilesEvolve, TypeOK

\* An issue is reported: Upsert finds its pending row or adds one.
LEMMA UpsertEffect ==
    ASSUME TypeOK, OnePendingPerIssue, NEW job \in Job, NEW id \in 1..MaxRows,
           Upsert(job, id)
    PROVE  /\ RowsEvolve
           /\ id \in DOMAIN candidates' /\ candidates'[id] \in Row
           /\ candidates'[id].issue = job.issue
<1> DEFINE n == Len(candidates)
<1>1. n \in Nat /\ DOMAIN candidates = 1..n /\ \A i \in 1..n : candidates[i] \in Row
  BY RowTypes
<1>2. n <= MaxRows /\ MaxRows \in Nat  BY IssueConstantsOK DEF TypeOK
<1>3. CASE id \in PendingOf(job.issue)
           /\ candidates' = [candidates EXCEPT ![id].snapshot = job.snapshot]
  <2> DEFINE row == [candidates[id] EXCEPT !.snapshot = job.snapshot]
  <2>1. id \in 1..n /\ candidates[id].issue = job.issue  BY <1>1, <1>3 DEF PendingOf
  <2>2. row \in Row /\ row.issue = job.issue /\ row.status = candidates[id].status
    BY <1>1, <2>1 DEF Row, Job
  <2>3. candidates' = [candidates EXCEPT ![id] = row]  BY <1>3
  <2> HIDE DEF row
  <2>4. /\ candidates' \in Seq(Row) /\ Len(candidates') = n
        /\ \A j \in 1..n : candidates'[j] = IF j = id THEN row ELSE candidates[j]
    BY <2>1, <2>2, <2>3, ExceptSeq DEF TypeOK
  <2>5. DOMAIN candidates' = 1..n  BY <2>4, LenProperties
  <2>6. \A j \in 1..n : /\ candidates'[j].issue = candidates[j].issue
                        /\ candidates'[j].status = candidates[j].status
    BY <2>1, <2>2, <2>4
  <2>7. OnePendingPerIssue'  BY <1>1, <2>5, <2>6 DEF OnePendingPerIssue
  <2> QED BY <1>1, <1>2, <2>1, <2>2, <2>4, <2>5, <2>6, <2>7 DEF RowsEvolve
<1>4. CASE PendingOf(job.issue) = {} /\ id = n + 1
           /\ candidates' = Append(candidates, NewRow(job))
  <2> DEFINE row == NewRow(job)
  <2>1. row \in Row /\ row.issue = job.issue  BY DEF NewRow, Row, Job, Status
  <2>2. candidates' = Append(candidates, row)  BY <1>4
  <2> HIDE DEF row
  <2>3. /\ candidates' \in Seq(Row) /\ Len(candidates') = n + 1
        /\ \A j \in 1..n : candidates'[j] = candidates[j]
        /\ candidates'[n + 1] = row
    BY <2>1, <2>2, AppendProperties DEF TypeOK
  <2>4. DOMAIN candidates' = 1..(n + 1)  BY <2>3, LenProperties
  <2>5. \A j \in 1..n : candidates[j].issue = job.issue => candidates[j].status # "pending"
    BY <1>1, <1>4 DEF PendingOf
  <2>6. OnePendingPerIssue'
    BY <1>1, <2>1, <2>3, <2>4, <2>5 DEF OnePendingPerIssue
  <2> QED BY <1>1, <1>2, <1>4, <2>1, <2>3, <2>4, <2>6 DEF RowsEvolve
<1> QED BY <1>3, <1>4 DEF Upsert

\* A decision closes a pending row and leaves every other row alone.
LEMMA DecisionEffect ==
    ASSUME TypeOK, OnePendingPerIssue, NEW id \in DOMAIN candidates,
           NEW s \in Decisions, UpdatePendingStatus(id, s)
    PROVE  RowsEvolve
<1> DEFINE n == Len(candidates)
<1>1. n \in Nat /\ DOMAIN candidates = 1..n /\ \A i \in 1..n : candidates[i] \in Row
  BY RowTypes
<1>2. CASE UNCHANGED candidates  BY <1>2, RowsUnchanged
<1>3. CASE candidates[id].status = "pending"
           /\ candidates' = [candidates EXCEPT ![id].status = s]
  <2> DEFINE row == [candidates[id] EXCEPT !.status = s]
  <2>1. row \in Row /\ row.issue = candidates[id].issue /\ row.status # "pending"
    BY <1>1 DEF Row, Status, Decisions
  <2>2. candidates' = [candidates EXCEPT ![id] = row]  BY <1>3
  <2> HIDE DEF row
  <2>3. /\ candidates' \in Seq(Row) /\ Len(candidates') = n
        /\ \A j \in 1..n : candidates'[j] = IF j = id THEN row ELSE candidates[j]
    BY <1>1, <2>1, <2>2, ExceptSeq DEF TypeOK
  <2>4. DOMAIN candidates' = 1..n  BY <2>3, LenProperties
  <2>5. OnePendingPerIssue'
    BY <1>1, <2>1, <2>3, <2>4 DEF OnePendingPerIssue
  <2> QED BY <1>1, <1>3, <2>1, <2>3, <2>4, <2>5 DEF RowsEvolve, TypeOK
<1> QED BY <1>2, <1>3 DEF UpdatePendingStatus

\* What was established about an item lasts while rows and files evolve.
LEMMA ItemsKept ==
    ASSUME TypeOK, RowsEvolve, FilesEvolve, NEW item \in Held
    PROVE  /\ Backed(item) => Backed(item)'
           /\ Checked(item) => Checked(item)'
           /\ Gone(item) => Gone(item)'
<1> DEFINE f == item.issue.file
<1>1. f \in Files /\ item.seen \in Nat  BY IssueConstantsOK DEF Held, Issue
<1>2. uploads[f] \in Nat /\ uploads'[f] \in Nat
  BY <1>1, IssueConstantsOK DEF TypeOK, FilesEvolve
<1>3. Backed(item) => Backed(item)'  BY DEF Backed, RowsEvolve
<1>4. item.seen <= uploads[f] => item.seen <= uploads'[f]
  BY <1>1, <1>2 DEF FilesEvolve
<1>5. item.seen <= uploads[f] /\ StillThere(item)' =>
        StillThere(item) /\ files'[f].account = files[f].account
  BY <1>1, <1>2 DEF FilesEvolve, StillThere
<1>6. Checked(item) => Checked(item)'
  BY <1>4, <1>5 DEF Checked, HitsTheAccount, StillThere
<1>7. Gone(item) => Gone(item)'  BY <1>4, <1>5 DEF Gone
<1> QED BY <1>3, <1>6, <1>7

LEMMA WorkKept ==
    ASSUME TypeOK, WorkOK, RowsEvolve, FilesEvolve, UNCHANGED work
    PROVE  WorkOK'
<1>1. CASE work = NoWork  BY <1>1 DEF WorkOK, WorkFine
<1>2. CASE work # NoWork
  <2>1. work.item \in Held  BY <1>2 DEF TypeOK, Work
  <2> QED BY <1>2, <2>1, ItemsKept DEF WorkOK, WorkFine
<1> QED BY <1>1, <1>2

LEMMA RequestKept ==
    ASSUME TypeOK, RequestOK, RowsEvolve, FilesEvolve, NEW a \in Admins,
           request'[a] = request[a]
    PROVE  RequestFine(request[a])'
<1>1. CASE request[a] = NoWork  BY <1>1 DEF RequestFine
<1>2. CASE request[a] # NoWork
  <2>1. request[a].item \in Held  BY <1>2 DEF TypeOK, Request
  <2> QED BY <1>2, <2>1, ItemsKept DEF RequestOK, RequestFine
<1> QED BY <1>1, <1>2

LEMMA RequestsKept ==
    ASSUME TypeOK, RequestOK, RowsEvolve, FilesEvolve, UNCHANGED request
    PROVE  RequestOK'
BY RequestKept DEF RequestOK

LEMMA RecordKept ==
    ASSUME TypeOK, DisableOnRecord, RowsEvolve, autoDisabled' \subseteq autoDisabled
    PROVE  DisableOnRecord'
BY DEF DisableOnRecord, RowsEvolve

LEMMA HeldTypes ==
    /\ \A id \in Nat \ {0}, row \in Row : HeldRow(id, row) \in Held
    /\ TypeOK => \A item \in Held : Looked(item) \in Held
<1>1. 0 \in 0..MaxUploads  BY IssueConstantsOK
<1>2. \A id \in Nat \ {0}, row \in Row : HeldRow(id, row) \in Held
  BY <1>1 DEF HeldRow, Held, Row
<1>3. ASSUME TypeOK, NEW item \in Held PROVE Looked(item) \in Held
  <2>1. uploads[item.issue.file] \in 0..MaxUploads  BY <1>3 DEF TypeOK, Held, Issue
  <2> QED BY <2>1 DEF Looked, Held
<1> QED BY <1>2, <1>3

\* A file that was just verified.
LEMMA VerifiedIsChecked ==
    ASSUME TypeOK, NEW item \in Held, NEW new \in Held, new = Looked(item),
           VerifyIdentity(item), UNCHANGED <<files, uploads>>
    PROVE  /\ Checked(new)'
           /\ new.id = item.id /\ new.issue = item.issue
<1> DEFINE f == item.issue.file
<1>1. f \in Files  BY DEF Held, Issue
<1>2. uploads[f] \in Nat  BY <1>1, IssueConstantsOK DEF TypeOK
<1>3. /\ new.id = item.id /\ new.issue = item.issue
      /\ new.seen = uploads[f] /\ new.snapshot = item.snapshot
  BY DEF Looked, Held
<1>4. new.seen <= uploads'[new.issue.file]  BY <1>2, <1>3
<1>5. HitsTheAccount(new)'  BY <1>3 DEF HitsTheAccount, VerifyIdentity
<1> QED BY <1>3, <1>4, <1>5 DEF Checked

LEMMA PatchEffect ==
    ASSUME TypeOK, NEW f \in Files, NEW b \in BOOLEAN, PatchDisabled(f, b)
    PROVE  FilesEvolve
<1> DEFINE new == [files[f] EXCEPT !.disabled = b]
<1>1. files[f] \in File  BY DEF TypeOK
<1>2. new \in File /\ new.present = files[f].present /\ new.account = files[f].account
  BY <1>1 DEF File
<1>3. files' = [files EXCEPT ![f] = new] /\ uploads' = uploads  BY DEF PatchDisabled
<1> HIDE DEF new
<1>4. \A g \in Files : uploads[g] \in Nat  BY IssueConstantsOK DEF TypeOK
<1> QED BY <1>2, <1>3, <1>4 DEF FilesEvolve, TypeOK

LEMMA DeleteEffect ==
    ASSUME TypeOK, NEW f \in Files, Delete(f)
    PROVE  FilesEvolve /\ ~files'[f].present /\ uploads' = uploads
<1> DEFINE new == [files[f] EXCEPT !.present = FALSE, !.disabled = FALSE]
<1>1. files[f] \in File  BY DEF TypeOK
<1>2. new \in File /\ new.present = FALSE /\ new.account = files[f].account
  BY <1>1 DEF File
<1>3. files' = [files EXCEPT ![f] = new] /\ uploads' = uploads  BY DEF Delete
<1> HIDE DEF new
<1>4. \A g \in Files : uploads[g] \in Nat  BY IssueConstantsOK DEF TypeOK
<1> QED BY <1>2, <1>3, <1>4 DEF FilesEvolve, TypeOK

LEMMA UploadEffect ==
    ASSUME TypeOK, NEW f \in Files, NEW account \in Accounts, OperatorUpload(f, account)
    PROVE  FilesEvolve
<1> DEFINE new == [present |-> TRUE, account |-> account, disabled |-> FALSE]
<1>1. new \in File  BY DEF File
<1>2. /\ files' = [files EXCEPT ![f] = new]
      /\ uploads' = [uploads EXCEPT ![f] = uploads[f] + 1]
      /\ uploads[f] < MaxUploads
  BY DEF OperatorUpload
<1> HIDE DEF new
<1>3. \A g \in Files : uploads[g] \in 0..MaxUploads /\ uploads[g] \in Nat
  BY IssueConstantsOK DEF TypeOK
<1>4. uploads[f] + 1 \in 0..MaxUploads  BY <1>2, <1>3, IssueConstantsOK
<1> QED BY <1>1, <1>2, <1>3, <1>4 DEF FilesEvolve, TypeOK

(***************************************************************************)
(* One lemma per group of actions.                                         *)
(***************************************************************************)

StepOK ==
    /\ TypeOK' /\ RowsEvolve /\ FilesEvolve
    /\ WorkOK' /\ RequestOK' /\ DisableOnRecord'

\* The events, and the worker's run loop.
LEMMA WorkerStep ==
    ASSUME IInv,
           \/ \E f \in Files, type \in Types, a \in Accounts : HandleUsageEvents(f, type, a)
           \/ \E enabled \in BOOLEAN : SetAutoDisable(enabled)
           \/ RunLoop
    PROVE  StepOK
<1>0. TypeOK /\ OnePendingPerIssue /\ WorkOK /\ RequestOK /\ DisableOnRecord
  BY DEF IInv
<1>1. UNCHANGED <<request>>
  BY DEF HandleUsageEvents, SetAutoDisable, RunLoop, HandleCandidate,
         HandleCandidateFails, FetchBeforeDisable, Disable
<1>2. CASE \E f \in Files, type \in Types, a \in Accounts : HandleUsageEvents(f, type, a)
  <2>1. PICK f \in Files, type \in Types, a \in Accounts : HandleUsageEvents(f, type, a)
    BY <1>2
  <2>2. PICK account \in {a, NoAccount}, snapshot \in {a} \cup Labels :
          Enqueue([issue |-> [file |-> f, type |-> type, account |-> account],
                   snapshot |-> snapshot])
    BY <2>1 DEF HandleUsageEvents
  <2> DEFINE job == [issue |-> [file |-> f, type |-> type, account |-> account],
                     snapshot |-> snapshot]
  <2>3. job \in Job  BY DEF Job, Issue, Snapshot
  <2>4. Enqueue(job)  BY <2>2
  <2> HIDE DEF job
  <2>5. jobs' \in Seq(Job) /\ Len(jobs') <= QueueSize
    <3>1. Len(jobs) \in Nat  BY <1>0, LenProperties DEF TypeOK
    <3> QED BY <1>0, <2>3, <2>4, <3>1, AppendProperties, IssueConstantsOK DEF Enqueue, TypeOK
  <2>6. UNCHANGED <<files, uploads, autoDisabled, candidates, autoDisable, work, request>>
    BY <2>1 DEF HandleUsageEvents, cpaVars
  <2>7. TypeOK'  BY <1>0, <2>5, <2>6 DEF TypeOK
  <2> QED BY <1>0, <2>6, <2>7, RowsUnchanged, FilesUnchanged, WorkKept, RequestsKept,
             RecordKept DEF StepOK
<1>3. CASE \E enabled \in BOOLEAN : SetAutoDisable(enabled)
  <2>1. UNCHANGED <<files, uploads, autoDisabled, candidates, jobs, work, request>>
        /\ autoDisable' \in BOOLEAN
    BY <1>3 DEF SetAutoDisable, cpaVars
  <2>2. TypeOK'  BY <1>0, <2>1 DEF TypeOK
  <2> QED BY <1>0, <2>1, <2>2, RowsUnchanged, FilesUnchanged, WorkKept, RequestsKept,
             RecordKept DEF StepOK
<1>4. CASE HandleCandidate \/ HandleCandidateFails
  <2>1. /\ jobs # <<>> /\ jobs' = Tail(jobs)
        /\ UNCHANGED <<files, uploads, autoDisabled, autoDisable, request>>
    BY <1>4 DEF HandleCandidate, HandleCandidateFails, cpaVars
  <2>2. /\ Head(jobs) \in Job
        /\ jobs' \in Seq(Job) /\ Len(jobs') <= QueueSize
    <3>1. Len(jobs) \in Nat  BY <1>0, LenProperties DEF TypeOK
    <3> QED BY <1>0, <2>1, <3>1, HeadTailProperties, IssueConstantsOK DEF TypeOK
  <2>3. FilesEvolve  BY <1>0, <2>1, FilesUnchanged
  <2>4. ASSUME RowsEvolve, work' \in Work \cup {NoWork}, WorkOK' PROVE StepOK
    <3>1. TypeOK'  BY <1>0, <2>1, <2>2, <2>4 DEF TypeOK, RowsEvolve
    <3> QED BY <1>0, <2>1, <2>3, <2>4, <3>1, RequestsKept, RecordKept DEF StepOK
  <2>5. CASE HandleCandidateFails
    <3>1. RowsEvolve
      BY <1>0, <2>2, <2>5, RowsUnchanged, UpsertEffect DEF HandleCandidateFails
    <3>2. UNCHANGED work  BY <2>5 DEF HandleCandidateFails
    <3> QED BY <1>0, <2>3, <2>4, <3>1, <3>2, WorkKept DEF TypeOK
  <2>6. CASE HandleCandidate
    <3>1. PICK id \in 1..MaxRows :
            /\ Upsert(Head(jobs), id)
            /\ work' = IF autoDisable /\ Eligible(Head(jobs).issue.type)
                       THEN [step |-> "fetch", item |-> HeldRow(id, candidates'[id])]
                       ELSE NoWork
      BY <2>6 DEF HandleCandidate
    <3>2. /\ RowsEvolve
          /\ id \in DOMAIN candidates' /\ candidates'[id] \in Row
          /\ candidates'[id].issue = Head(jobs).issue
      BY <1>0, <2>2, <3>1, UpsertEffect
    <3>3. CASE work' = NoWork  BY <2>4, <3>2, <3>3 DEF WorkOK, WorkFine
    <3>4. CASE /\ Eligible(Head(jobs).issue.type)
               /\ work' = [step |-> "fetch", item |-> HeldRow(id, candidates'[id])]
      <4>1. id \in Nat \ {0}  BY IssueConstantsOK
      <4>2. PICK item \in Held : item = HeldRow(id, candidates'[id])
        BY <3>2, <4>1, HeldTypes
      <4>3. item.id = id /\ item.issue = candidates'[id].issue  BY <4>2 DEF HeldRow
      <4>4. work' = [step |-> "fetch", item |-> item]  BY <3>4, <4>2
      <4>5. work' \in Work  BY <4>4 DEF Work
      <4>6. Backed(item)'  BY <3>2, <4>3 DEF Backed
      <4>7. work'.item = item /\ work'.step = "fetch"  BY <4>4
      <4>8. Backed(work.item)' /\ Eligible(work'.item.issue.type)
        BY <3>2, <3>4, <4>3, <4>6, <4>7 DEF Backed
      <4>9. WorkOK'  BY <4>7, <4>8 DEF WorkOK, WorkFine
      <4> QED BY <2>4, <3>2, <4>5, <4>9
    <3> QED BY <3>1, <3>3, <3>4
  <2> QED BY <1>4, <2>5, <2>6
<1>5. CASE FetchBeforeDisable
  <2>1. UNCHANGED <<files, uploads, autoDisabled, candidates, autoDisable, jobs, request>>
    BY <1>5 DEF FetchBeforeDisable, cpaVars
  <2>2. RowsEvolve /\ FilesEvolve  BY <1>0, <2>1, RowsUnchanged, FilesUnchanged
  <2>3. work \in Work /\ work # NoWork /\ work.item \in Held
    BY <1>0, <1>5 DEF FetchBeforeDisable, TypeOK, Work, NoWork
  <2>4. ASSUME work' \in Work \cup {NoWork}, WorkOK' PROVE StepOK
    <3>1. TypeOK'  BY <1>0, <2>1, <2>4 DEF TypeOK
    <3> QED BY <1>0, <2>1, <2>2, <2>4, <3>1, RequestsKept, RecordKept DEF StepOK
  <2>5. CASE work' = NoWork  BY <2>4, <2>5 DEF WorkOK, WorkFine
  <2>6. CASE VerifyIdentity(work.item)
             /\ work' = [step |-> "disable", item |-> Looked(work.item)]
    <3>1. PICK old \in Held : old = work.item  BY <2>3
    <3>2. PICK item \in Held : item = Looked(old)  BY <1>0, HeldTypes
    <3>3. Checked(item)' /\ item.id = old.id /\ item.issue = old.issue
      BY <1>0, <2>1, <2>6, <3>1, <3>2, VerifiedIsChecked
    <3>4. Backed(old) /\ Eligible(old.issue.type)
      BY <1>0, <2>3, <3>1 DEF WorkOK, WorkFine
    <3>5. Backed(item)' /\ Eligible(item.issue.type)
      BY <2>1, <3>3, <3>4 DEF Backed
    <3>6. work' = [step |-> "disable", item |-> item]  BY <2>6, <3>1, <3>2
    <3>7. work' \in Work  BY <3>6 DEF Work
    <3>8. work'.item = item  BY <3>6
    <3>9. Backed(work.item)' /\ Checked(work.item)'
      BY <3>3, <3>5, <3>8 DEF Backed, Checked, HitsTheAccount, StillThere
    <3>10. WorkOK'  BY <3>5, <3>8, <3>9 DEF WorkOK, WorkFine
    <3> QED BY <2>4, <3>7, <3>10
  <2> QED BY <1>5, <2>5, <2>6 DEF FetchBeforeDisable
<1>6. CASE Disable
  <2> DEFINE f == work.item.issue.file
  <2>1. UNCHANGED <<candidates, autoDisable, jobs, request>> /\ work' = NoWork
    BY <1>6 DEF Disable
  <2>2. work \in Work /\ work # NoWork /\ work.item \in Held
    BY <1>0, <1>6 DEF Disable, TypeOK, Work, NoWork
  <2>3. f \in Files  BY <2>2 DEF Held, Issue
  <2>4. RowsEvolve  BY <1>0, <2>1, RowsUnchanged
  <2>5. FilesEvolve
    <3>1. CASE PatchDisabled(f, TRUE)  BY <1>0, <2>3, <3>1, PatchEffect
    <3>2. CASE CallFails(f)  BY <1>0, <3>2, FilesUnchanged DEF CallFails, cpaVars
    <3> QED BY <1>6, <3>1, <3>2 DEF Disable
  <2>6. autoDisabled' \subseteq autoDisabled \cup {f}
    BY <1>6 DEF Disable, CallFails, cpaVars
  <2>7. TypeOK'  BY <1>0, <2>1, <2>3, <2>5, <2>6 DEF TypeOK, FilesEvolve
  <2>8. WorkOK'  BY <2>1 DEF WorkOK, WorkFine
  <2>9. DisableOnRecord'
    <3>1. /\ work.item.id \in DOMAIN candidates
          /\ candidates[work.item.id].issue = work.item.issue
          /\ Eligible(work.item.issue.type)
      BY <1>0, <2>2 DEF WorkOK, WorkFine, Backed
    <3> QED BY <1>0, <2>1, <2>6, <3>1 DEF DisableOnRecord
  <2> QED BY <1>0, <2>1, <2>4, <2>5, <2>7, <2>8, <2>9, RequestsKept DEF StepOK
<1> QED BY <1>2, <1>3, <1>4, <1>5, <1>6 DEF RunLoop

\* What the service does for the admins.
LEMMA AdminStep ==
    ASSUME IInv,
           \/ \E id \in DOMAIN candidates, status \in {"ignored", "resolved"} :
                 Decide(id, status)
           \/ \E a \in Admins : Admin(a)
    PROVE  StepOK
<1>0. TypeOK /\ OnePendingPerIssue /\ WorkOK /\ RequestOK /\ DisableOnRecord
  BY DEF IInv
<1>1. UNCHANGED <<autoDisable, jobs, work>>
  BY DEF Decide, Admin, Begin, Verify, Call, Mark, workerVars
\* It suffices to look at the request that takes the step.
<1>2. ASSUME RowsEvolve, FilesEvolve, autoDisabled' \subseteq autoDisabled,
             NEW a \in Admins, NEW r \in Request \cup {NoWork},
             request' = [request EXCEPT ![a] = r], RequestFine(r)'
      PROVE  StepOK
  <2>1. request' \in [Admins -> Request \cup {NoWork}]  BY <1>0, <1>2 DEF TypeOK
  <2>2. TypeOK'  BY <1>0, <1>1, <1>2, <2>1 DEF TypeOK, RowsEvolve, FilesEvolve
  <2>3. request'[a] = r  BY <1>0, <1>2 DEF TypeOK
  <2>4. RequestFine(request[a])'
    BY <1>2, <2>3 DEF RequestFine, Backed, Checked, Gone, HitsTheAccount, StillThere
  <2>5. \A b \in Admins \ {a} : RequestFine(request[b])'
    <3>1. TAKE b \in Admins \ {a}
    <3>2. request'[b] = request[b]  BY <1>0, <1>2 DEF TypeOK
    <3> QED BY <1>0, <1>2, <3>2, RequestKept
  <2>6. RequestOK'  BY <2>4, <2>5 DEF RequestOK
  <2> QED BY <1>0, <1>1, <1>2, <2>2, <2>6, WorkKept, RecordKept DEF StepOK
<1>3. ASSUME RowsEvolve, FilesEvolve, autoDisabled' \subseteq autoDisabled,
             NEW a \in Admins, Answer(a)
      PROVE  StepOK
  BY <1>2, <1>3 DEF Answer, RequestFine
<1>4. CASE \E id \in DOMAIN candidates, status \in {"ignored", "resolved"} :
              Decide(id, status)
  <2>1. RowsEvolve  BY <1>0, <1>4, DecisionEffect DEF Decide, Decisions
  <2>2. UNCHANGED <<files, uploads, autoDisabled, request>>  BY <1>4 DEF Decide, cpaVars
  <2>3. TypeOK'  BY <1>0, <1>1, <2>1, <2>2 DEF TypeOK, RowsEvolve
  <2> QED BY <1>0, <1>1, <2>1, <2>2, <2>3, FilesUnchanged, WorkKept, RequestsKept,
             RecordKept DEF StepOK
<1>5. ASSUME NEW a \in Admins, NEW id \in DOMAIN candidates,
             NEW op \in {"enable", "delete"}, Begin(a, id, op)
      PROVE  StepOK
  <2>1. UNCHANGED <<files, uploads, autoDisabled, candidates>>  BY <1>5 DEF Begin, cpaVars
  <2>2. candidates[id] \in Row /\ id \in Nat \ {0}  BY <1>0, RowTypes
  <2>3. PICK item \in Held : item = HeldRow(id, candidates[id])  BY <2>2, HeldTypes
  <2>4. PICK r \in Request : r = [step |-> "fetch", op |-> op, item |-> item]
    BY DEF Request
  <2>5. request' = [request EXCEPT ![a] = r]  BY <1>5, <2>3, <2>4 DEF Begin
  <2>6. item.id = id /\ item.issue = candidates[id].issue  BY <2>3 DEF HeldRow
  <2>7. r.item = item /\ r.step = "fetch"  BY <2>4
  <2>8. RequestFine(r)'  BY <2>1, <2>6, <2>7 DEF RequestFine, Backed
  <2> QED BY <1>0, <1>2, <2>1, <2>5, <2>8, RowsUnchanged, FilesUnchanged
<1>6. ASSUME NEW a \in Admins, Verify(a) \/ Call(a) \/ Mark(a)
      PROVE  StepOK
  <2>0. /\ request[a] \in Request /\ request[a] # NoWork /\ request[a].item \in Held
        /\ RequestFine(request[a])
    BY <1>0, <1>6 DEF Verify, Call, Mark, TypeOK, Request, NoWork, RequestOK
  <2>1. PICK old \in Held : old = request[a].item  BY <2>0
  <2>2. Backed(old)  BY <2>0, <2>1 DEF RequestFine
  <2>3. old.issue.file \in Files  BY DEF Held, Issue
  <2>4. CASE Verify(a)
    <3>1. UNCHANGED <<files, uploads, autoDisabled, candidates>>  BY <2>4 DEF Verify, cpaVars
    <3>2. RowsEvolve /\ FilesEvolve  BY <1>0, <3>1, RowsUnchanged, FilesUnchanged
    <3>3. CASE Answer(a)  BY <1>3, <3>1, <3>2, <3>3
    <3>4. CASE /\ VerifyIdentity(request[a].item)
               /\ request' = [request EXCEPT ![a].step = "call", ![a].item = Looked(@)]
      <4>1. PICK item \in Held : item = Looked(old)  BY <1>0, HeldTypes
      <4>2. Checked(item)' /\ item.id = old.id /\ item.issue = old.issue
        BY <1>0, <2>1, <3>1, <3>4, <4>1, VerifiedIsChecked
      <4>3. PICK r \in Request :
              r = [request[a] EXCEPT !.step = "call", !.item = item]
        BY <2>0 DEF Request
      <4>4. request' = [request EXCEPT ![a] = r]
        BY <2>1, <3>4, <4>1, <4>3
      <4>5. r.item = item /\ r.step = "call"  BY <2>0, <4>3 DEF Request
      <4>6. RequestFine(r)'  BY <2>2, <3>1, <4>2, <4>5 DEF RequestFine, Backed
      <4> QED BY <1>2, <3>1, <3>2, <4>4, <4>6
    <3> QED BY <2>4, <3>3, <3>4 DEF Verify
  <2>5. CASE Call(a)
    <3>1. UNCHANGED candidates /\ request[a].step = "call"  BY <2>5 DEF Call
    <3>2. Checked(old)  BY <2>0, <2>1, <3>1 DEF RequestFine
    <3>3. Applied(a) \/ CallFails(old.issue.file)  BY <2>1, <2>5 DEF Call
    <3>4. RowsEvolve  BY <1>0, <3>1, RowsUnchanged
    <3>5. /\ FilesEvolve /\ autoDisabled' \subseteq autoDisabled
          /\ Applied(a) /\ request[a].op = "delete" =>
                ~files'[old.issue.file].present /\ uploads' = uploads
      <4>1. CASE request[a].op = "enable" /\ Applied(a)
        BY <1>0, <2>1, <2>3, <4>1, PatchEffect DEF Applied
      <4>2. CASE request[a].op = "delete" /\ Applied(a)
        <5>1. Delete(old.issue.file)  BY <2>1, <4>2 DEF Applied
        <5>2. autoDisabled' \subseteq autoDisabled  BY <5>1 DEF Delete
        <5> QED BY <1>0, <2>3, <5>1, <5>2, DeleteEffect
      <4>3. CASE CallFails(old.issue.file) /\ ~Applied(a)
        BY <1>0, <4>3, FilesUnchanged DEF CallFails, cpaVars
      <4>4. request[a].op \in {"enable", "delete"}  BY <2>0 DEF Request
      <4> QED BY <3>3, <4>1, <4>2, <4>3, <4>4
    <3>6. CASE Answer(a)  BY <1>3, <3>4, <3>5, <3>6
    <3>7. CASE Applied(a) /\ request' = [request EXCEPT ![a].step = "mark"]
      <4>1. PICK r \in Request : r = [request[a] EXCEPT !.step = "mark"]
        BY <2>0 DEF Request
      <4>2. request' = [request EXCEPT ![a] = r]  BY <3>7, <4>1
      <4>3. r.item = old /\ r.step = "mark" /\ r.op = request[a].op
        BY <2>0, <2>1, <4>1 DEF Request
      <4>4. Backed(old)'  BY <2>2, <3>1 DEF Backed
      <4>5. r.op = "delete" => Gone(old)'
        BY <3>2, <3>5, <3>7, <4>3 DEF Gone, Checked, StillThere
      <4>6. RequestFine(r)'
        BY <4>3, <4>4, <4>5 DEF RequestFine, Backed, Gone, StillThere
      <4> QED BY <1>2, <3>4, <3>5, <4>2, <4>6
    <3> QED BY <2>5, <3>6, <3>7 DEF Call
  <2>6. CASE Mark(a)
    <3>1. UNCHANGED <<files, uploads, autoDisabled>> /\ Answer(a)  BY <2>6 DEF Mark, cpaVars
    <3>2. old.id \in DOMAIN candidates  BY <2>2 DEF Backed
    <3>3. RowsEvolve
      <4>1. CASE UNCHANGED candidates  BY <1>0, <4>1, RowsUnchanged
      <4>2. ASSUME NEW s \in {"deleted", "resolved"}, UpdatePendingStatus(old.id, s)
            PROVE  RowsEvolve
        BY <1>0, <3>2, <4>2, DecisionEffect DEF Decisions
      <4> QED BY <2>1, <2>6, <4>1, <4>2 DEF Mark
    <3> QED BY <1>0, <1>3, <3>1, <3>3, FilesUnchanged
  <2> QED BY <1>6, <2>4, <2>5, <2>6
<1> QED BY <1>4, <1>5, <1>6 DEF Admin

\* The process restarts, or an operator changes a file.
LEMMA EnvironmentStep ==
    ASSUME IInv, Restart \/ \E f \in Files : Operator(f)
    PROVE  StepOK
<1>0. TypeOK /\ OnePendingPerIssue /\ WorkOK /\ RequestOK /\ DisableOnRecord
  BY DEF IInv
<1>1. UNCHANGED candidates /\ autoDisabled' \subseteq autoDisabled
  BY DEF Restart, Operator, OperatorToggle, OperatorDelete, OperatorUpload, Delete, cpaVars
<1>2. RowsEvolve  BY <1>0, <1>1, RowsUnchanged
<1>3. CASE Restart
  <2>1. /\ UNCHANGED <<files, uploads, autoDisabled>>
        /\ autoDisable' \in BOOLEAN /\ jobs' = <<>> /\ work' = NoWork
        /\ request' = [a \in Admins |-> NoWork]
    BY <1>3 DEF Restart, cpaVars
  <2>2. FilesEvolve  BY <1>0, <2>1, FilesUnchanged
  <2>3. jobs' \in Seq(Job) /\ Len(jobs') <= QueueSize
    BY <2>1, EmptySeq, IssueConstantsOK
  <2>4. TypeOK'  BY <1>0, <1>1, <2>1, <2>3 DEF TypeOK
  <2>5. WorkOK' /\ RequestOK'
    BY <2>1 DEF WorkOK, WorkFine, RequestOK, RequestFine
  <2> QED BY <1>0, <1>1, <1>2, <2>2, <2>4, <2>5, RecordKept DEF StepOK
<1>4. ASSUME NEW f \in Files, Operator(f) PROVE StepOK
  <2>1. UNCHANGED <<autoDisable, jobs, work, request>>
    BY <1>4 DEF Operator, OperatorToggle, OperatorDelete, OperatorUpload, workerVars
  <2>2. FilesEvolve
    <3>1. CASE OperatorToggle(f)
      <4>1. files[f].disabled \in BOOLEAN  BY <1>0 DEF TypeOK, File
      <4>2. (~files[f].disabled) \in BOOLEAN  OBVIOUS
      <4> QED BY <1>0, <3>1, <4>2, PatchEffect DEF OperatorToggle
    <3>2. CASE OperatorDelete(f)  BY <1>0, <3>2, DeleteEffect DEF OperatorDelete
    <3>3. CASE \E account \in Accounts : OperatorUpload(f, account)
      BY <1>0, <3>3, UploadEffect
    <3> QED BY <1>4, <3>1, <3>2, <3>3 DEF Operator
  <2>3. TypeOK'  BY <1>0, <1>1, <2>1, <2>2 DEF TypeOK, FilesEvolve
  <2> QED BY <1>0, <1>1, <1>2, <2>1, <2>2, <2>3, WorkKept, RequestsKept, RecordKept
          DEF StepOK
<1> QED BY <1>3, <1>4

(***************************************************************************)
(* The invariant, and what follows from it.                                *)
(***************************************************************************)

LEMMA InitIInv == ASSUME Init PROVE IInv
<1>1. TypeOK
  <2>1. files \in [Files -> File]  BY DEF Init, File
  <2>2. uploads \in [Files -> 0..MaxUploads]  BY IssueConstantsOK DEF Init
  <2>3. candidates \in Seq(Row) /\ Len(candidates) <= MaxRows
    BY EmptySeq, IssueConstantsOK DEF Init
  <2>4. jobs \in Seq(Job) /\ Len(jobs) <= QueueSize
    BY EmptySeq, IssueConstantsOK DEF Init
  <2> QED BY <2>1, <2>2, <2>3, <2>4 DEF Init, TypeOK
<1>2. DOMAIN candidates = {} /\ autoDisabled = {}  BY DEF Init
<1>3. WorkOK /\ RequestOK  BY DEF Init, WorkOK, WorkFine, RequestOK, RequestFine
<1> QED BY <1>1, <1>2, <1>3 DEF IInv, OnePendingPerIssue, DisableOnRecord

LEMMA NextIInv == ASSUME IInv, [Next]_vars PROVE IInv' /\ RowsEvolve
<1>1. CASE UNCHANGED vars
  <2>1. TypeOK /\ OnePendingPerIssue /\ WorkOK /\ RequestOK /\ DisableOnRecord
    BY DEF IInv
  <2>2. RowsEvolve /\ FilesEvolve
    BY <1>1, <2>1, RowsUnchanged, FilesUnchanged DEF vars
  <2>3. TypeOK'  BY <1>1, <2>1 DEF vars, TypeOK
  <2>4. WorkOK' /\ RequestOK' /\ DisableOnRecord'
    BY <1>1, <2>1, <2>2, WorkKept, RequestsKept, RecordKept DEF vars
  <2> QED BY <2>2, <2>3, <2>4 DEF IInv, RowsEvolve
<1>2. CASE Next
  <2>1. StepOK  BY <1>2, WorkerStep, AdminStep, EnvironmentStep DEF Next
  <2> QED BY <2>1 DEF StepOK, RowsEvolve, IInv
<1> QED BY <1>1, <1>2

THEOREM Invariance == Spec => []IInv
<1>1. Init => IInv  BY InitIInv
<1>2. IInv /\ [Next]_vars => IInv'  BY NextIInv
<1> QED BY <1>1, <1>2, PTL DEF Spec

\* Rows, jobs, the candidate in work and the requests stay of their types.
THEOREM TypeCorrect == Spec => []TypeOK
<1>1. IInv => TypeOK  BY DEF IInv
<1> QED BY <1>1, Invariance, PTL

\* However many admins and events there are, an issue has one pending row.
THEOREM OnePending == Spec => []OnePendingPerIssue
<1>1. IInv => OnePendingPerIssue  BY DEF IInv
<1> QED BY <1>1, Invariance, PTL

\* Whatever fails, a file the worker disabled has a row that says why.
THEOREM OnRecord == Spec => []DisableOnRecord
<1>1. IInv => DisableOnRecord  BY DEF IInv
<1> QED BY <1>1, Invariance, PTL

\* No candidate is closed as deleted while the verified file is in CPA.
THEOREM DeletedGone == Spec => DeletedMeansGone
<1>1. IInv => \A a \in Admins : Mark(a) /\ request[a].op = "delete"
                                => ~StillThere(request[a].item)
  BY DEF IInv, RequestOK, RequestFine, Gone, Mark, NoWork
<1> QED BY <1>1, Invariance, PTL DEF DeletedMeansGone

\* No call disables, enables or deletes another account's file unless it was
\* uploaded between the check and the call.
THEOREM HitsAccount == Spec => CallsHitTheAccount
<1>1. IInv => (Disable => HitsTheAccount(work.item))
  <2>1. Disable => work # NoWork /\ work.step = "disable"  BY DEF Disable, NoWork
  <2> QED BY <2>1 DEF IInv, WorkOK, WorkFine, Checked
<1>2. IInv => \A a \in Admins : Call(a) => HitsTheAccount(request[a].item)
  <2>1. \A a \in Admins : Call(a) => request[a] # NoWork /\ request[a].step = "call"
    BY DEF Call, NoWork
  <2> QED BY <2>1 DEF IInv, RequestOK, RequestFine, Checked
<1>3. IInv /\ [Next]_vars =>
        [files' # files => /\ Disable => HitsTheAccount(work.item)
                           /\ \A a \in Admins : Call(a) => HitsTheAccount(request[a].item)]_vars
  BY <1>1, <1>2
<1> QED BY <1>3, Invariance, PTL DEF Spec, CallsHitTheAccount

(***************************************************************************)
(* The table implements the queue.                                         *)
(***************************************************************************)

LEMMA InQueue ==
    /\ \A x : x \in OpenIssues <=>
          \E i \in DOMAIN candidates : candidates[i].status = "pending" /\ candidates[i].issue = x
    /\ \A x : x \in ClosedCases <=>
          \E i \in DOMAIN candidates :
             /\ candidates[i].status # "pending"
             /\ x = [id |-> i, issue |-> candidates[i].issue, decision |-> candidates[i].status]
BY DEF OpenIssues, ClosedCases

QueueStep == [Queue!Next]_<<OpenIssues, ClosedCases>>

LEMMA SameQueue ==
    ASSUME DOMAIN candidates' = DOMAIN candidates,
           \A i \in DOMAIN candidates : /\ candidates'[i].issue = candidates[i].issue
                                        /\ candidates'[i].status = candidates[i].status
    PROVE  QueueStep
<1>1. OpenIssues' = OpenIssues  BY DEF OpenIssues
<1>2. ClosedCases' = ClosedCases  BY DEF ClosedCases
<1> QED BY <1>1, <1>2 DEF QueueStep

\* An upsert reports an issue, or nothing new.
LEMMA UpsertReports ==
    ASSUME TypeOK, NEW job \in Job, NEW id \in 1..MaxRows, Upsert(job, id)
    PROVE  QueueStep
<1> DEFINE n == Len(candidates)
<1>1. n \in Nat /\ DOMAIN candidates = 1..n /\ \A i \in 1..n : candidates[i] \in Row
  BY RowTypes
<1>2. CASE id \in PendingOf(job.issue)
           /\ candidates' = [candidates EXCEPT ![id].snapshot = job.snapshot]
  <2> DEFINE row == [candidates[id] EXCEPT !.snapshot = job.snapshot]
  <2>1. id \in 1..n  BY <1>1, <1>2 DEF PendingOf
  <2>2. row.issue = candidates[id].issue /\ row.status = candidates[id].status
    BY <1>1, <2>1 DEF Row
  <2>3. candidates' = [candidates EXCEPT ![id] = row]  BY <1>2
  <2> HIDE DEF row
  <2>4. \A j \in 1..n : candidates'[j] = IF j = id THEN row ELSE candidates[j]
    BY <1>1, <2>3
  <2> QED BY <1>1, <2>2, <2>3, <2>4, SameQueue
<1>3. CASE PendingOf(job.issue) = {} /\ candidates' = Append(candidates, NewRow(job))
  <2> DEFINE row == NewRow(job)
  <2>1. row \in Row /\ row.issue = job.issue /\ row.status = "pending"
    BY DEF NewRow, Row, Job, Status
  <2> HIDE DEF row
  <2>2. candidates' = Append(candidates, row)  BY <1>3 DEF row
  <2>3. /\ candidates' \in Seq(Row) /\ Len(candidates') = n + 1
        /\ \A j \in 1..n : candidates'[j] = candidates[j]
        /\ candidates'[n + 1] = row
    BY <2>1, <2>2, AppendProperties DEF TypeOK
  <2>4. DOMAIN candidates' = 1..(n + 1)  BY <2>3, LenProperties
  <2>5. OpenIssues' = OpenIssues \cup {job.issue}
    BY <1>1, <2>1, <2>3, <2>4 DEF OpenIssues
  <2>6. ClosedCases' = ClosedCases
    BY <1>1, <2>1, <2>3, <2>4 DEF ClosedCases
  <2>7. job.issue \in Issue /\ job.issue \notin OpenIssues
    BY <1>1, <1>3, InQueue DEF PendingOf, Job
  <2> QED BY <2>5, <2>6, <2>7 DEF QueueStep, Queue!Next, Queue!Report
<1> QED BY <1>2, <1>3 DEF Upsert

\* A decision closes an issue, or comes too late.
LEMMA DecisionCloses ==
    ASSUME TypeOK, OnePendingPerIssue, NEW id \in DOMAIN candidates,
           NEW s \in Decisions, UpdatePendingStatus(id, s)
    PROVE  QueueStep
<1> DEFINE n == Len(candidates)
<1>1. n \in Nat /\ DOMAIN candidates = 1..n /\ \A i \in 1..n : candidates[i] \in Row
  BY RowTypes
<1>2. CASE candidates' = candidates  BY <1>2, SameQueue
<1>3. CASE candidates[id].status = "pending"
           /\ candidates' = [candidates EXCEPT ![id].status = s]
  <2> DEFINE row == [candidates[id] EXCEPT !.status = s]
             issue == candidates[id].issue
             case == [id |-> id, issue |-> issue, decision |-> s]
  <2>1. row.issue = issue /\ row.status = s /\ s # "pending" /\ issue \in Issue
    BY <1>1 DEF Row, Decisions
  <2>2. candidates' = [candidates EXCEPT ![id] = row]  BY <1>3
  <2> HIDE DEF row
  <2>3. /\ DOMAIN candidates' = 1..n
        /\ \A j \in 1..n : candidates'[j] = IF j = id THEN row ELSE candidates[j]
    BY <1>1, <2>2
  <2>4. OpenIssues' = OpenIssues \ {issue}
    <3>1. \A j \in 1..n : candidates[j].status = "pending" /\ candidates[j].issue = issue
                          => j = id
      BY <1>1, <1>3 DEF OnePendingPerIssue
    <3>2. \A x : x \in OpenIssues' <=>
            \E j \in 1..n : candidates'[j].status = "pending" /\ candidates'[j].issue = x
      BY <2>3 DEF OpenIssues
    <3>3. \A x : x \in OpenIssues <=>
            \E j \in 1..n : candidates[j].status = "pending" /\ candidates[j].issue = x
      BY <1>1, InQueue
    <3>4. \A x : x \in OpenIssues' <=> x \in OpenIssues /\ x # issue
      BY <1>1, <1>3, <2>1, <2>3, <3>1, <3>2, <3>3
    <3> QED BY <3>4
  <2>5. ClosedCases' = ClosedCases \cup {case}
    <3>1. \A x : x \in ClosedCases' <=>
            \E j \in 1..n :
               /\ candidates'[j].status # "pending"
               /\ x = [id |-> j, issue |-> candidates'[j].issue,
                       decision |-> candidates'[j].status]
      BY <2>3 DEF ClosedCases
    <3>2. \A x : x \in ClosedCases <=>
            \E j \in 1..n :
               /\ candidates[j].status # "pending"
               /\ x = [id |-> j, issue |-> candidates[j].issue,
                       decision |-> candidates[j].status]
      BY <1>1, InQueue
    <3>3. \A x : x \in ClosedCases' <=> x \in ClosedCases \/ x = case
      BY <1>1, <1>3, <2>1, <2>3, <3>1, <3>2
    <3> QED BY <3>3
  <2>6. \A c \in ClosedCases : c.id # id  BY <1>3, InQueue
  <2>7. issue \in OpenIssues  BY <1>3, InQueue
  <2>8. id \in 1..MaxRows  BY <1>1, IssueConstantsOK DEF TypeOK
  <2> QED BY <2>1, <2>4, <2>5, <2>6, <2>7, <2>8
          DEF QueueStep, Queue!Next, Queue!Close, Decisions
<1> QED BY <1>2, <1>3 DEF UpdatePendingStatus

LEMMA InitQueue == ASSUME Init PROVE Queue!Init
<1>1. DOMAIN candidates = {}  BY DEF Init
<1> QED BY <1>1, InQueue DEF Queue!Init

LEMMA NextQueue == ASSUME IInv, [Next]_vars PROVE QueueStep
<1>0. TypeOK /\ OnePendingPerIssue /\ WorkOK /\ RequestOK  BY DEF IInv
<1>1. CASE UNCHANGED candidates  BY <1>1, SameQueue
<1>2. CASE HandleCandidate \/ HandleCandidateFails
  <2>1. Head(jobs) \in Job
    <3>1. jobs # <<>>  BY <1>2 DEF HandleCandidate, HandleCandidateFails
    <3> QED BY <1>0, <3>1, HeadTailProperties DEF TypeOK
  <2>2. CASE UNCHANGED candidates  BY <1>1, <2>2
  <2>3. ASSUME NEW id \in 1..MaxRows, Upsert(Head(jobs), id) PROVE QueueStep
    BY <1>0, <2>1, <2>3, UpsertReports
  <2> QED BY <1>2, <2>2, <2>3 DEF HandleCandidate, HandleCandidateFails
<1>3. CASE \E id \in DOMAIN candidates, status \in {"ignored", "resolved"} :
              Decide(id, status)
  BY <1>0, <1>3, DecisionCloses DEF Decide, Decisions
<1>4. ASSUME NEW a \in Admins, Mark(a) PROVE QueueStep
  <2>1. request[a] # NoWork  BY <1>4 DEF Mark, NoWork
  <2>2. request[a].item.id \in DOMAIN candidates
    BY <1>0, <2>1 DEF RequestOK, RequestFine, Backed
  <2>3. ASSUME NEW s \in {"deleted", "resolved"}, UpdatePendingStatus(request[a].item.id, s)
        PROVE  QueueStep
    BY <1>0, <2>2, <2>3, DecisionCloses DEF Decisions
  <2> QED BY <1>1, <1>4, <2>3 DEF Mark
\* No other step touches the table.
<1> QED BY <1>1, <1>2, <1>3, <1>4
        DEF Next, vars, HandleUsageEvents, SetAutoDisable, RunLoop, FetchBeforeDisable,
            Disable, Admin, Begin, Verify, Call, Restart, Operator, OperatorToggle,
            OperatorDelete, OperatorUpload

\* The table, its worker and its admins implement the queue of issues.
THEOREM Implements == Spec => ImplementsQueue
<1>1. Init => Queue!Init  BY InitQueue
<1>2. IInv /\ [Next]_vars => QueueStep  BY NextQueue
<1> QED BY <1>1, <1>2, Invariance, PTL DEF Spec, ImplementsQueue, Queue!Spec, QueueStep
=============================================================================
