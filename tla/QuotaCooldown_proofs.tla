------------------------ MODULE QuotaCooldown_proofs ------------------------
(***************************************************************************)
(* Theorems about QuotaCooldown, for every value of its constants.         *)
(***************************************************************************)
EXTENDS MCQuotaCooldown, SequenceTheorems, TLAPS

(***************************************************************************)
(* What a transaction on quota_cooldowns does to the rows.                 *)
(***************************************************************************)

\* A row keeps its id and its file, its recovery time never moves back, and
\* once closed it stays as it is but for the kind of its closing.
RowsEvolve ==
    /\ cooldowns' \in Seq(Row)
    /\ DOMAIN cooldowns \subseteq DOMAIN cooldowns'
    /\ \A i \in DOMAIN cooldowns :
          /\ cooldowns'[i].file = cooldowns[i].file
          /\ cooldowns'[i].recoverAt >= cooldowns[i].recoverAt
          /\ cooldowns[i].status # "active" =>
                /\ cooldowns'[i].status # "active"
                /\ cooldowns'[i].recoverAt = cooldowns[i].recoverAt

\* UpsertActive prolongs the file's active row or inserts a row when there is
\* none, so a file never gets a second active one.
LEMMA UpsertEffect ==
    ASSUME cooldowns \in Seq(Row), NEW f \in Files, NEW idx \in AuthIndex,
           NEW t \in Time, UpsertActive(f, idx, t)
    PROVE  RowsEvolve /\ (OneActivePerFile => OneActivePerFile')
<1> DEFINE n == Len(cooldowns)
<1>1. n \in Nat /\ DOMAIN cooldowns = 1..n /\ \A i \in 1..n : cooldowns[i] \in Row
  BY LenProperties, ElementOfSeq
<1>2. ASSUME NEW i \in ActiveRows(f), cooldowns' = [cooldowns EXCEPT
                 ![i] = ActiveRow(f, idx, Later(cooldowns[i].recoverAt, t))]
      PROVE  RowsEvolve /\ (OneActivePerFile => OneActivePerFile')
  <2> DEFINE row == ActiveRow(f, idx, Later(cooldowns[i].recoverAt, t))
  <2>1. i \in 1..n /\ cooldowns[i] \in Row  BY <1>1 DEF ActiveRows
  <2>2. /\ row \in Row
        /\ row.file = cooldowns[i].file /\ row.status = cooldowns[i].status
        /\ row.recoverAt >= cooldowns[i].recoverAt
        /\ cooldowns[i].status = "active"
    <3>1. \A a, b \in Time : Later(a, b) \in Time /\ Later(a, b) >= a
      BY ConstantsOK DEF Later, Time
    <3>2. cooldowns[i].recoverAt \in Time  BY <2>1 DEF Row
    <3> QED BY <3>1, <3>2 DEF Row, ActiveRow, ActiveRows
  <2>3. cooldowns' = [cooldowns EXCEPT ![i] = row]  BY <1>2
  <2> HIDE DEF row
  <2>4. /\ cooldowns' \in Seq(Row) /\ Len(cooldowns') = n
        /\ \A j \in 1..n : cooldowns'[j] = IF j = i THEN row ELSE cooldowns[j]
    BY <2>1, <2>2, <2>3, ExceptSeq
  <2>5. DOMAIN cooldowns' = 1..n  BY <2>4, LenProperties
  <2>6. \A j \in 1..n : cooldowns[j].recoverAt \in Nat  BY <1>1 DEF Row, Time
  <2>7. RowsEvolve  BY <1>1, <2>2, <2>4, <2>5, <2>6 DEF RowsEvolve
  <2>8. \A j \in 1..n : /\ cooldowns'[j].file = cooldowns[j].file
                        /\ cooldowns'[j].status = cooldowns[j].status
    BY <2>2, <2>4
  <2>9. OneActivePerFile => OneActivePerFile'
    BY <1>1, <2>5, <2>8 DEF OneActivePerFile
  <2> QED BY <2>7, <2>9
<1>3. ASSUME ActiveRows(f) = {}, cooldowns' = Append(cooldowns, ActiveRow(f, idx, t))
      PROVE  RowsEvolve /\ (OneActivePerFile => OneActivePerFile')
  <2> DEFINE row == ActiveRow(f, idx, t)
  <2>1. row \in Row /\ row.file = f  BY DEF Row, ActiveRow
  <2>2. cooldowns' = Append(cooldowns, row)  BY <1>3
  <2> HIDE DEF row
  <2>3. /\ cooldowns' \in Seq(Row) /\ Len(cooldowns') = n + 1
        /\ \A j \in 1..n : cooldowns'[j] = cooldowns[j]
        /\ cooldowns'[n + 1] = row
    BY <2>1, <2>2, AppendProperties
  <2>4. DOMAIN cooldowns' = 1..(n + 1)  BY <2>3, LenProperties
  <2>5. \A j \in 1..n : cooldowns[j].recoverAt \in Nat  BY <1>1 DEF Row, Time
  <2>6. RowsEvolve  BY <1>1, <2>3, <2>4, <2>5 DEF RowsEvolve
  <2>7. \A j \in 1..n : cooldowns[j].file = f => cooldowns[j].status # "active"
    BY <1>1, <1>3 DEF ActiveRows
  <2>8. OneActivePerFile => OneActivePerFile'
    BY <1>1, <2>1, <2>3, <2>4, <2>7 DEF OneActivePerFile
  <2> QED BY <2>6, <2>8
<1> QED BY <1>2, <1>3 DEF UpsertActive

\* MarkRecovered and MarkSkipped only close a row.
LEMMA SetStatusEffect ==
    ASSUME cooldowns \in Seq(Row), NEW id \in DOMAIN cooldowns,
           NEW s \in {"recovered", "skipped"}, SetStatus(id, s)
    PROVE  RowsEvolve /\ (OneActivePerFile => OneActivePerFile')
<1> DEFINE n == Len(cooldowns)
           row == [cooldowns[id] EXCEPT !.status = s]
<1>1. n \in Nat /\ DOMAIN cooldowns = 1..n /\ \A i \in 1..n : cooldowns[i] \in Row
  BY LenProperties, ElementOfSeq
<1>2. row \in Row /\ row.file = cooldowns[id].file
        /\ row.recoverAt = cooldowns[id].recoverAt /\ row.status # "active"
  BY <1>1 DEF Row
<1>3. cooldowns' = [cooldowns EXCEPT ![id] = row]  BY DEF SetStatus
<1> HIDE DEF row
<1>4. /\ cooldowns' \in Seq(Row) /\ Len(cooldowns') = n
      /\ \A j \in 1..n : cooldowns'[j] = IF j = id THEN row ELSE cooldowns[j]
  BY <1>1, <1>2, <1>3, ExceptSeq
<1>5. DOMAIN cooldowns' = 1..n  BY <1>4, LenProperties
<1>6. \A j \in 1..n : cooldowns[j].recoverAt \in Nat  BY <1>1 DEF Row, Time
<1>7. RowsEvolve  BY <1>1, <1>2, <1>4, <1>5, <1>6 DEF RowsEvolve
<1>8. OneActivePerFile => OneActivePerFile'
  BY <1>1, <1>2, <1>4, <1>5 DEF OneActivePerFile
<1> QED BY <1>7, <1>8

(***************************************************************************)
(* What a step does to the sweeps.                                         *)
(***************************************************************************)

\* Every sweep goes on with some of the items it had.
SweepsShrink ==
    /\ sweep' \in [Sweepers -> Sweep]
    /\ \A g \in Sweepers : sweep'[g].due \subseteq sweep[g].due

\* The rows a sweep lists are of the table and have run out.
LEMMA ListedRows ==
    ASSUME TypeOK
    PROVE  /\ ListDue \subseteq Item
           /\ \A x \in ListDue :
                /\ x.id \in DOMAIN cooldowns
                /\ x.recoverAt <= now
                /\ cooldowns[x.id].status = "active"
                /\ cooldowns[x.id].file = x.file
                /\ cooldowns[x.id].recoverAt = x.recoverAt
<1>1. /\ Len(cooldowns) \in Nat /\ DOMAIN cooldowns = 1..Len(cooldowns)
      /\ \A i \in DOMAIN cooldowns : cooldowns[i] \in Row
  BY LenProperties, ElementOfSeq DEF TypeOK
<1>2. \A x \in ListDue : \E i \in DueIds : x = ItemOf(i)
  BY DEF ListDue
<1>3. ASSUME NEW i \in DueIds
      PROVE  /\ ItemOf(i) \in Item /\ ItemOf(i).id = i
             /\ i \in DOMAIN cooldowns /\ ItemOf(i).recoverAt <= now
             /\ cooldowns[i].status = "active"
             /\ cooldowns[i].file = ItemOf(i).file
             /\ cooldowns[i].recoverAt = ItemOf(i).recoverAt
  <2>1. i \in DOMAIN cooldowns /\ cooldowns[i].status = "active" /\ cooldowns[i].recoverAt <= now
    BY DEF DueIds
  <2>2. i \in Nat \ {0} /\ cooldowns[i] \in Row  BY <1>1, <2>1
  <2> QED BY <2>1, <2>2 DEF ItemOf, Item, Row
<1> QED BY <1>2, <1>3

LEMMA AdvanceEffect ==
    ASSUME sweep \in [Sweepers -> Sweep], NEW g \in Sweepers, NEW x, Advance(g, x)
    PROVE  SweepsShrink
<1> DEFINE rest == sweep[g].due \ {x}
           new == IF rest = {} THEN NoSweep ELSE [step |-> "fetch", due |-> rest]
<1>1. new \in Sweep /\ new.due \subseteq sweep[g].due
  BY DEF Sweep, NoSweep
<1>2. sweep' = [sweep EXCEPT ![g] = new]  BY DEF Advance
<1> QED BY <1>1, <1>2 DEF SweepsShrink

LEMMA GoToEffect ==
    ASSUME sweep \in [Sweepers -> Sweep], NEW g \in Sweepers,
           NEW step \in {"enable", "mark", "skip"}, GoTo(g, step)
    PROVE  SweepsShrink
BY DEF GoTo, SweepsShrink, Sweep

\* A sweep's copies stay what they were copied from while rows evolve and the
\* clock advances.
LEMMA SnapshotsKept ==
    ASSUME TypeOK, SweepSnapshots, RowsEvolve \/ UNCHANGED cooldowns,
           now' \in {now, now + 1}, SweepsShrink
    PROVE  SweepSnapshots'
<1> SUFFICES ASSUME NEW g \in Sweepers, NEW x \in sweep'[g].due
             PROVE  /\ x.id \in DOMAIN cooldowns'
                    /\ x.recoverAt <= now'
                    /\ cooldowns'[x.id].file = x.file
                    /\ cooldowns'[x.id].recoverAt >= x.recoverAt
  BY DEF SweepSnapshots
<1>1. x \in sweep[g].due /\ x \in Item
  BY DEF SweepsShrink, Sweep, TypeOK
<1>2. /\ x.id \in DOMAIN cooldowns /\ x.recoverAt <= now
      /\ cooldowns[x.id].file = x.file /\ cooldowns[x.id].recoverAt >= x.recoverAt
  BY <1>1 DEF SweepSnapshots
<1>3. x.recoverAt \in Nat /\ now \in Nat
  BY <1>1, ConstantsOK DEF Item, Time, TypeOK
<1>4. x.recoverAt <= now'  BY <1>2, <1>3
<1>5. CASE UNCHANGED cooldowns  BY <1>2, <1>4, <1>5
<1>6. CASE RowsEvolve
  <2>1. /\ x.id \in DOMAIN cooldowns'
        /\ cooldowns'[x.id].file = cooldowns[x.id].file
        /\ cooldowns'[x.id].recoverAt >= cooldowns[x.id].recoverAt
    BY <1>2, <1>6 DEF RowsEvolve
  <2>2. cooldowns[x.id].recoverAt \in Nat
    <3>1. x.id \in 1..Len(cooldowns)  BY <1>2, LenProperties DEF TypeOK
    <3>2. cooldowns[x.id] \in Row  BY <3>1, ElementOfSeq DEF TypeOK
    <3> QED BY <3>2 DEF Row, Time
  <2>3. cooldowns'[x.id].recoverAt \in Nat
    <3>1. cooldowns' \in Seq(Row)  BY <1>6 DEF RowsEvolve
    <3>2. x.id \in 1..Len(cooldowns')  BY <2>1, <3>1, LenProperties
    <3>3. cooldowns'[x.id] \in Row  BY <3>1, <3>2, ElementOfSeq
    <3> QED BY <3>3 DEF Row, Time
  <2> QED BY <1>2, <1>3, <1>4, <2>1, <2>2, <2>3
<1> QED BY <1>5, <1>6

(***************************************************************************)
(* The invariants that hold whatever the environment does and however many *)
(* goroutines sweep.  OneActivePerFile and SweepSnapshots need the types;  *)
(* the types need the snapshots, for a sweep to close a row that exists.   *)
(***************************************************************************)

IInv == TypeOK /\ OneActivePerFile /\ SweepSnapshots

\* What the proof of each action establishes.
StepOK ==
    /\ TypeOK'
    /\ RowsEvolve \/ UNCHANGED cooldowns
    /\ OneActivePerFile'
    /\ SweepSnapshots'

LEMMA InitOK == Init => IInv
<1> SUFFICES ASSUME Init PROVE IInv
  OBVIOUS
<1>1. cooldowns \in Seq(Row) /\ jobs \in Seq(Job) /\ Len(jobs) = 0 /\ Len(cooldowns) = 0
  BY EmptySeq DEF Init
<1>2. DOMAIN cooldowns = {}  BY <1>1, LenProperties
<1>3. \A f \in Files : cpa[f] \in AuthFile  BY DEF Init, AuthFile
<1>4. cpa \in [Files -> AuthFile]  BY <1>3 DEF Init
<1>5. NoSweep \in Sweep  BY DEF NoSweep, Sweep
<1>6. TypeOK  BY <1>1, <1>4, <1>5, ConstantsOK DEF Init, TypeOK
<1>7. SweepSnapshots  BY DEF SweepSnapshots, Init, NoSweep
<1> QED BY <1>2, <1>6, <1>7 DEF IInv, OneActivePerFile

\* A PATCH leaves CPA's files well-formed.
LEMMA PatchType ==
    ASSUME TypeOK, NEW f \in Files, PatchDisable(f) \/ PatchEnable(f) \/ PatchFails(f)
    PROVE  cpa' \in [Files -> AuthFile] /\ holder' \in [Files -> {"none", "worker", "operator"}]
<1>1. cpa \in [Files -> AuthFile] /\ holder \in [Files -> {"none", "worker", "operator"}]
  BY DEF TypeOK
<1>2. CASE PatchDisable(f)
  <2> DEFINE new == [cpa[f] EXCEPT !.disabled = TRUE]
  <2>1. new \in AuthFile  BY <1>1 DEF AuthFile
  <2>2. cpa' = [cpa EXCEPT ![f] = new]  BY <1>2 DEF PatchDisable
  <2> HIDE DEF new
  <2> QED BY <1>1, <1>2, <2>1, <2>2 DEF PatchDisable
<1>3. CASE PatchEnable(f)
  <2> DEFINE new == [cpa[f] EXCEPT !.disabled = FALSE]
  <2>1. new \in AuthFile  BY <1>1 DEF AuthFile
  <2>2. cpa' = [cpa EXCEPT ![f] = new]  BY <1>3 DEF PatchEnable
  <2> HIDE DEF new
  <2> QED BY <1>1, <1>3, <2>1, <2>2 DEF PatchEnable
<1>4. CASE PatchFails(f)  BY <1>1, <1>4 DEF PatchFails
<1> QED BY <1>2, <1>3, <1>4

LEMMA CandType ==
    ASSUME NEW c \in Cand
    PROVE  /\ c.job \in Job /\ c.job.file \in Files /\ c.job.index \in AuthIndex
           /\ c.job.resetAt \in Time /\ c.seen \in AuthIndex
           /\ \A a \in AuthIndex :
                 \A s \in {"fetch", "disable", "persist", "rollback", "lookup", "extend"} :
                    [c EXCEPT !.step = s] \in Cand /\ [c EXCEPT !.step = s, !.seen = a] \in Cand
BY DEF Cand, Job

\* The run loop handling a candidate.
LEMMA CandidateStep == IInv /\ HandleCandidate => StepOK
<1> SUFFICES ASSUME IInv, HandleCandidate PROVE StepOK
  OBVIOUS
<1>0. TypeOK /\ OneActivePerFile /\ SweepSnapshots  BY DEF IInv
<1>1. now' = now /\ UNCHANGED sweep
  BY DEF HandleCandidate, TakeCandidate, FetchBeforeDisable, Disable, Persist,
         Rollback, LookupActive, Extend
<1>2. SweepsShrink  BY <1>0, <1>1 DEF SweepsShrink, TypeOK
<1>3. ASSUME UNCHANGED cooldowns, TypeOK' PROVE StepOK
  BY <1>0, <1>1, <1>2, <1>3, SnapshotsKept DEF StepOK, OneActivePerFile
<1>4. CASE TakeCandidate
  <2>1. Head(jobs) \in Job /\ Tail(jobs) \in Seq(Job) /\ Len(Tail(jobs)) = Len(jobs) - 1
    BY <1>0, <1>4, HeadTailProperties DEF TypeOK, TakeCandidate
  <2>2. Len(jobs) \in Nat  BY <1>0, LenProperties DEF TypeOK
  <2>3. [step |-> "fetch", job |-> Head(jobs), seen |-> NoIndex] \in Cand
    BY <2>1 DEF Cand, AuthIndex
  <2>4. cand' \in {NoCand} \cup Cand  BY <1>4, <2>3 DEF TakeCandidate
  <2>5. TypeOK'
    BY <1>0, <1>4, <2>1, <2>2, <2>4, ConstantsOK DEF TypeOK, TakeCandidate
  <2> QED BY <1>3, <1>4, <2>5 DEF TakeCandidate
<1>5. ASSUME cand \in Cand, ~TakeCandidate PROVE StepOK
  <2>1. cand.job.file \in Files  BY <1>5, CandType
  <2>2. CASE FetchBeforeDisable
    <3>1. cpa[cand.job.file].index \in AuthIndex  BY <1>0, <2>1 DEF TypeOK, AuthFile
    <3>2. cand' \in {NoCand} \cup Cand
      BY <1>5, <2>2, <3>1, CandType DEF FetchBeforeDisable
    <3>3. TypeOK'  BY <1>0, <2>2, <3>2 DEF TypeOK, FetchBeforeDisable
    <3> QED BY <1>3, <2>2, <3>3 DEF FetchBeforeDisable
  <2>3. CASE Disable \/ Rollback
    <3>1. cand' \in {NoCand} \cup Cand  BY <1>5, <2>3, CandType DEF Disable, Rollback
    <3>2. PatchDisable(cand.job.file) \/ PatchEnable(cand.job.file) \/ PatchFails(cand.job.file)
      BY <2>3 DEF Disable, Rollback
    <3>3. /\ cpa' \in [Files -> AuthFile]
          /\ holder' \in [Files -> {"none", "worker", "operator"}]
      BY <1>0, <2>1, <3>2, PatchType
    <3>4. UNCHANGED <<now, cooldowns, configured, jobs, sweep>>
      BY <2>3 DEF Disable, Rollback
    <3>5. TypeOK'  BY <1>0, <3>1, <3>3, <3>4 DEF TypeOK
    <3> QED BY <1>3, <3>4, <3>5
  <2>4. CASE LookupActive
    <3>1. \A i \in ActiveRows(cand.job.file) :
            FirstNonEmpty(cooldowns[i].index, cand.seen) \in AuthIndex
      <4>1. \A i \in DOMAIN cooldowns : cooldowns[i] \in Row
        BY <1>0, LenProperties, ElementOfSeq DEF TypeOK
      <4> QED BY <1>5, <4>1, CandType DEF ActiveRows, Row, FirstNonEmpty
    <3>2. cand' \in {NoCand} \cup Cand
      <4>1. CASE cand' = NoCand  BY <4>1
      <4>2. ASSUME NEW i \in ActiveRows(cand.job.file),
                   cand' = [cand EXCEPT !.step = "extend",
                               !.seen = FirstNonEmpty(cooldowns[i].index, @)]
            PROVE  cand' \in Cand
        <5> DEFINE a == FirstNonEmpty(cooldowns[i].index, cand.seen)
        <5>1. a \in AuthIndex  BY <3>1
        <5>2. cand' = [cand EXCEPT !.step = "extend", !.seen = a]  BY <4>2
        <5> HIDE DEF a
        <5> QED BY <1>5, <5>1, <5>2, CandType
      <4> QED BY <2>4, <4>1, <4>2 DEF LookupActive
    <3>3. TypeOK'  BY <1>0, <2>4, <3>2 DEF TypeOK, LookupActive
    <3> QED BY <1>3, <2>4, <3>3 DEF LookupActive
  <2>5. CASE Persist \/ Extend
    <3> DEFINE idx == FirstNonEmpty(cand.job.index, cand.seen)
    <3>1. idx \in AuthIndex /\ cand.job.resetAt \in Time
      BY <1>5, CandType DEF FirstNonEmpty
    <3>2. cand' \in {NoCand} \cup Cand  BY <1>5, <2>5, CandType DEF Persist, Extend
    <3>3. UNCHANGED <<now, cpa, holder, configured, jobs, sweep>>
      BY <2>5 DEF Persist, Extend
    <3>4. ASSUME cooldowns' \in Seq(Row) PROVE TypeOK'
      BY <1>0, <3>2, <3>3, <3>4 DEF TypeOK
    <3>5. CASE UNCHANGED cooldowns  BY <1>0, <1>3, <3>4, <3>5 DEF TypeOK
    <3>6. CASE UpsertActive(cand.job.file, idx, cand.job.resetAt)
      <4> HIDE DEF idx
      <4>1. cooldowns \in Seq(Row)  BY <1>0 DEF TypeOK
      <4>2. RowsEvolve /\ OneActivePerFile'
        BY <1>0, <2>1, <3>1, <3>6, <4>1, UpsertEffect
      <4>3. SweepSnapshots'  BY <1>0, <1>1, <1>2, <4>2, SnapshotsKept
      <4>4. TypeOK'  BY <3>4, <4>2 DEF RowsEvolve
      <4> QED BY <4>2, <4>3, <4>4 DEF StepOK
    <3> QED BY <2>5, <3>5, <3>6 DEF Persist, Extend
  <2> QED BY <1>5, <2>2, <2>3, <2>4, <2>5 DEF HandleCandidate
<1>6. CASE ~TakeCandidate
  <2>1. cand.step # "none"
    BY <1>6 DEF HandleCandidate, FetchBeforeDisable, Disable, Persist, Rollback,
                LookupActive, Extend
  <2>2. cand # NoCand  BY <2>1 DEF NoCand
  <2> QED BY <1>0, <1>5, <1>6, <2>2 DEF TypeOK
<1> QED BY <1>4, <1>6

\* A sweep starts with copies of rows that have run out.
LEMMA StartSweepStep ==
    ASSUME IInv, NEW g \in Sweepers, StartSweep(g), UNCHANGED <<now, cooldowns>>
    PROVE  sweep' \in [Sweepers -> Sweep] /\ SweepSnapshots'
<1> DEFINE new == IF ListDue = {} THEN NoSweep ELSE [step |-> "fetch", due |-> ListDue]
<1>1. TypeOK /\ SweepSnapshots  BY DEF IInv
<1>2. new \in Sweep /\ new.due \subseteq ListDue
  BY <1>1, ListedRows DEF NoSweep, Sweep
<1>3. sweep' = [sweep EXCEPT ![g] = new]  BY DEF StartSweep
<1> HIDE DEF new
<1>4. sweep' \in [Sweepers -> Sweep]  BY <1>1, <1>2, <1>3 DEF TypeOK
<1>5. \A h \in Sweepers : sweep'[h] = IF h = g THEN new ELSE sweep[h]
  BY <1>1, <1>3 DEF TypeOK
<1>6. \A x \in ListDue : cooldowns[x.id].recoverAt >= x.recoverAt
  <2> SUFFICES ASSUME NEW x \in ListDue PROVE cooldowns[x.id].recoverAt >= x.recoverAt
    OBVIOUS
  <2>1. x \in Item /\ cooldowns[x.id].recoverAt = x.recoverAt  BY <1>1, ListedRows
  <2> QED BY <2>1 DEF Item, Time
<1>7. \A x \in ListDue : /\ x.id \in DOMAIN cooldowns /\ x.recoverAt <= now
                         /\ cooldowns[x.id].file = x.file
                         /\ cooldowns[x.id].recoverAt >= x.recoverAt
  BY <1>1, <1>6, ListedRows
<1>8. SweepSnapshots'
  BY <1>1, <1>2, <1>5, <1>7 DEF SweepSnapshots
<1> QED BY <1>4, <1>8

\* A sweep working on one of its items.
LEMMA RecoverStep == ASSUME IInv, NEW g \in Sweepers, RecoverCooldown(g) PROVE StepOK
<1>0. TypeOK /\ OneActivePerFile /\ SweepSnapshots /\ sweep \in [Sweepers -> Sweep]
  BY DEF IInv, TypeOK
<1>1. PICK x \in sweep[g].due :
        FetchBeforeEnable(g, x) \/ Enable(g, x) \/ EnableFails(g, x) \/ Mark(g, x)
  BY DEF RecoverCooldown
<1>2. x \in Item /\ x.file \in Files /\ x.id \in DOMAIN cooldowns
  BY <1>0 DEF Sweep, Item, SweepSnapshots
<1>3. UNCHANGED <<now, configured, jobs, cand>>
  BY <1>1 DEF FetchBeforeEnable, Enable, EnableFails, Mark
<1>4. Advance(g, x) \/ \E step \in {"enable", "mark", "skip"} : GoTo(g, step)
  BY <1>1 DEF FetchBeforeEnable, Enable, EnableFails, Mark
<1>5. SweepsShrink  BY <1>0, <1>4, AdvanceEffect, GoToEffect
<1>6. /\ cpa' \in [Files -> AuthFile]
      /\ holder' \in [Files -> {"none", "worker", "operator"}]
  <2>1. CASE UNCHANGED <<cpa, holder>>  BY <1>0, <2>1 DEF TypeOK
  <2>2. CASE PatchEnable(x.file) \/ PatchFails(x.file)  BY <1>0, <1>2, <2>2, PatchType
  <2> QED BY <1>1, <2>1, <2>2 DEF FetchBeforeEnable, Enable, EnableFails, Mark
<1>7. ASSUME cooldowns' \in Seq(Row) PROVE TypeOK'
  BY <1>0, <1>3, <1>5, <1>6, <1>7 DEF TypeOK, SweepsShrink
<1>8. UNCHANGED cooldowns \/ \E s \in {"recovered", "skipped"} : SetStatus(x.id, s)
  BY <1>1 DEF FetchBeforeEnable, Enable, EnableFails, Mark
<1>9. (RowsEvolve \/ UNCHANGED cooldowns) /\ OneActivePerFile' /\ cooldowns' \in Seq(Row)
  <2>1. CASE UNCHANGED cooldowns  BY <1>0, <2>1 DEF TypeOK, OneActivePerFile
  <2>2. ASSUME NEW s \in {"recovered", "skipped"}, SetStatus(x.id, s)
        PROVE  RowsEvolve /\ OneActivePerFile' /\ cooldowns' \in Seq(Row)
    <3>1. cooldowns \in Seq(Row)  BY <1>0 DEF TypeOK
    <3>2. RowsEvolve /\ OneActivePerFile'  BY <1>0, <1>2, <2>2, <3>1, SetStatusEffect
    <3> QED BY <3>2 DEF RowsEvolve
  <2> QED BY <1>8, <2>1, <2>2
<1>10. SweepSnapshots'  BY <1>0, <1>3, <1>5, <1>9, SnapshotsKept
<1> QED BY <1>7, <1>9, <1>10 DEF StepOK

\* The environment, and the steps that move no row and no item.
LEMMA OtherStep ==
    ASSUME IInv,
           \/ \E f \in Files, idx \in AuthIndex, t \in Time : HandleUsageEvents(f, idx, t)
           \/ \E g \in Syncs : CancelSync(g)
           \/ Clock \/ Restart
           \/ \E f \in Files : Operator(f)
           \/ UNCHANGED vars
    PROVE  StepOK
<1>0. TypeOK /\ OneActivePerFile /\ SweepSnapshots  BY DEF IInv
<1>1. UNCHANGED cooldowns
  BY DEF HandleUsageEvents, CancelSync, Clock, Restart, Operator, OperatorDisable,
         OperatorEnable, OperatorDelete, OperatorUpload, vars
<1>2. now' \in {now, now + 1}
  BY DEF HandleUsageEvents, CancelSync, Clock, Restart, Operator, OperatorDisable,
         OperatorEnable, OperatorDelete, OperatorUpload, vars
<1>3. NoSweep \in Sweep /\ NoSweep.due = {}  BY DEF NoSweep, Sweep
<1>4. SweepsShrink
  <2>1. CASE UNCHANGED sweep  BY <1>0, <2>1 DEF SweepsShrink, TypeOK
  <2>2. CASE Restart  BY <1>3, <2>2 DEF Restart, SweepsShrink
  <2>3. ASSUME NEW g \in Syncs, CancelSync(g) PROVE SweepsShrink
    BY <1>0, <1>3, <2>3 DEF CancelSync, SweepsShrink, TypeOK
  <2> QED
    BY <2>1, <2>2, <2>3
    DEF HandleUsageEvents, Clock, Operator, OperatorDisable, OperatorEnable,
        OperatorDelete, OperatorUpload, workerVars, vars
<1>5. TypeOK'
  <2>1. ASSUME NEW f \in Files, NEW idx \in AuthIndex, NEW t \in Time,
               HandleUsageEvents(f, idx, t)
        PROVE  TypeOK'
    <3> DEFINE job == [file |-> f, index |-> idx, resetAt |-> t]
    <3>1. job \in Job  BY DEF Job
    <3>2. jobs \in Seq(Job) /\ Len(jobs) \in Nat /\ Len(jobs) <= QueueSize
      BY <1>0, LenProperties DEF TypeOK
    <3>3. jobs' \in Seq(Job) /\ Len(jobs') <= QueueSize
      <4>1. jobs' = IF Len(jobs) < QueueSize THEN Append(jobs, job) ELSE jobs
        BY <2>1 DEF HandleUsageEvents, Enqueue
      <4> HIDE DEF job
      <4> QED BY <3>1, <3>2, <4>1, AppendProperties, ConstantsOK
    <3> QED BY <1>0, <2>1, <3>3 DEF TypeOK, HandleUsageEvents
  <2>2. ASSUME NEW g \in Syncs, CancelSync(g) PROVE TypeOK'
    BY <1>0, <1>4, <2>2 DEF TypeOK, CancelSync, SweepsShrink
  <2>3. CASE Clock  BY <1>0, <2>3, ConstantsOK DEF TypeOK, Clock, workerVars
  <2>4. CASE Restart
    <3>1. jobs' \in Seq(Job) /\ Len(jobs') = 0  BY <2>4, EmptySeq DEF Restart
    <3> QED BY <1>0, <1>4, <2>4, <3>1, ConstantsOK DEF TypeOK, Restart, SweepsShrink
  <2>5. ASSUME NEW f \in Files, Operator(f) PROVE TypeOK'
    <3>1. cpa[f] \in AuthFile  BY <1>0 DEF TypeOK
    <3>2. CASE OperatorEnable(f)
      <4>1. /\ cpa' \in [Files -> AuthFile]
            /\ holder' \in [Files -> {"none", "worker", "operator"}]
        BY <1>0, <3>2, PatchType DEF OperatorEnable
      <4> QED BY <1>0, <3>2, <4>1 DEF TypeOK, OperatorEnable, workerVars
    <3>3. CASE OperatorDisable(f)
      <4> DEFINE new == [cpa[f] EXCEPT !.disabled = TRUE]
      <4>1. new \in AuthFile  BY <3>1 DEF AuthFile
      <4>2. cpa' = [cpa EXCEPT ![f] = new]  BY <3>3 DEF OperatorDisable
      <4> HIDE DEF new
      <4>3. cpa' \in [Files -> AuthFile]  BY <1>0, <4>1, <4>2 DEF TypeOK
      <4> QED BY <1>0, <3>3, <4>3 DEF TypeOK, OperatorDisable, workerVars
    <3>4. CASE OperatorDelete(f)
      <4> DEFINE new == [cpa[f] EXCEPT !.present = FALSE, !.disabled = FALSE]
      <4>1. new \in AuthFile  BY <3>1 DEF AuthFile
      <4>2. cpa' = [cpa EXCEPT ![f] = new]  BY <3>4 DEF OperatorDelete
      <4> HIDE DEF new
      <4>3. cpa' \in [Files -> AuthFile]  BY <1>0, <4>1, <4>2 DEF TypeOK
      <4> QED BY <1>0, <3>4, <4>3 DEF TypeOK, OperatorDelete, workerVars
    <3>5. ASSUME NEW idx \in AuthIndex, OperatorUpload(f, idx) PROVE TypeOK'
      <4> DEFINE new == [present |-> TRUE, index |-> idx, disabled |-> FALSE]
      <4>1. new \in AuthFile  BY DEF AuthFile
      <4>2. cpa' = [cpa EXCEPT ![f] = new]  BY <3>5 DEF OperatorUpload
      <4> HIDE DEF new
      <4>3. cpa' \in [Files -> AuthFile]  BY <1>0, <4>1, <4>2 DEF TypeOK
      <4> QED BY <1>0, <3>5, <4>3 DEF TypeOK, OperatorUpload, workerVars
    <3> QED BY <2>5, <3>2, <3>3, <3>4, <3>5 DEF Operator
  <2>6. CASE UNCHANGED vars  BY <1>0, <2>6 DEF TypeOK, vars
  <2> QED BY <2>1, <2>2, <2>3, <2>4, <2>5, <2>6
<1>6. OneActivePerFile'  BY <1>0, <1>1 DEF OneActivePerFile
<1>7. SweepSnapshots'  BY <1>0, <1>1, <1>2, <1>4, SnapshotsKept
<1> QED BY <1>1, <1>5, <1>6, <1>7 DEF StepOK

LEMMA NextStep == IInv /\ [Next]_vars => StepOK
<1> SUFFICES ASSUME IInv, [Next]_vars PROVE StepOK
  OBVIOUS
<1>1. CASE HandleCandidate  BY <1>1, CandidateStep
<1>2. CASE Tick \/ \E g \in Syncs : UpdateRuntimeConfig(g)
  <2>1. PICK g \in Sweepers : StartSweep(g)
    BY <1>2 DEF Tick, UpdateRuntimeConfig, Sweepers
  <2>2. UNCHANGED <<now, cpa, holder, cooldowns, jobs, cand>> /\ configured' \in BOOLEAN
    BY <1>2 DEF Tick, UpdateRuntimeConfig, IInv, TypeOK
  <2>3. sweep' \in [Sweepers -> Sweep] /\ SweepSnapshots'  BY <2>1, <2>2, StartSweepStep
  <2> QED BY <2>2, <2>3 DEF StepOK, IInv, TypeOK, OneActivePerFile
<1>3. ASSUME NEW g \in Sweepers, RecoverCooldown(g) PROVE StepOK  BY <1>3, RecoverStep
<1> QED BY <1>1, <1>2, <1>3, OtherStep DEF Next, WorkerNext

LEMMA Invariance == Spec => []IInv
<1>1. IInv /\ [Next]_vars => IInv'  BY NextStep DEF StepOK, IInv
<1> QED BY <1>1, InitOK, PTL DEF Spec

(***************************************************************************)
(* The theorems.                                                           *)
(***************************************************************************)

\* The variables keep their types; the candidates' channel its bound.
THEOREM TypeCorrect == Spec => []TypeOK
BY Invariance, PTL DEF IInv

\* UpsertActive keeps one active cooldown per auth file, whatever CPA, the
\* database and the goroutines do.
THEOREM OneActive == Spec => []OneActivePerFile
BY Invariance, PTL DEF IInv

\* What a sweep works on is an outdated copy at worst: a row that had run out
\* and may since have been prolonged or closed.
THEOREM Snapshots == Spec => []SweepSnapshots
BY Invariance, PTL DEF IInv

\* No step reopens a closed cooldown or moves its recovery time.
THEOREM ClosedForGood == Spec => ClosedStaysClosed
<1> DEFINE A == \A i \in DOMAIN cooldowns : cooldowns[i].status # "active" =>
                   /\ cooldowns'[i].status # "active"
                   /\ cooldowns'[i].recoverAt = cooldowns[i].recoverAt
<1>1. IInv /\ [Next]_vars => [A]_vars  BY NextStep DEF StepOK, RowsEvolve
<1>2. Spec => [][A]_vars  BY <1>1, Invariance, PTL DEF Spec
<1> QED BY <1>2 DEF ClosedStaysClosed

(***************************************************************************)
(* Two goroutines may meet on one auth file: the run loop handles a        *)
(* candidate or sweeps, and every start of the collector sweeps beside it. *)
(* As long as no two of them work on one file at a time, a sweep's copies  *)
(* are never out of date.  The theorems below are about the behaviours     *)
(* where that is so at every moment, with any number of goroutines.        *)
(***************************************************************************)

SweepInv ==
    \A g \in Sweepers :
        /\ \A x \in sweep[g].due :
              /\ x.id \in DOMAIN cooldowns
              /\ cooldowns[x.id].status = "active"
              /\ cooldowns[x.id].recoverAt = x.recoverAt
              /\ cooldowns[x.id].index = x.index
        /\ \A x, y \in sweep[g].due : x.id = y.id => x = y

LEMMA RowTypes ==
    ASSUME TypeOK
    PROVE  \A i \in DOMAIN cooldowns :
              /\ i \in 1..Len(cooldowns) /\ cooldowns[i] \in Row
              /\ cooldowns[i].recoverAt \in Nat /\ cooldowns[i].file \in Files
<1>1. \A i \in DOMAIN cooldowns : i \in 1..Len(cooldowns) /\ cooldowns[i] \in Row
  BY LenProperties, ElementOfSeq DEF TypeOK
<1> QED BY <1>1, ConstantsOK DEF Row, Time

\* Past TakeCandidate the run loop holds a candidate.
LEMMA CandHeld ==
    ASSUME TypeOK, HandleCandidate, ~TakeCandidate
    PROVE  cand \in Cand /\ Handles(cand.job.file) /\ cand.job.file \in Files
<1>1. cand.step # "none"
  BY DEF HandleCandidate, FetchBeforeDisable, Disable, Persist, Rollback, LookupActive, Extend
<1>2. cand \in Cand /\ cand # NoCand  BY <1>1 DEF NoCand, TypeOK
<1> QED BY <1>2, CandType DEF Handles

\* UpsertActive leaves every row but one alone; that one is the file's active
\* row from then on.
LEMMA UpsertRows ==
    ASSUME TypeOK, NEW f \in Files, NEW idx \in AuthIndex, NEW t \in Time,
           UpsertActive(f, idx, t)
    PROVE  /\ DOMAIN cooldowns \subseteq DOMAIN cooldowns'
           /\ \E k \in DOMAIN cooldowns' :
                /\ cooldowns'[k].file = f /\ cooldowns'[k].index = idx
                /\ cooldowns'[k].status = "active"
                /\ k \in DOMAIN cooldowns => k \in ActiveRows(f)
                /\ \A i \in DOMAIN cooldowns' \ {k} :
                      i \in DOMAIN cooldowns /\ cooldowns'[i] = cooldowns[i]
<1>1. /\ cooldowns \in Seq(Row) /\ Len(cooldowns) \in Nat
      /\ DOMAIN cooldowns = 1..Len(cooldowns)
  BY LenProperties DEF TypeOK
<1>2. ASSUME NEW i \in ActiveRows(f), cooldowns' = [cooldowns EXCEPT
                 ![i] = ActiveRow(f, idx, Later(cooldowns[i].recoverAt, t))]
      PROVE  /\ DOMAIN cooldowns' = DOMAIN cooldowns
             /\ cooldowns'[i] = ActiveRow(f, idx, Later(cooldowns[i].recoverAt, t))
             /\ \A j \in DOMAIN cooldowns \ {i} : cooldowns'[j] = cooldowns[j]
             /\ i \in DOMAIN cooldowns
  BY <1>2 DEF ActiveRows
<1>3. ASSUME cooldowns' = Append(cooldowns, ActiveRow(f, idx, t))
      PROVE  /\ DOMAIN cooldowns' = 1..(Len(cooldowns) + 1)
             /\ cooldowns'[Len(cooldowns) + 1] = ActiveRow(f, idx, t)
             /\ \A j \in DOMAIN cooldowns : cooldowns'[j] = cooldowns[j]
  <2> DEFINE row == ActiveRow(f, idx, t)
  <2>1. row \in Row  BY DEF Row, ActiveRow
  <2>2. cooldowns' = Append(cooldowns, row)  BY <1>3
  <2>3. cooldowns' \in Seq(Row) /\ Len(cooldowns') = Len(cooldowns) + 1
    BY <1>1, <2>1, <2>2, AppendProperties
  <2> QED BY <1>1, <2>1, <2>2, <2>3, AppendProperties, LenProperties
<1>4. CASE \E i \in ActiveRows(f) : cooldowns' =
              [cooldowns EXCEPT ![i] = ActiveRow(f, idx, Later(cooldowns[i].recoverAt, t))]
  <2>1. PICK i \in ActiveRows(f) : cooldowns' =
           [cooldowns EXCEPT ![i] = ActiveRow(f, idx, Later(cooldowns[i].recoverAt, t))]
    BY <1>4
  <2>2. i \in DOMAIN cooldowns' /\ cooldowns'[i].file = f /\ cooldowns'[i].index = idx
          /\ cooldowns'[i].status = "active"
    BY <1>2, <2>1 DEF ActiveRow
  <2> QED BY <1>2, <2>1, <2>2
<1>5. CASE ActiveRows(f) = {} /\ cooldowns' = Append(cooldowns, ActiveRow(f, idx, t))
  BY <1>1, <1>3, <1>5 DEF ActiveRow
<1> QED BY <1>4, <1>5 DEF UpsertActive

\* Closing a row leaves the other rows alone.
LEMMA ClosedRows ==
    ASSUME TypeOK, NEW id \in DOMAIN cooldowns, NEW s \in {"recovered", "skipped"},
           SetStatus(id, s)
    PROVE  /\ DOMAIN cooldowns' = DOMAIN cooldowns
           /\ \A i \in DOMAIN cooldowns \ {id} : cooldowns'[i] = cooldowns[i]
           /\ \A i \in DOMAIN cooldowns :
                 /\ cooldowns'[i].recoverAt = cooldowns[i].recoverAt
                 /\ cooldowns'[i].file = cooldowns[i].file
                 /\ cooldowns'[i].index = cooldowns[i].index
           /\ \A f : ActiveRows(f)' = ActiveRows(f) \ {id}
<1>1. /\ DOMAIN cooldowns' = DOMAIN cooldowns
      /\ \A i \in DOMAIN cooldowns \ {id} : cooldowns'[i] = cooldowns[i]
      /\ cooldowns'[id] = [cooldowns[id] EXCEPT !.status = s]
  BY DEF SetStatus
<1>2. cooldowns[id] \in Row  BY RowTypes
<1> DEFINE row == [cooldowns[id] EXCEPT !.status = s]
<1>3. /\ row.status = s /\ row.recoverAt = cooldowns[id].recoverAt
      /\ row.file = cooldowns[id].file /\ row.index = cooldowns[id].index
  BY <1>2 DEF Row
<1>4. cooldowns'[id] = row  BY <1>1
<1> HIDE DEF row
<1> QED BY <1>1, <1>3, <1>4 DEF ActiveRows

\* A sweep keeps of its rows what it needs while they stay as they are.
LEMMA CopiesKept ==
    ASSUME SweepInv, SweepsShrink, DOMAIN cooldowns \subseteq DOMAIN cooldowns',
           \A g \in Sweepers : \A x \in sweep'[g].due : cooldowns'[x.id] = cooldowns[x.id]
    PROVE  SweepInv'
<1> SUFFICES ASSUME NEW g \in Sweepers
             PROVE  /\ \A x \in sweep'[g].due :
                          /\ x.id \in DOMAIN cooldowns'
                          /\ cooldowns'[x.id].status = "active"
                          /\ cooldowns'[x.id].recoverAt = x.recoverAt
                          /\ cooldowns'[x.id].index = x.index
                    /\ \A x, y \in sweep'[g].due : x.id = y.id => x = y
  BY DEF SweepInv
<1> QED BY DEF SweepInv, SweepsShrink

\* The rows of a sweep are the only active ones of their files, and have run out.
LEMMA SweptItem ==
    ASSUME IInv, SweepInv, NEW g \in Sweepers, NEW x \in sweep[g].due
    PROVE  /\ x.id \in DOMAIN cooldowns /\ cooldowns[x.id].file = x.file
           /\ cooldowns[x.id].status = "active" /\ cooldowns[x.id].index = x.index
           /\ ActiveRows(x.file) = {x.id} /\ Expired(x.id) /\ x.file \in Files
           /\ WorksOn(g, x.file)
<1>1. /\ x.id \in DOMAIN cooldowns /\ cooldowns[x.id].file = x.file /\ x.recoverAt <= now
      /\ cooldowns[x.id].status = "active" /\ cooldowns[x.id].recoverAt = x.recoverAt
      /\ cooldowns[x.id].index = x.index
  BY DEF SweepInv, IInv, SweepSnapshots
<1>2. ActiveRows(x.file) = {x.id}
  BY <1>1 DEF IInv, OneActivePerFile, ActiveRows
<1>3. x.file \in Files  BY <1>1, RowTypes DEF IInv
<1> QED BY <1>1, <1>2, <1>3 DEF Expired, WorksOn

\* What starts a sweep, which goroutine it is of, and what it leaves alone.
LEMMA Starts ==
    ASSUME IInv, Tick \/ \E g \in Syncs : UpdateRuntimeConfig(g)
    PROVE  /\ UNCHANGED <<now, cpa, holder, cooldowns, cand>>
           /\ \E g \in Sweepers :
                /\ \A h \in Sweepers : h # g => sweep'[h] = sweep[h]
                /\ sweep'[g].due \subseteq ListDue
                /\ sweep'[g].step \in {"none", "fetch"}
                /\ sweep'[g].step = "none" => sweep'[g].due = {}
                /\ g = "loop" => LoopFree
<1>1. CASE Tick
  <2>1. StartSweep("loop") /\ LoopFree /\ "loop" \in Sweepers  BY <1>1 DEF Tick, Sweepers
  <2> DEFINE new == IF ListDue = {} THEN NoSweep ELSE [step |-> "fetch", due |-> ListDue]
  <2>2. /\ new.due \subseteq ListDue /\ new.step \in {"none", "fetch"}
        /\ new.step = "none" => new.due = {}
    BY DEF NoSweep
  <2>3. \A h \in Sweepers : sweep'[h] = IF h = "loop" THEN new ELSE sweep[h]
    BY <2>1 DEF IInv, TypeOK, StartSweep
  <2> HIDE DEF new
  <2> QED BY <1>1, <2>1, <2>2, <2>3 DEF Tick
<1>2. ASSUME NEW g \in Syncs, UpdateRuntimeConfig(g)
      PROVE  /\ UNCHANGED <<now, cpa, holder, cooldowns, cand>>
             /\ g \in Sweepers /\ g # "loop"
             /\ \A h \in Sweepers : h # g => sweep'[h] = sweep[h]
             /\ sweep'[g].due \subseteq ListDue
             /\ sweep'[g].step \in {"none", "fetch"}
             /\ sweep'[g].step = "none" => sweep'[g].due = {}
  <2>1. StartSweep(g) /\ g \in Sweepers /\ g # "loop"
    BY <1>2, ConstantsOK DEF UpdateRuntimeConfig, Sweepers
  <2> DEFINE new == IF ListDue = {} THEN NoSweep ELSE [step |-> "fetch", due |-> ListDue]
  <2>2. /\ new.due \subseteq ListDue /\ new.step \in {"none", "fetch"}
        /\ new.step = "none" => new.due = {}
    BY DEF NoSweep
  <2>3. \A h \in Sweepers : sweep'[h] = IF h = g THEN new ELSE sweep[h]
    BY <2>1 DEF IInv, TypeOK, StartSweep
  <2> HIDE DEF new
  <2> QED BY <1>2, <2>1, <2>2, <2>3 DEF UpdateRuntimeConfig
<1> QED BY <1>1, <1>2

\* A step of a sweep on its current item: what moves, and what does not.
LEMMA Recovers ==
    ASSUME IInv, SweepInv, NEW g \in Sweepers, NEW x \in sweep[g].due,
           FetchBeforeEnable(g, x) \/ Enable(g, x) \/ EnableFails(g, x) \/ Mark(g, x)
    PROVE  /\ UNCHANGED <<now, cand>>
           /\ SweepsShrink
           /\ \A h \in Sweepers : h # g => sweep'[h] = sweep[h]
           /\ \/ /\ Advance(g, x) /\ sweep'[g].step \in {"none", "fetch"}
                 /\ sweep'[g].due = sweep[g].due \ {x}
                 /\ sweep'[g].step = "none" => sweep'[g].due = {}
              \/ \E s \in {"skip", "enable", "mark"} :
                   GoTo(g, s) /\ sweep'[g].step = s /\ sweep'[g].due = sweep[g].due
<1>0. sweep \in [Sweepers -> Sweep]  BY DEF IInv, TypeOK
<1>1. UNCHANGED <<now, cand>>
  BY DEF FetchBeforeEnable, Enable, EnableFails, Mark
<1>2. Advance(g, x) \/ \E s \in {"skip", "enable", "mark"} : GoTo(g, s)
  BY DEF FetchBeforeEnable, Enable, EnableFails, Mark
<1>3. SweepsShrink  BY <1>0, <1>2, AdvanceEffect, GoToEffect
<1>4. ASSUME Advance(g, x)
      PROVE  /\ \A h \in Sweepers : h # g => sweep'[h] = sweep[h]
             /\ sweep'[g].step \in {"none", "fetch"} /\ sweep'[g].due = sweep[g].due \ {x}
             /\ sweep'[g].step = "none" => sweep'[g].due = {}
  <2> DEFINE rest == sweep[g].due \ {x}
             new == IF rest = {} THEN NoSweep ELSE [step |-> "fetch", due |-> rest]
  <2>1. /\ new.due = rest /\ new.step \in {"none", "fetch"}
        /\ new.step = "none" => new.due = {}
    BY DEF NoSweep
  <2>2. sweep' = [sweep EXCEPT ![g] = new]  BY <1>4 DEF Advance
  <2> HIDE DEF new
  <2> QED BY <1>0, <2>1, <2>2
<1>5. ASSUME NEW s \in {"skip", "enable", "mark"}, GoTo(g, s)
      PROVE  /\ \A h \in Sweepers : h # g => sweep'[h] = sweep[h]
             /\ sweep'[g].step = s /\ sweep'[g].due = sweep[g].due
  BY <1>0, <1>5 DEF GoTo, Sweep
<1> QED BY <1>1, <1>2, <1>3, <1>4, <1>5

\* The other steps leave the table and the run loop's candidate alone, or
\* forget the candidate.
LEMMA Others ==
    ASSUME IInv,
           \/ \E f \in Files, idx \in AuthIndex, t \in Time : HandleUsageEvents(f, idx, t)
           \/ \E g \in Syncs : CancelSync(g)
           \/ Clock \/ Restart
           \/ \E f \in Files : Operator(f)
           \/ UNCHANGED vars
    PROVE  /\ UNCHANGED cooldowns /\ now' \in {now, now + 1} /\ SweepsShrink
           /\ \A g \in Sweepers : sweep'[g] = sweep[g] \/ sweep'[g] = NoSweep
           /\ \/ UNCHANGED cand
              \/ Restart /\ cand' = NoCand
           /\ \/ UNCHANGED <<cpa, holder>>
              \/ (\E f \in Files : Operator(f)) /\ UNCHANGED <<now, sweep, cand>>
<1>0. sweep \in [Sweepers -> Sweep]  BY DEF IInv, TypeOK
<1>1. NoSweep \in Sweep /\ NoSweep.due = {}  BY DEF NoSweep, Sweep
<1>2. CASE Restart  BY <1>1, <1>2 DEF Restart, SweepsShrink
<1>3. ASSUME NEW g \in Syncs, CancelSync(g)
      PROVE  /\ SweepsShrink /\ UNCHANGED <<now, cpa, holder, cooldowns, cand>>
             /\ \A h \in Sweepers : sweep'[h] = sweep[h] \/ sweep'[h] = NoSweep
  BY <1>0, <1>1, <1>3 DEF CancelSync, SweepsShrink
<1>4. CASE \/ \E f \in Files, idx \in AuthIndex, t \in Time : HandleUsageEvents(f, idx, t)
           \/ Clock \/ (\E f \in Files : Operator(f)) \/ UNCHANGED vars
  <2>1. /\ UNCHANGED <<sweep, cand, cooldowns>> /\ now' \in {now, now + 1}
        /\ \/ UNCHANGED <<cpa, holder>>
           \/ (\E f \in Files : Operator(f)) /\ UNCHANGED <<now, sweep, cand>>
    BY <1>4 DEF HandleUsageEvents, Clock, Operator, OperatorDisable, OperatorEnable,
                OperatorDelete, OperatorUpload, workerVars, vars
  <2> QED BY <1>0, <2>1 DEF SweepsShrink
<1> QED BY <1>2, <1>3, <1>4

LEMMA SweepStep ==
    ASSUME IInv, SweepInv, OneHandPerFile, [Next]_vars
    PROVE  SweepInv'
<1>0. TypeOK /\ SweepSnapshots /\ sweep \in [Sweepers -> Sweep]
  BY DEF IInv, TypeOK
<1>1. ASSUME UNCHANGED cooldowns, SweepsShrink PROVE SweepInv'
  BY <1>1, CopiesKept
<1>2. CASE TakeCandidate
  <2>1. UNCHANGED <<cooldowns, sweep>>  BY <1>2 DEF TakeCandidate
  <2> QED BY <1>0, <1>1, <2>1 DEF SweepsShrink
\* An upsert is of the candidate's file, which no sweep works on.
<1>3. CASE HandleCandidate /\ ~TakeCandidate
  <2>1. cand \in Cand /\ Handles(cand.job.file) /\ cand.job.file \in Files
    BY <1>0, <1>3, CandHeld
  <2>2. UNCHANGED sweep
    BY <1>3 DEF HandleCandidate, FetchBeforeDisable, Disable, Persist, Rollback,
                LookupActive, Extend
  <2>3. SweepsShrink  BY <1>0, <2>2 DEF SweepsShrink
  <2>4. PICK f \in Files, idx \in AuthIndex, t \in Time :
           f = cand.job.file /\ idx = FirstNonEmpty(cand.job.index, cand.seen)
             /\ t = cand.job.resetAt
    BY <2>1, CandType DEF FirstNonEmpty
  <2>5. CASE UpsertActive(f, idx, t)
    <3>1. PICK k \in DOMAIN cooldowns' :
             /\ k \in DOMAIN cooldowns => k \in ActiveRows(f)
             /\ \A i \in DOMAIN cooldowns' \ {k} : cooldowns'[i] = cooldowns[i]
      BY <1>0, <2>5, UpsertRows
    <3>2. DOMAIN cooldowns \subseteq DOMAIN cooldowns'  BY <1>0, <2>5, UpsertRows
    <3>3. ASSUME NEW g \in Sweepers, NEW x \in sweep[g].due
          PROVE  cooldowns'[x.id] = cooldowns[x.id]
      <4>1. x.id \in DOMAIN cooldowns /\ cooldowns[x.id].file = x.file
              /\ x.file \in Files /\ WorksOn(g, x.file)
        BY SweptItem
      <4>2. x.file # f  BY <2>1, <2>4, <4>1 DEF OneHandPerFile
      <4>3. x.id # k  BY <3>1, <4>1, <4>2 DEF ActiveRows
      <4> QED BY <3>1, <3>2, <4>1, <4>3
    <3> QED BY <2>2, <2>3, <3>2, <3>3, CopiesKept
  <2>6. UNCHANGED cooldowns \/ UpsertActive(f, idx, t)
    BY <1>3, <2>4 DEF HandleCandidate, FetchBeforeDisable, Disable, Persist, Rollback,
                      LookupActive, Extend
  <2> QED BY <1>1, <2>3, <2>5, <2>6
<1>4. CASE Tick \/ \E g \in Syncs : UpdateRuntimeConfig(g)
  <2>1. UNCHANGED cooldowns  BY <1>4, Starts
  <2>2. PICK g \in Sweepers : /\ \A h \in Sweepers : h # g => sweep'[h] = sweep[h]
                              /\ sweep'[g].due \subseteq ListDue
    BY <1>4, Starts
  <2>3. \A x \in ListDue : /\ x.id \in DOMAIN cooldowns
                           /\ cooldowns[x.id].status = "active"
                           /\ cooldowns[x.id].recoverAt = x.recoverAt
    BY <1>0, ListedRows
  <2>4. \A x \in ListDue : cooldowns[x.id].index = x.index
    BY DEF ListDue, ItemOf
  <2>5. \A x, y \in ListDue : x.id = y.id => x = y
    <3>1. \A x \in ListDue : \E i \in DueIds : x = ItemOf(i)  BY DEF ListDue
    <3>2. \A i \in DueIds : ItemOf(i).id = i  BY DEF ItemOf
    <3> QED BY <3>1, <3>2
  <2> SUFFICES ASSUME NEW h \in Sweepers
               PROVE  /\ \A x \in sweep'[h].due :
                            /\ x.id \in DOMAIN cooldowns
                            /\ cooldowns[x.id].status = "active"
                            /\ cooldowns[x.id].recoverAt = x.recoverAt
                            /\ cooldowns[x.id].index = x.index
                      /\ \A x, y \in sweep'[h].due : x.id = y.id => x = y
    BY <2>1 DEF SweepInv
  <2>6. CASE h = g  BY <2>2, <2>3, <2>4, <2>5, <2>6
  <2>7. CASE h # g  BY <2>2, <2>7 DEF SweepInv
  <2> QED BY <2>6, <2>7
\* A mark closes a row that no sweep has left.
<1>5. ASSUME NEW g \in Sweepers, RecoverCooldown(g) PROVE SweepInv'
  <2>1. PICK x \in sweep[g].due :
           FetchBeforeEnable(g, x) \/ Enable(g, x) \/ EnableFails(g, x) \/ Mark(g, x)
    BY <1>5 DEF RecoverCooldown
  <2>2. SweepsShrink  BY <2>1, Recovers
  <2>3. CASE UNCHANGED cooldowns  BY <1>1, <2>2, <2>3
  <2>4. ASSUME NEW s \in {"recovered", "skipped"}, SetStatus(x.id, s), Advance(g, x)
        PROVE  SweepInv'
    <3>1. /\ x.id \in DOMAIN cooldowns /\ cooldowns[x.id].file = x.file
          /\ WorksOn(g, x.file) /\ x.file \in Files
      BY SweptItem
    <3>2. /\ DOMAIN cooldowns' = DOMAIN cooldowns
          /\ \A i \in DOMAIN cooldowns \ {x.id} : cooldowns'[i] = cooldowns[i]
      BY <2>4 DEF SetStatus
    <3>3. x \notin sweep'[g].due
      <4> DEFINE rest == sweep[g].due \ {x}
                 new == IF rest = {} THEN NoSweep ELSE [step |-> "fetch", due |-> rest]
      <4>1. new.due = rest  BY DEF NoSweep
      <4>2. sweep' = [sweep EXCEPT ![g] = new]  BY <2>4 DEF Advance
      <4> HIDE DEF new
      <4> QED BY <1>0, <4>1, <4>2
    <3>4. ASSUME NEW h \in Sweepers, NEW y \in sweep'[h].due
          PROVE  y.id # x.id /\ y.id \in DOMAIN cooldowns
      <4>1. y \in sweep[h].due  BY <2>2 DEF SweepsShrink
      <4>2. y.id \in DOMAIN cooldowns /\ cooldowns[y.id].file = y.file /\ WorksOn(h, y.file)
        BY <4>1, SweptItem
      <4>3. CASE h = g  BY <3>3, <4>1, <4>2, <4>3 DEF SweepInv
      <4>4. CASE h # g
        <5>1. y.file # x.file  BY <3>1, <4>2, <4>4 DEF OneHandPerFile
        <5> QED BY <3>1, <4>2, <5>1
      <4> QED BY <4>3, <4>4
    <3> QED BY <2>2, <3>2, <3>4, CopiesKept
  <2> QED BY <2>1, <2>3, <2>4 DEF FetchBeforeEnable, Enable, EnableFails, Mark
<1>6. CASE \/ \E f \in Files, idx \in AuthIndex, t \in Time : HandleUsageEvents(f, idx, t)
           \/ \E g \in Syncs : CancelSync(g)
           \/ Clock \/ Restart \/ (\E f \in Files : Operator(f)) \/ UNCHANGED vars
  BY <1>1, <1>6, Others
<1> QED BY <1>2, <1>3, <1>4, <1>5, <1>6 DEF Next, WorkerNext

LEMMA SweptInvariance == Spec /\ []OneHandPerFile => [](IInv /\ SweepInv)
<1>1. Init => SweepInv
  BY DEF Init, SweepInv, NoSweep
<1>2. IInv /\ SweepInv /\ OneHandPerFile /\ [Next]_vars => SweepInv'  BY SweepStep
<1> QED BY <1>1, <1>2, Invariance, PTL DEF Spec

\* With nothing but the run loop no two goroutines meet: while it sweeps it
\* handles no candidate.
THEOREM LoopAlone == ASSUME Syncs = {} PROVE Spec => []OneHandPerFile
<1> DEFINE Alone == /\ sweep["loop"].step = "none" => sweep["loop"].due = {}
                    /\ cand # NoCand => sweep["loop"].due = {}
<1>0. Sweepers = {"loop"}  BY DEF Sweepers
<1>1. Init => SweepInv /\ Alone
  BY DEF Init, SweepInv, NoSweep, Sweepers
<1>2. Alone => OneHandPerFile
  BY <1>0 DEF OneHandPerFile, WorksOn, Handles
<1>3. ASSUME IInv, SweepInv, Alone, [Next]_vars PROVE SweepInv' /\ Alone'
  <2>1. SweepInv'  BY <1>2, <1>3, SweepStep
  <2>2. CASE HandleCandidate
    <3>1. UNCHANGED sweep
      BY <2>2 DEF HandleCandidate, TakeCandidate, FetchBeforeDisable, Disable, Persist,
                  Rollback, LookupActive, Extend
    <3>2. sweep["loop"].due = {}
      <4>1. CASE TakeCandidate  BY <1>3, <4>1 DEF TakeCandidate, LoopFree
      <4>2. CASE ~TakeCandidate
        <5>1. cand # NoCand  BY <1>3, <2>2, <4>2, CandHeld DEF IInv, Handles
        <5> QED BY <1>3, <5>1
      <4> QED BY <4>1, <4>2
    <3> QED BY <2>1, <3>1, <3>2
  <2>3. CASE Tick \/ \E g \in Syncs : UpdateRuntimeConfig(g)
    <3>1. /\ UNCHANGED cand /\ cand = NoCand
          /\ sweep'["loop"].step = "none" => sweep'["loop"].due = {}
      BY <1>0, <1>3, <2>3, Starts DEF LoopFree
    <3> QED BY <2>1, <3>1
  <2>4. CASE RecoverCooldown("loop")
    <3>1. PICK x \in sweep["loop"].due :
             \/ FetchBeforeEnable("loop", x) \/ Enable("loop", x)
             \/ EnableFails("loop", x) \/ Mark("loop", x)
      BY <2>4 DEF RecoverCooldown
    <3>2. UNCHANGED cand /\ cand = NoCand /\ "loop" \in Sweepers
      BY <1>3, <3>1 DEF FetchBeforeEnable, Enable, EnableFails, Mark, Sweepers
    <3>3. PICK g \in Sweepers : g = "loop"  BY <3>2
    <3>4. \/ sweep'[g].step = "none" => sweep'[g].due = {}
          \/ sweep'[g].step \in {"skip", "enable", "mark"}
      <4>1. x \in sweep[g].due /\
              (FetchBeforeEnable(g, x) \/ Enable(g, x) \/ EnableFails(g, x) \/ Mark(g, x))
        BY <3>1, <3>3
      <4> QED BY <1>3, <4>1, Recovers
    <3> QED BY <2>1, <3>2, <3>3, <3>4
  <2>5. CASE \/ \E f \in Files, idx \in AuthIndex, t \in Time : HandleUsageEvents(f, idx, t)
             \/ \E g \in Syncs : CancelSync(g)
             \/ Clock \/ Restart \/ (\E f \in Files : Operator(f)) \/ UNCHANGED vars
    <3>1. sweep'["loop"] = sweep["loop"] \/ sweep'["loop"] = NoSweep
      BY <1>0, <1>3, <2>5, Others
    <3>2. UNCHANGED cand \/ cand' = NoCand  BY <1>3, <2>5, Others
    <3> QED BY <1>3, <2>1, <3>1, <3>2 DEF NoSweep
  <2> QED BY <1>0, <1>3, <2>2, <2>3, <2>4, <2>5 DEF Next, WorkerNext
<1> QED BY <1>1, <1>2, <1>3, Invariance, PTL DEF Spec

\* Recovery enables a file only while it has an active cooldown and only when
\* that cooldown has run out, however many goroutines sweep, however often the
\* process restarts and whichever calls fail, unless two goroutines meet on one
\* file.
THEOREM EnabledInTime == Spec /\ []OneHandPerFile => EnableOnlyWhenDue
<1> DEFINE A == \A f \in Files : EnabledByRecovery(f) =>
                   /\ ActiveRows(f) # {}
                   /\ \A i \in ActiveRows(f) : Expired(i)
<1>1. IInv /\ SweepInv => A
  <2> SUFFICES ASSUME IInv, SweepInv, NEW f \in Files, NEW g \in Sweepers,
                      NEW x \in sweep[g].due, x.file = f
               PROVE  /\ ActiveRows(f) # {}
                      /\ \A i \in ActiveRows(f) : Expired(i)
    BY DEF EnabledByRecovery
  <2> QED BY SweptItem
<1>2. Spec /\ []OneHandPerFile => [][A]_vars  BY <1>1, SweptInvariance, PTL
<1> QED BY <1>2 DEF EnableOnlyWhenDue

(***************************************************************************)
(* The refinement: the table, read as one hold per file, is what           *)
(* AccountHold promises.  An upsert is a hold, a mark lifts one, the clock *)
(* is the clock, and no other step is seen.                                *)
(***************************************************************************)

HoldStep == [Abstract!Next]_<<now, [f \in Files |-> Until(f)]>>

\* A file's hold is the recovery time of its active row, if it has one.
LEMMA HoldOfRow ==
    /\ OneActivePerFile =>
         \A f : /\ ActiveRows(f) = {} => Until(f) = 0
                /\ \A i \in ActiveRows(f) : Until(f) = cooldowns[i].recoverAt
    /\ OneActivePerFile' =>
         \A f : /\ ActiveRows(f)' = {} => Until(f)' = 0
                /\ \A i \in ActiveRows(f)' : Until(f)' = cooldowns'[i].recoverAt
<1>1. ASSUME OneActivePerFile, NEW f
      PROVE  /\ ActiveRows(f) = {} => Until(f) = 0
             /\ \A i \in ActiveRows(f) : Until(f) = cooldowns[i].recoverAt
  <2>1. \A i, j \in ActiveRows(f) : i = j
    BY <1>1 DEF OneActivePerFile, ActiveRows
  <2> QED BY <2>1 DEF Until
<1>2. ASSUME OneActivePerFile', NEW f
      PROVE  /\ ActiveRows(f)' = {} => Until(f)' = 0
             /\ \A i \in ActiveRows(f)' : Until(f)' = cooldowns'[i].recoverAt
  <2>1. \A i, j \in ActiveRows(f)' : i = j
    BY <1>2 DEF OneActivePerFile, ActiveRows
  <2> QED BY <2>1 DEF Until
<1> QED BY <1>1, <1>2

LEMMA SameHolds ==
    ASSUME UNCHANGED cooldowns, now' \in {now, now + 1}
    PROVE  HoldStep
<1>1. \A f \in Files : Until(f)' = Until(f)  BY DEF Until, ActiveRows
<1>2. [f \in Files |-> Until(f)]' = [f \in Files |-> Until(f)]  BY <1>1
<1> QED BY <1>2 DEF HoldStep, Abstract!Next, Abstract!Clock

\* An upsert places a hold, or prolongs it.
LEMMA UpsertHolds ==
    ASSUME TypeOK, OneActivePerFile, OneActivePerFile', NEW f \in Files, NEW idx \in AuthIndex,
           NEW t \in Time, UpsertActive(f, idx, t), UNCHANGED now
    PROVE  HoldStep
<1> DEFINE n == Len(cooldowns)
           hold == [g \in Files |-> Until(g)]
<1>1. n \in Nat /\ DOMAIN cooldowns = 1..n /\ \A i \in 1..n : cooldowns[i] \in Row
  BY LenProperties, ElementOfSeq DEF TypeOK
<1>2. t \in 1..MaxTime /\ t \in Nat /\ t > 0  BY ConstantsOK DEF Time
<1>3. SUFFICES /\ \A g \in Files : g # f => Until(g)' = Until(g)
               /\ Until(f)' = IF Until(f) >= t THEN Until(f) ELSE t
  <2>1. hold' = [hold EXCEPT ![f] = IF hold[f] >= t THEN hold[f] ELSE t]  BY <1>3
  <2> QED BY <1>2, <2>1 DEF HoldStep, Abstract!Next, Abstract!Hold
<1>4. ASSUME NEW i \in ActiveRows(f), cooldowns' = [cooldowns EXCEPT
                 ![i] = ActiveRow(f, idx, Later(cooldowns[i].recoverAt, t))]
      PROVE  /\ \A g \in Files : g # f => Until(g)' = Until(g)
             /\ Until(f)' = IF Until(f) >= t THEN Until(f) ELSE t
  <2> DEFINE row == ActiveRow(f, idx, Later(cooldowns[i].recoverAt, t))
  <2>1. i \in 1..n /\ cooldowns[i].file = f /\ cooldowns[i].status = "active"
    BY <1>1 DEF ActiveRows
  <2>2. /\ row.file = f /\ row.status = "active"
        /\ row.recoverAt = IF cooldowns[i].recoverAt >= t THEN cooldowns[i].recoverAt ELSE t
    BY DEF ActiveRow, Later
  <2>3. cooldowns' = [cooldowns EXCEPT ![i] = row]  BY <1>4
  <2> HIDE DEF row
  <2>4. DOMAIN cooldowns' = 1..n /\ \A j \in 1..n : cooldowns'[j] = IF j = i THEN row ELSE cooldowns[j]
    BY <1>1, <2>3
  <2>5. \A g : ActiveRows(g)' = ActiveRows(g)
    BY <1>1, <2>1, <2>2, <2>4 DEF ActiveRows
  <2>6. Until(f)' = row.recoverAt /\ Until(f) = cooldowns[i].recoverAt
    BY <1>4, <2>1, <2>4, <2>5, HoldOfRow
  <2>7. ASSUME NEW g \in Files, g # f PROVE Until(g)' = Until(g)
    <3>1. \A j \in ActiveRows(g) : j # i /\ j \in 1..n  BY <1>1, <2>1, <2>7 DEF ActiveRows
    <3>2. CASE ActiveRows(g) = {}  BY <2>5, <3>2, HoldOfRow
    <3>3. ASSUME NEW j \in ActiveRows(g) PROVE Until(g)' = Until(g)
      <4>1. cooldowns'[j] = cooldowns[j]  BY <2>4, <3>1
      <4> QED BY <2>5, <4>1, HoldOfRow
    <3> QED BY <3>2, <3>3
  <2> QED BY <2>2, <2>6, <2>7
<1>5. ASSUME ActiveRows(f) = {}, cooldowns' = Append(cooldowns, ActiveRow(f, idx, t))
      PROVE  /\ \A g \in Files : g # f => Until(g)' = Until(g)
             /\ Until(f)' = IF Until(f) >= t THEN Until(f) ELSE t
  <2> DEFINE row == ActiveRow(f, idx, t)
  <2>1. row \in Row /\ row.file = f /\ row.status = "active" /\ row.recoverAt = t
    BY DEF Row, ActiveRow
  <2>2. cooldowns' = Append(cooldowns, row)  BY <1>5
  <2> HIDE DEF row
  <2>3. /\ cooldowns' \in Seq(Row) /\ Len(cooldowns') = n + 1
        /\ \A j \in 1..n : cooldowns'[j] = cooldowns[j]
        /\ cooldowns'[n + 1] = row
    BY <2>1, <2>2, AppendProperties DEF TypeOK
  <2>4. DOMAIN cooldowns' = 1..(n + 1)  BY <2>3, LenProperties
  <2>5. n + 1 \in ActiveRows(f)'  BY <1>1, <2>1, <2>3, <2>4 DEF ActiveRows
  <2>6. Until(f)' = t /\ Until(f) = 0  BY <1>5, <2>1, <2>3, <2>5, HoldOfRow
  <2>7. ASSUME NEW g \in Files, g # f PROVE Until(g)' = Until(g)
    <3>1. ActiveRows(g)' = ActiveRows(g) /\ ActiveRows(g) \subseteq 1..n
      BY <1>1, <2>1, <2>3, <2>4, <2>7 DEF ActiveRows
    <3>2. CASE ActiveRows(g) = {}  BY <3>1, <3>2, HoldOfRow
    <3>3. ASSUME NEW j \in ActiveRows(g) PROVE Until(g)' = Until(g)
      <4>1. cooldowns'[j] = cooldowns[j]  BY <2>3, <3>1
      <4> QED BY <3>1, <4>1, HoldOfRow
    <3> QED BY <3>2, <3>3
  <2> QED BY <1>2, <2>6, <2>7
<1> QED BY <1>4, <1>5 DEF UpsertActive

\* A mark of a row that has run out lifts its file's hold.
LEMMA MarkLifts ==
    ASSUME TypeOK, OneActivePerFile, OneActivePerFile', UNCHANGED now,
           NEW id \in DOMAIN cooldowns, NEW s \in {"recovered", "skipped"}, SetStatus(id, s),
           cooldowns[id].status = "active", cooldowns[id].recoverAt <= now,
           NEW f \in Files, cooldowns[id].file = f
    PROVE  HoldStep
<1> DEFINE n == Len(cooldowns)
           row == [cooldowns[id] EXCEPT !.status = s]
           hold == [g \in Files |-> Until(g)]
<1>1. n \in Nat /\ DOMAIN cooldowns = 1..n /\ \A i \in 1..n : cooldowns[i] \in Row
  BY LenProperties, ElementOfSeq DEF TypeOK
<1>2. row.file = f /\ row.status # "active" /\ cooldowns[id].recoverAt \in 1..now
  BY <1>1, ConstantsOK DEF Row, Time, TypeOK
<1>3. cooldowns' = [cooldowns EXCEPT ![id] = row]  BY DEF SetStatus
<1> HIDE DEF row
<1>4. /\ DOMAIN cooldowns' = 1..n
      /\ \A j \in 1..n : cooldowns'[j] = IF j = id THEN row ELSE cooldowns[j]
  BY <1>1, <1>3
<1>5. id \in ActiveRows(f)  BY DEF ActiveRows
<1>6. Until(f) = cooldowns[id].recoverAt  BY <1>5, HoldOfRow
<1>7. Until(f)' = 0
  <2>1. \A j \in ActiveRows(f) : j = id  BY <1>5 DEF ActiveRows, OneActivePerFile
  <2>2. ActiveRows(f)' = {}  BY <1>1, <1>2, <1>4, <2>1 DEF ActiveRows
  <2> QED BY <2>2, HoldOfRow
<1>8. ASSUME NEW g \in Files, g # f PROVE Until(g)' = Until(g)
  <2>1. /\ ActiveRows(g)' = ActiveRows(g)
        /\ \A j \in ActiveRows(g) : j \in 1..n /\ j # id
    BY <1>1, <1>2, <1>4, <1>8 DEF ActiveRows
  <2>2. CASE ActiveRows(g) = {}  BY <2>1, <2>2, HoldOfRow
  <2>3. ASSUME NEW j \in ActiveRows(g) PROVE Until(g)' = Until(g)
    <3>1. cooldowns'[j] = cooldowns[j]  BY <1>4, <2>1
    <3> QED BY <2>1, <3>1, HoldOfRow
  <2> QED BY <2>2, <2>3
<1>9. hold' = [hold EXCEPT ![f] = 0]  BY <1>7, <1>8
<1>10. hold[f] \in 1..now  BY <1>2, <1>6
<1> QED BY <1>9, <1>10 DEF HoldStep, Abstract!Next, Abstract!Lift

LEMMA NextHold == ASSUME IInv, SweepInv, [Next]_vars PROVE HoldStep
<1>0. TypeOK /\ OneActivePerFile /\ OneActivePerFile'
  BY NextStep DEF StepOK, IInv
<1>1. CASE UNCHANGED cooldowns /\ now' \in {now, now + 1}  BY <1>1, SameHolds
<1>2. CASE Persist \/ Extend
  <2>1. cand \in Cand /\ UNCHANGED now
    <3>1. cand # NoCand  BY <1>2 DEF Persist, Extend, NoCand
    <3> QED BY <1>0, <1>2, <3>1 DEF Persist, Extend, TypeOK
  <2>2. FirstNonEmpty(cand.job.index, cand.seen) \in AuthIndex
    BY <2>1, CandType DEF FirstNonEmpty
  <2>3. CASE UpsertActive(cand.job.file, FirstNonEmpty(cand.job.index, cand.seen),
                          cand.job.resetAt)
    <3>1. PICK f \in Files, idx \in AuthIndex, t \in Time :
             /\ f = cand.job.file /\ t = cand.job.resetAt
             /\ idx = FirstNonEmpty(cand.job.index, cand.seen)
      BY <2>1, <2>2, CandType
    <3>2. UpsertActive(f, idx, t)  BY <2>3, <3>1
    <3> QED BY <1>0, <2>1, <3>2, UpsertHolds
  <2>4. CASE UNCHANGED cooldowns  BY <2>1, <2>4, <1>1
  <2> QED BY <1>2, <2>3, <2>4 DEF Persist, Extend
<1>3. ASSUME NEW g \in Sweepers, RecoverCooldown(g) PROVE HoldStep
  <2>1. PICK x \in sweep[g].due :
           FetchBeforeEnable(g, x) \/ Enable(g, x) \/ EnableFails(g, x) \/ Mark(g, x)
    BY <1>3 DEF RecoverCooldown
  <2>2. UNCHANGED now
    BY <2>1 DEF FetchBeforeEnable, Enable, EnableFails, Mark
  <2>3. PICK id \in DOMAIN cooldowns, f \in Files :
           /\ id = x.id /\ f = cooldowns[id].file
           /\ cooldowns[id].status = "active" /\ cooldowns[id].recoverAt <= now
    BY SweptItem DEF Expired
  <2>4. ASSUME NEW s \in {"recovered", "skipped"}, SetStatus(x.id, s) PROVE HoldStep
    <3>1. SetStatus(id, s)  BY <2>3, <2>4
    <3> QED BY <1>0, <2>2, <2>3, <3>1, MarkLifts
  <2>5. CASE UNCHANGED cooldowns  BY <2>2, <2>5, <1>1
  <2> QED BY <2>1, <2>4, <2>5 DEF FetchBeforeEnable, Enable, EnableFails, Mark
\* No other step touches the table.
<1>4. CASE \/ TakeCandidate \/ FetchBeforeDisable \/ Disable \/ Rollback \/ LookupActive
           \/ Tick \/ \E g \in Syncs : UpdateRuntimeConfig(g)
  BY <1>1, <1>4 DEF TakeCandidate, FetchBeforeDisable, Disable, Rollback, LookupActive,
      Tick, UpdateRuntimeConfig
<1>5. CASE \/ \E f \in Files, idx \in AuthIndex, t \in Time : HandleUsageEvents(f, idx, t)
           \/ \E g \in Syncs : CancelSync(g)
           \/ Clock \/ Restart \/ (\E f \in Files : Operator(f)) \/ UNCHANGED vars
  BY <1>1, <1>5, Others
<1> QED BY <1>2, <1>3, <1>4, <1>5 DEF Next, WorkerNext, HandleCandidate

\* The worker implements a hold per file that is only prolonged, and lifted
\* only when it has run out, unless two goroutines meet on one file.
THEOREM Implements == Spec /\ []OneHandPerFile => ImplementsHold
<1>1. Init => Abstract!Init
  <2> SUFFICES ASSUME Init PROVE Abstract!Init
    OBVIOUS
  <2>1. DOMAIN cooldowns = {}  BY DEF Init
  <2>2. \A f \in Files : Until(f) = 0  BY <2>1 DEF Until, ActiveRows
  <2> QED BY <2>2 DEF Init, Abstract!Init
<1>2. IInv /\ SweepInv /\ [Next]_vars => HoldStep  BY NextHold
<1> QED BY <1>1, <1>2, SweptInvariance, PTL
        DEF Spec, ImplementsHold, Abstract!Spec, Abstract!vars, HoldStep

(***************************************************************************)
(* A hold that runs is in force in CPA, unless two goroutines meet on one  *)
(* file or an operator enables or deletes a file under a hold.  Between    *)
(* the PATCH and the row, and between the lookup and the extension, the    *)
(* file stays disabled because nobody else works on it; and what the run   *)
(* loop disables, or enables again when the row cannot be written, has no  *)
(* row that still runs.                                                    *)
(***************************************************************************)

EffInv ==
    /\ HoldIsEffective
    /\ \A f \in Files : cpa[f].disabled => cpa[f].present
    /\ cand.step \in {"persist", "lookup", "extend"} => cpa[cand.job.file].disabled
    /\ cand.step \in {"disable", "persist", "rollback"} =>
          \A i \in ActiveRows(cand.job.file) : Expired(i)

\* What has run out stays so.
LEMMA StillExpired ==
    ASSUME TypeOK, UNCHANGED cooldowns, now' \in {now, now + 1}
    PROVE  /\ \A f : ActiveRows(f)' = ActiveRows(f)
           /\ \A i \in DOMAIN cooldowns : Expired(i) => Expired(i)'
<1>1. \A f : ActiveRows(f)' = ActiveRows(f)  BY DEF ActiveRows
<1>2. \A i \in DOMAIN cooldowns : cooldowns[i].recoverAt \in Nat  BY RowTypes
<1>3. now \in Nat  BY ConstantsOK DEF TypeOK
<1> QED BY <1>1, <1>2, <1>3 DEF Expired

LEMMA EffQuiet ==
    ASSUME TypeOK, EffInv, UNCHANGED <<cpa, cooldowns>>, now' \in {now, now + 1},
           UNCHANGED cand \/ cand' = NoCand \/ cand'.step = "fetch"
    PROVE  EffInv'
<1>1. \A i \in DOMAIN cooldowns : Expired(i) => Expired(i)'  BY StillExpired
<1>2. \A f : ActiveRows(f)' = ActiveRows(f) /\ ActiveRows(f) \subseteq DOMAIN cooldowns
  BY DEF ActiveRows
<1>3. HoldIsEffective'  BY <1>1, <1>2 DEF EffInv, HoldIsEffective
<1> QED BY <1>1, <1>2, <1>3 DEF EffInv, NoCand

LEMMA EffStep ==
    ASSUME IInv, SweepInv, OneHandPerFile, EffInv, [Next]_vars, [~HoldLifted]_vars
    PROVE  EffInv'
<1>0. /\ TypeOK /\ cand \in {NoCand} \cup Cand
      /\ HoldIsEffective /\ cpa \in [Files -> AuthFile]
      /\ \A f \in Files : cpa[f].disabled => cpa[f].present
      /\ cand = NoCand \/ (cand.job.file \in Files /\ Handles(cand.job.file))
      /\ NoCand.step = "none"
  BY CandType DEF IInv, EffInv, TypeOK, Handles, NoCand
<1>1. ASSUME UNCHANGED <<cpa, cooldowns>>, now' \in {now, now + 1},
             UNCHANGED cand \/ cand' = NoCand \/ cand'.step = "fetch"
      PROVE  EffInv'
  BY <1>0, <1>1, EffQuiet
<1>2. CASE TakeCandidate
  BY <1>1, <1>2 DEF TakeCandidate
<1>3. ASSUME cand \in Cand, HandleCandidate, ~TakeCandidate PROVE EffInv'
  <2> DEFINE f == cand.job.file
  <2>1. f \in Files /\ cand.job.index \in AuthIndex /\ cand.job.resetAt \in Time
          /\ cand.seen \in AuthIndex
    BY <1>3, CandType
  <2>2. UNCHANGED now
    BY <1>3 DEF HandleCandidate, FetchBeforeDisable, Disable, Persist, Rollback,
                LookupActive, Extend
  <2>3. ASSUME UNCHANGED cooldowns
        PROVE  /\ \A g : ActiveRows(g)' = ActiveRows(g)
               /\ \A i \in DOMAIN cooldowns : Expired(i) => Expired(i)'
    BY <1>0, <2>2, <2>3, StillExpired
  <2>4. CASE FetchBeforeDisable
    <3>1. CASE cand' = NoCand  BY <1>1, <2>2, <2>4, <3>1 DEF FetchBeforeDisable
    <3>2. CASE cand' = [cand EXCEPT !.step = IF cpa[f].disabled THEN "lookup" ELSE "disable",
                                    !.seen = cpa[f].index]
      <4>1. /\ cand'.job = cand.job
            /\ cand'.step = IF cpa[f].disabled THEN "lookup" ELSE "disable"
        BY <1>3, <3>2 DEF Cand
      <4>2. UNCHANGED <<cpa, cooldowns>>  BY <2>4 DEF FetchBeforeDisable
      <4>3. HoldIsEffective'
        BY <1>0, <2>3, <4>2 DEF HoldIsEffective, ActiveRows
      <4>4. ~cpa[f].disabled => \A i \in ActiveRows(f) : Expired(i)
        BY <1>0, <2>1 DEF HoldIsEffective
      <4> QED BY <2>3, <4>1, <4>2, <4>3, <4>4 DEF EffInv, ActiveRows
    <3> QED BY <2>4, <3>1, <3>2 DEF FetchBeforeDisable
  <2>5. CASE Disable
    <3>1. /\ cand' = NoCand \/ (cand'.step = "persist" /\ cand'.job = cand.job)
          /\ UNCHANGED cooldowns /\ cand.step = "disable"
      BY <1>3, <2>5 DEF Disable, Cand
    <3>2. CASE PatchDisable(f)
      <4>1. /\ cpa'[f].disabled /\ cpa'[f].present
            /\ \A g \in Files : g # f => cpa'[g] = cpa[g]
        BY <1>0, <2>1, <3>2 DEF PatchDisable, AuthFile
      <4>2. HoldIsEffective'
        BY <1>0, <2>3, <3>1, <4>1 DEF HoldIsEffective, ActiveRows
      <4>3. \A i \in ActiveRows(f) : Expired(i)  BY <3>1 DEF EffInv
      <4>4. \A g \in Files : cpa'[g].disabled => cpa'[g].present  BY <1>0, <4>1
      <4> QED BY <2>3, <3>1, <4>1, <4>2, <4>3, <4>4 DEF EffInv, ActiveRows, NoCand
    <3>3. CASE PatchFails(f) /\ cand' = NoCand
      BY <1>1, <2>2, <3>1, <3>3 DEF PatchFails
    <3> QED BY <2>5, <3>2, <3>3 DEF Disable
  <2>6. ASSUME UpsertActive(f, FirstNonEmpty(cand.job.index, cand.seen), cand.job.resetAt),
               cand' = NoCand, UNCHANGED cpa, cpa[f].disabled
        PROVE  EffInv'
    <3>1. FirstNonEmpty(cand.job.index, cand.seen) \in AuthIndex
      BY <2>1 DEF FirstNonEmpty
    <3>2. PICK k \in DOMAIN cooldowns' :
             /\ cooldowns'[k].file = f
             /\ \A i \in DOMAIN cooldowns' \ {k} :
                   i \in DOMAIN cooldowns /\ cooldowns'[i] = cooldowns[i]
      <4> HIDE DEF f
      <4> QED BY <1>0, <2>1, <2>6, <3>1, UpsertRows
    <3>3. ASSUME NEW g \in Files, NEW i \in ActiveRows(g)'
          PROVE  Expired(i)' \/ cpa'[g].disabled
      <4>1. i \in DOMAIN cooldowns' /\ cooldowns'[i].file = g /\ cooldowns'[i].status = "active"
        BY <3>3 DEF ActiveRows
      <4>2. CASE i = k  BY <2>6, <3>2, <4>1, <4>2
      <4>3. CASE i # k
        <5>1. i \in ActiveRows(g) /\ cooldowns'[i] = cooldowns[i]
          BY <3>2, <4>1, <4>3 DEF ActiveRows
        <5> QED BY <1>0, <2>2, <2>6, <5>1 DEF HoldIsEffective, Expired
      <4> QED BY <4>2, <4>3
    <3> QED BY <2>6, <3>3 DEF EffInv, HoldIsEffective, NoCand
  <2>7. CASE Persist
    <3>1. cand.step = "persist" /\ UNCHANGED cpa  BY <2>7 DEF Persist
    <3>2. CASE UpsertActive(f, FirstNonEmpty(cand.job.index, cand.seen), cand.job.resetAt)
                 /\ cand' = NoCand
      BY <2>6, <3>1, <3>2 DEF EffInv
    <3>3. CASE cand' = [cand EXCEPT !.step = "rollback"] /\ UNCHANGED cooldowns
      <4>1. cand'.job = cand.job /\ cand'.step = "rollback"  BY <1>3, <3>3 DEF Cand
      <4>2. HoldIsEffective'
        BY <1>0, <2>3, <3>1, <3>3 DEF HoldIsEffective, ActiveRows
      <4> QED BY <2>3, <3>1, <3>3, <4>1, <4>2 DEF EffInv, ActiveRows
    <3> QED BY <2>7, <3>2, <3>3 DEF Persist
  <2>8. CASE Rollback
    <3>1. cand' = NoCand /\ UNCHANGED cooldowns /\ \A i \in ActiveRows(f) : Expired(i)
      BY <2>8 DEF Rollback, EffInv
    <3>2. CASE PatchFails(f)  BY <1>1, <2>2, <3>1, <3>2 DEF PatchFails
    <3>3. CASE PatchEnable(f)
      <4>1. cpa'[f].present /\ \A g \in Files : g # f => cpa'[g] = cpa[g]
        BY <1>0, <2>1, <3>3 DEF PatchEnable, AuthFile
      <4>2. HoldIsEffective'
        BY <1>0, <2>3, <3>1, <4>1 DEF HoldIsEffective, ActiveRows
      <4>3. \A g \in Files : cpa'[g].disabled => cpa'[g].present  BY <1>0, <4>1
      <4> QED BY <3>1, <4>2, <4>3 DEF EffInv, NoCand
    <3> QED BY <2>8, <3>2, <3>3 DEF Rollback
  <2>9. CASE LookupActive
    <3>1. UNCHANGED <<cpa, cooldowns>> /\ cpa[f].disabled
      BY <2>9 DEF LookupActive, EffInv
    <3>2. cand' = NoCand \/ (cand'.step = "extend" /\ cand'.job = cand.job)
      BY <1>3, <2>9 DEF LookupActive, Cand
    <3>3. HoldIsEffective'
      BY <1>0, <2>3, <3>1 DEF HoldIsEffective, ActiveRows
    <3> QED BY <3>1, <3>2, <3>3 DEF EffInv, NoCand
  <2>10. CASE Extend
    <3>1. cpa[f].disabled /\ cand' = NoCand /\ UNCHANGED cpa  BY <2>10 DEF Extend, EffInv
    <3> QED BY <1>1, <2>2, <2>6, <2>10, <3>1 DEF Extend
  <2> QED BY <1>3, <2>4, <2>5, <2>7, <2>8, <2>9, <2>10 DEF HandleCandidate
<1>4. ASSUME NEW g \in Sweepers, RecoverCooldown(g) PROVE EffInv'
  <2>1. PICK x \in sweep[g].due :
           FetchBeforeEnable(g, x) \/ Enable(g, x) \/ EnableFails(g, x) \/ Mark(g, x)
    BY <1>4 DEF RecoverCooldown
  <2>2. UNCHANGED <<now, cand>>
    BY <2>1 DEF FetchBeforeEnable, Enable, EnableFails, Mark
  <2>3. /\ x.id \in DOMAIN cooldowns /\ ActiveRows(x.file) = {x.id} /\ Expired(x.id)
        /\ x.file \in Files /\ WorksOn(g, x.file)
    BY SweptItem
  <2>4. CASE UNCHANGED <<cpa, cooldowns>>  BY <1>1, <2>2, <2>4
  <2>5. CASE Enable(g, x)
    <3>1. UNCHANGED cooldowns /\ cpa'[x.file].present
            /\ \A f \in Files : f # x.file => cpa'[f] = cpa[f]
      BY <1>0, <2>3, <2>5 DEF Enable, PatchEnable, AuthFile
    <3>2. /\ \A f : ActiveRows(f)' = ActiveRows(f)
          /\ \A i \in DOMAIN cooldowns : Expired(i) => Expired(i)'
      BY <1>0, <2>2, <3>1, StillExpired
    <3>3. HoldIsEffective'
      BY <1>0, <2>3, <3>1, <3>2 DEF HoldIsEffective, ActiveRows
    <3>4. cand = NoCand \/ cand.job.file # x.file  BY <1>0, <2>3 DEF OneHandPerFile
    <3> QED BY <1>0, <2>2, <3>1, <3>2, <3>3, <3>4 DEF EffInv, ActiveRows
  <2>6. CASE UNCHANGED cpa /\ \E s \in {"recovered", "skipped"} : SetStatus(x.id, s)
    <3>1. /\ DOMAIN cooldowns' = DOMAIN cooldowns
          /\ \A f : ActiveRows(f)' \subseteq ActiveRows(f)
          /\ \A i \in DOMAIN cooldowns : cooldowns'[i].recoverAt = cooldowns[i].recoverAt
      <4>1. PICK id \in DOMAIN cooldowns, s \in {"recovered", "skipped"} : SetStatus(id, s)
        BY <2>3, <2>6
      <4> QED BY <1>0, <4>1, ClosedRows
    <3>2. HoldIsEffective'
      BY <1>0, <2>2, <2>6, <3>1 DEF HoldIsEffective, ActiveRows, Expired
    <3> QED BY <1>0, <2>2, <2>6, <3>1, <3>2 DEF EffInv, ActiveRows, Expired
  <2> QED BY <2>1, <2>4, <2>5, <2>6 DEF FetchBeforeEnable, EnableFails, Mark, PatchFails
<1>5. CASE Tick \/ \E g \in Syncs : UpdateRuntimeConfig(g)
  BY <1>1, <1>5 DEF Tick, UpdateRuntimeConfig
<1>6. ASSUME NEW f \in Files, Operator(f), ~HoldLifted PROVE EffInv'
  <2>1. UNCHANGED <<now, cooldowns, cand>>
    BY <1>6 DEF Operator, OperatorDisable, OperatorEnable, OperatorDelete, OperatorUpload,
                workerVars
  <2>2. /\ \A g : ActiveRows(g)' = ActiveRows(g)
        /\ \A i \in DOMAIN cooldowns : Expired(i) => Expired(i)'
    BY <1>0, <2>1, StillExpired
  <2>3. \A g \in Files : g # f => cpa'[g] = cpa[g]
    BY <1>0, <1>6 DEF Operator, OperatorDisable, OperatorEnable, OperatorDelete,
                      OperatorUpload, PatchEnable
  <2>4. ASSUME cpa'[f].disabled => cpa'[f].present,
               \/ cpa'[f].disabled
               \/ /\ \A i \in ActiveRows(f) : Expired(i)
                  /\ cand.step \in {"persist", "lookup", "extend"} => cand.job.file # f
        PROVE  EffInv'
    <3>1. HoldIsEffective'
      BY <1>0, <2>2, <2>3, <2>4 DEF HoldIsEffective, ActiveRows
    <3> QED BY <1>0, <2>1, <2>2, <2>3, <2>4, <3>1 DEF EffInv, ActiveRows
  <2>5. CASE OperatorDisable(f)
    BY <1>0, <2>4, <2>5 DEF OperatorDisable, AuthFile
  <2>6. CASE OperatorEnable(f) \/ OperatorDelete(f)
    <3>1. ~Handles(f) /\ \A i \in ActiveRows(f) : Expired(i)
      BY <1>6, <2>6 DEF HoldLifted, UnderHold
    <3>2. ~cpa'[f].disabled
      BY <1>0, <2>6 DEF OperatorEnable, OperatorDelete, PatchEnable, AuthFile
    <3> QED BY <1>0, <2>4, <3>1, <3>2
  <2>7. ASSUME NEW idx \in AuthIndex, OperatorUpload(f, idx) PROVE EffInv'
    <3>1. ~cpa[f].disabled /\ ~cpa'[f].disabled
      BY <1>0, <2>7 DEF OperatorUpload
    <3>2. \A i \in ActiveRows(f) : Expired(i)  BY <1>0, <3>1 DEF HoldIsEffective
    <3> QED BY <2>4, <3>1, <3>2 DEF EffInv
  <2> QED BY <1>6, <2>5, <2>6, <2>7 DEF Operator
\* No other step touches CPA's files or the table.
<1>7. ASSUME \/ \E f \in Files, idx \in AuthIndex, t \in Time : HandleUsageEvents(f, idx, t)
             \/ \E g \in Syncs : CancelSync(g)
             \/ Clock \/ Restart \/ UNCHANGED vars
      PROVE  EffInv'
  <2>1. /\ UNCHANGED <<cpa, cooldowns>> /\ now' \in {now, now + 1}
        /\ UNCHANGED cand \/ cand' = NoCand
    BY <1>7 DEF HandleUsageEvents, CancelSync, Clock, Restart, workerVars, vars
  <2> QED BY <1>1, <2>1
<1>8. HandleCandidate /\ ~TakeCandidate => cand \in Cand  BY <1>0, CandHeld
<1> QED BY <1>2, <1>3, <1>4, <1>5, <1>6, <1>7, <1>8 DEF Next, WorkerNext

\* A cooldown that has not run out keeps its file disabled, between any two
\* calls, with any number of sweeps and through failing calls, lost answers and
\* restarts, unless two goroutines meet on one file or an operator enables or
\* deletes a file the worker holds.
THEOREM HoldsAreEffective ==
    Spec /\ []OneHandPerFile /\ [][~HoldLifted]_vars => []HoldIsEffective
<1>1. Init => EffInv
  <2> SUFFICES ASSUME Init PROVE EffInv
    OBVIOUS
  <2>1. DOMAIN cooldowns = {} /\ cand.step = "none"  BY DEF Init, NoCand
  <2>2. \A f \in Files : cpa[f].disabled = FALSE
    <3>1. \A f \in Files : cpa[f] \in [present : {TRUE}, index : AuthIndex, disabled : {FALSE}]
      BY DEF Init
    <3> QED BY <3>1
  <2> QED BY <2>1, <2>2 DEF EffInv, HoldIsEffective, ActiveRows
<1>2. IInv /\ SweepInv /\ OneHandPerFile /\ EffInv /\ [Next]_vars /\ [~HoldLifted]_vars
        => EffInv'
  BY EffStep
<1>3. EffInv => HoldIsEffective  BY DEF EffInv
<1> QED BY <1>1, <1>2, <1>3, SweptInvariance, PTL DEF Spec

(***************************************************************************)
(* "Temporary disables are persisted": every disable of the worker has a   *)
(* row that will end it, unless two goroutines meet on one file or one of  *)
(* four events cuts handleCandidate short.  Without them a row carries the *)
(* auth index of the file it holds, so the sweep finds every file the      *)
(* worker disabled and closes a row only once the file is not the worker's *)
(* any more.                                                               *)
(***************************************************************************)

\* What the run loop knows of its candidate is what CPA holds.
CandKnown ==
    /\ cand.seen = cpa[cand.job.file].index
    /\ cand.job.index \in {NoIndex, cand.seen}

\* A file the worker disabled is there, and has a row that finds it.
FileOwned(f) ==
    holder[f] = "worker" =>
        /\ cpa[f].present /\ cpa[f].disabled
        /\ BeingDisabled(f) \/ \E i \in ActiveRows(f) : cooldowns[i].index = cpa[f].index

CandOwned ==
    /\ cand.step = "disable" => cpa[cand.job.file].present /\ CandKnown
    /\ cand.step \in {"persist", "rollback", "lookup", "extend"} =>
          (holder[cand.job.file] = "worker" => CandKnown)

SweepsOwned ==
    \A g \in Sweepers : sweep[g].step \in {"mark", "skip"} =>
        \A x \in sweep[g].due : IsCurrent(g, x) => holder[x.file] # "worker"

OwnInv == (\A f \in Files : FileOwned(f)) /\ CandOwned /\ SweepsOwned

\* What a step that leaves CPA's files and the table alone must keep.
LEMMA OwnQuiet ==
    ASSUME OwnInv, UNCHANGED <<cpa, holder, cooldowns>>,
           \/ UNCHANGED cand
           \/ cand'.step \in {"none", "fetch"} /\ cand.step \notin {"persist", "rollback"},
           \A g \in Sweepers : sweep'[g] = sweep[g] \/ sweep'[g].step \notin {"mark", "skip"}
    PROVE  OwnInv'
<1>1. \A f : ActiveRows(f)' = ActiveRows(f)  BY DEF ActiveRows
<1>2. \A f \in Files : BeingDisabled(f) => BeingDisabled(f)'
  BY DEF BeingDisabled
<1>3. \A f \in Files : FileOwned(f)'  BY <1>1, <1>2 DEF OwnInv, FileOwned
<1>4. SweepsOwned'  BY DEF OwnInv, SweepsOwned, IsCurrent
<1>5. CandOwned'  BY DEF OwnInv, CandOwned, CandKnown
<1> QED BY <1>3, <1>4, <1>5 DEF OwnInv

\* The run loop's part: only its candidate's file and that file's row move, and
\* no sweep works on that file.
LEMMA OwnCandidate ==
    ASSUME IInv, SweepInv, OneHandPerFile, OwnInv, HandleCandidate, ~TakeCandidate, ~CutShort
    PROVE  OwnInv'
<1>0. /\ TypeOK /\ cpa \in [Files -> AuthFile] /\ sweep \in [Sweepers -> Sweep]
      /\ holder \in [Files -> {"none", "worker", "operator"}]
  BY DEF IInv, TypeOK
<1>1. cand \in Cand /\ Handles(cand.job.file) /\ cand.job.file \in Files
  BY <1>0, CandHeld
<1>2. PICK f \in Files : f = cand.job.file
  BY <1>1
<1>3. /\ cand.job.index \in AuthIndex /\ cand.job.resetAt \in Time /\ cand.seen \in AuthIndex
  BY <1>1, CandType
<1>4. UNCHANGED sweep
  BY DEF HandleCandidate, FetchBeforeDisable, Disable, Persist, Rollback, LookupActive, Extend
<1>5. \A g \in Sweepers : \A x \in sweep[g].due : x.file \in Files /\ x.file # f
  BY <1>1, <1>2, SweptItem DEF OneHandPerFile
<1>6. FileOwned(f) /\ CandOwned /\ SweepsOwned /\ \A g \in Files : FileOwned(g)
  BY DEF OwnInv
<1>7. ASSUME NEW s, cand' = [cand EXCEPT !.step = s]
      PROVE  cand'.job = cand.job /\ cand'.step = s /\ cand'.seen = cand.seen
  BY <1>1, <1>7 DEF Cand
<1>8. ASSUME NEW s, NEW a, cand' = [cand EXCEPT !.step = s, !.seen = a]
      PROVE  cand'.job = cand.job /\ cand'.step = s /\ cand'.seen = a
  BY <1>1, <1>8 DEF Cand
<1>9. ASSUME \A g \in Files : g # f =>
                /\ cpa'[g] = cpa[g] /\ holder'[g] = holder[g]
                /\ \A i \in ActiveRows(g) :
                      i \in ActiveRows(g)' /\ cooldowns'[i].index = cooldowns[i].index,
             FileOwned(f)', CandOwned'
      PROVE  OwnInv'
  <2>1. \A g \in Files : g # f => ~BeingDisabled(g)  BY <1>2 DEF BeingDisabled
  <2>2. ASSUME NEW g \in Files, g # f PROVE FileOwned(g)'
    BY <1>6, <1>9, <2>1, <2>2 DEF FileOwned
  <2>3. SweepsOwned'  BY <1>4, <1>5, <1>6, <1>9 DEF SweepsOwned, IsCurrent
  <2> QED BY <1>9, <2>2, <2>3 DEF OwnInv
<1>10. ASSUME UNCHANGED cooldowns
       PROVE  \A g : ActiveRows(g)' = ActiveRows(g)
  BY <1>10 DEF ActiveRows
<1>11. NoCand.step = "none"  BY DEF NoCand
<1>12. CASE FetchBeforeDisable
  <2>1. UNCHANGED <<cpa, holder, cooldowns>> /\ ~BeingDisabled(f)
    BY <1>12 DEF FetchBeforeDisable, BeingDisabled
  <2>2. FileOwned(f)'  BY <1>6, <1>10, <2>1 DEF FileOwned
  <2>3. CandOwned'
    <3>1. CASE cand' = NoCand  BY <1>11, <3>1 DEF CandOwned
    <3>2. CASE Found(f, cand.job.index)
                 /\ cand' = [cand EXCEPT !.step = IF cpa[f].disabled THEN "lookup" ELSE "disable",
                                         !.seen = cpa[f].index]
      <4>1. cand'.job = cand.job /\ cand'.seen = cpa[f].index  BY <1>8, <3>2
      <4>2. cpa[f].present /\ cand.job.index \in {NoIndex, cpa[f].index}  BY <3>2 DEF Found
      <4> QED BY <1>2, <2>1, <4>1, <4>2 DEF CandOwned, CandKnown
    <3> QED BY <1>2, <1>12, <3>1, <3>2 DEF FetchBeforeDisable
  <2> QED BY <1>9, <1>10, <2>1, <2>2, <2>3
\* A disable that is seen is about to get its row; one whose answer is lost did
\* not change the file.
<1>13. CASE Disable
  <2>1. UNCHANGED cooldowns /\ cand.step = "disable" /\ ~BeingDisabled(f)
    BY <1>13 DEF Disable, BeingDisabled
  <2>2. CandKnown /\ cpa[f].present  BY <1>2, <1>6, <2>1 DEF CandOwned
  <2>3. CASE UNCHANGED <<cpa, holder>> /\ cand' = NoCand
    <3>1. FileOwned(f)'  BY <1>6, <1>10, <2>1, <2>3 DEF FileOwned
    <3> QED BY <1>9, <1>10, <1>11, <2>1, <2>3, <3>1 DEF CandOwned
  <2>4. CASE PatchDisable(f) /\ cand' = [cand EXCEPT !.step = "persist"]
    <3>1. cand'.job = cand.job /\ cand'.step = "persist" /\ cand'.seen = cand.seen
      BY <1>7, <2>4
    <3>2. /\ cpa'[f].disabled /\ cpa'[f].present /\ cpa'[f].index = cpa[f].index
          /\ \A g \in Files : g # f => cpa'[g] = cpa[g] /\ holder'[g] = holder[g]
      BY <1>0, <2>4 DEF PatchDisable, AuthFile
    <3>3. BeingDisabled(f)'  BY <1>2, <3>1 DEF BeingDisabled
    <3>4. CandOwned'  BY <1>2, <2>2, <3>1, <3>2 DEF CandOwned, CandKnown
    <3>5. FileOwned(f)'  BY <3>2, <3>3 DEF FileOwned
    <3> QED BY <1>9, <1>10, <2>1, <3>2, <3>4, <3>5
  <2>5. CASE PatchDisable(f) /\ cand' = NoCand
    <3>1. cpa' = cpa  BY <1>13, <2>5 DEF CutShort
    <3>2. cpa[f].disabled = TRUE  BY <1>0, <2>5, <3>1 DEF PatchDisable, AuthFile
    <3>3. holder' = holder  BY <1>0, <2>5, <3>2 DEF PatchDisable
    <3> QED BY <2>3, <2>5, <3>1, <3>3
  <2>6. CASE PatchFails(f) /\ cand' = NoCand  BY <2>3, <2>6 DEF PatchFails
  <2> QED BY <1>2, <1>13, <2>4, <2>5, <2>6 DEF Disable
\* The row is written with the index CPA has.
<1>14. ASSUME UpsertActive(f, FirstNonEmpty(cand.job.index, cand.seen), cand.job.resetAt),
              cand' = NoCand, UNCHANGED <<cpa, holder>>, cand.step \in {"persist", "extend"}
       PROVE  OwnInv'
  <2> DEFINE idx == FirstNonEmpty(cand.job.index, cand.seen)
  <2>1. idx \in AuthIndex /\ UpsertActive(f, idx, cand.job.resetAt)
    BY <1>3, <1>14 DEF FirstNonEmpty
  <2>2. holder[f] = "worker" => idx = cpa[f].index
    BY <1>2, <1>6, <1>14 DEF CandOwned, CandKnown, FirstNonEmpty
  <2> HIDE DEF idx
  <2>3. PICK k \in DOMAIN cooldowns' :
           /\ cooldowns'[k].file = f /\ cooldowns'[k].index = idx
           /\ cooldowns'[k].status = "active"
           /\ k \in DOMAIN cooldowns => k \in ActiveRows(f)
           /\ \A i \in DOMAIN cooldowns' \ {k} :
                 i \in DOMAIN cooldowns /\ cooldowns'[i] = cooldowns[i]
    BY <1>0, <1>3, <2>1, UpsertRows
  <2>4. DOMAIN cooldowns \subseteq DOMAIN cooldowns'
    BY <1>0, <1>3, <2>1, UpsertRows
  <2>5. k \in ActiveRows(f)'  BY <2>3 DEF ActiveRows
  <2>6. FileOwned(f)'  BY <1>6, <1>14, <2>2, <2>3, <2>5 DEF FileOwned
  <2>7. ASSUME NEW g \in Files, g # f, NEW i \in ActiveRows(g)
        PROVE  i \in ActiveRows(g)' /\ cooldowns'[i].index = cooldowns[i].index
    <3>1. i \in DOMAIN cooldowns /\ i # k  BY <2>3, <2>7 DEF ActiveRows
    <3> QED BY <2>3, <2>4, <3>1 DEF ActiveRows
  <2> QED BY <1>9, <1>11, <1>14, <2>6, <2>7 DEF CandOwned
<1>15. CASE Persist
  <2>1. ASSUME cand' = [cand EXCEPT !.step = "rollback"], UNCHANGED cooldowns PROVE OwnInv'
    <3>1. cand'.job = cand.job /\ cand'.step = "rollback" /\ cand'.seen = cand.seen
      BY <1>7, <2>1
    <3>2. UNCHANGED <<cpa, holder>> /\ cand.step = "persist"  BY <1>15 DEF Persist
    <3>3. FileOwned(f)'
      BY <1>2, <1>6, <3>1, <3>2 DEF FileOwned, BeingDisabled
    <3>4. CandOwned'  BY <1>6, <3>1, <3>2 DEF CandOwned, CandKnown
    <3> QED BY <1>9, <1>10, <2>1, <3>2, <3>3, <3>4
  <2> QED BY <1>2, <1>14, <1>15, <2>1 DEF Persist
\* After the rollback the file is enabled, or was already.
<1>16. CASE Rollback
  <2>1. cand' = NoCand /\ UNCHANGED cooldowns  BY <1>16 DEF Rollback
  <2>2. holder'[f] # "worker" /\ \A g \in Files : g # f => cpa'[g] = cpa[g] /\ holder'[g] = holder[g]
    <3>1. CASE PatchEnable(f)  BY <1>0, <3>1 DEF PatchEnable
    <3>2. CASE PatchFails(f)
      <4>1. UNCHANGED <<cpa, holder>>  BY <3>2 DEF PatchFails
      <4>2. ~cpa[f].disabled  BY <1>2, <1>16, <4>1 DEF CutShort
      <4> QED BY <1>6, <4>1, <4>2 DEF FileOwned
    <3> QED BY <1>2, <1>16, <3>1, <3>2 DEF Rollback
  <2> QED BY <1>9, <1>10, <1>11, <2>1, <2>2 DEF FileOwned, CandOwned
<1>17. CASE LookupActive
  <2>1. UNCHANGED <<cpa, holder, cooldowns>> /\ ~BeingDisabled(f) /\ cand.step = "lookup"
    BY <1>17 DEF LookupActive, BeingDisabled
  <2>2. FileOwned(f)'  BY <1>6, <1>10, <2>1 DEF FileOwned
  <2>3. ASSUME NEW i \in ActiveRows(f), cooldowns[i].index \in {NoIndex, cand.seen},
               cand' = [cand EXCEPT !.step = "extend",
                           !.seen = FirstNonEmpty(cooldowns[i].index, @)]
        PROVE  CandOwned'
    <3>1. FirstNonEmpty(cooldowns[i].index, cand.seen) = cand.seen
      BY <2>3 DEF FirstNonEmpty
    <3>2. cand' = [cand EXCEPT !.step = "extend", !.seen = cand.seen]
      BY <2>3, <3>1
    <3>3. cand'.job = cand.job /\ cand'.step = "extend" /\ cand'.seen = cand.seen
      BY <1>8, <3>2
    <3> QED BY <1>6, <2>1, <3>3 DEF CandOwned, CandKnown
  <2>4. CandOwned'
    BY <1>2, <1>11, <1>17, <2>3 DEF LookupActive, CandOwned
  <2> QED BY <1>9, <1>10, <2>1, <2>2, <2>4
<1>18. CASE Extend
  <2>1. /\ cand.step = "extend" /\ cand' = NoCand /\ UNCHANGED <<cpa, holder, sweep>>
        /\ cand'.step = "none"
    BY <1>11, <1>18 DEF Extend
  <2>2. CASE UNCHANGED cooldowns  BY <2>1, <2>2, OwnQuiet
  <2> QED BY <1>2, <1>14, <1>18, <2>1, <2>2 DEF Extend
<1> QED BY <1>12, <1>13, <1>15, <1>16, <1>17, <1>18 DEF HandleCandidate

\* A sweep's part: it looks for a file that is the worker's with the index the
\* file has, and finds it.
LEMMA OwnRecover ==
    ASSUME IInv, SweepInv, OneHandPerFile, OwnInv, NEW g \in Sweepers, RecoverCooldown(g)
    PROVE  OwnInv'
<1>0. /\ TypeOK /\ cpa \in [Files -> AuthFile] /\ sweep \in [Sweepers -> Sweep]
      /\ holder \in [Files -> {"none", "worker", "operator"}]
  BY DEF IInv, TypeOK
<1>1. PICK x \in sweep[g].due :
         /\ IsCurrent(g, x)
         /\ FetchBeforeEnable(g, x) \/ Enable(g, x) \/ EnableFails(g, x) \/ Mark(g, x)
  BY DEF RecoverCooldown
<1>2. /\ x.id \in DOMAIN cooldowns /\ cooldowns[x.id].file = x.file
      /\ cooldowns[x.id].index = x.index
      /\ ActiveRows(x.file) = {x.id} /\ x.file \in Files /\ WorksOn(g, x.file)
  BY SweptItem
<1>3. ~Handles(x.file)  BY <1>2 DEF OneHandPerFile
<1>4. UNCHANGED cand /\ \A h \in Sweepers : h # g => sweep'[h] = sweep[h]
  BY <1>1, Recovers
<1>5. \/ sweep'[g].step \in {"none", "fetch"}
      \/ \E s \in {"skip", "enable", "mark"} :
            GoTo(g, s) /\ sweep'[g].step = s /\ sweep'[g].due = sweep[g].due
  BY <1>1, Recovers
<1>6. \A f \in Files : FileOwned(f)  BY DEF OwnInv
<1>7. cand = NoCand \/ (cand \in Cand /\ cand.job.file \in Files /\ cand.job.file # x.file)
  BY <1>0, <1>3, CandType DEF TypeOK, Handles
<1>8. NoCand.step = "none"  BY DEF NoCand
\* Of the items left only x is the next one.
<1>9. \A y \in sweep[g].due : IsCurrent(g, y) => y = x
  <2>1. \A y \in sweep[g].due : y.id \in Nat /\ y.recoverAt \in Nat
    BY <1>0, ConstantsOK DEF Sweep, Item, Time
  <2>2. \A y \in sweep[g].due : IsCurrent(g, y) => y.id = x.id
    BY <1>1, <2>1 DEF IsCurrent, Before
  <2> QED BY <2>2 DEF SweepInv
\* Every file but x's stays as it is, and x's is not the worker's when its row
\* is closed or about to be.
<1>10. ASSUME \A f \in Files : f # x.file => cpa'[f] = cpa[f] /\ holder'[f] = holder[f],
              \A f \in Files : f # x.file => \A i \in ActiveRows(f) :
                 i \in ActiveRows(f)' /\ cooldowns'[i].index = cooldowns[i].index,
              FileOwned(x.file)',
              holder'[x.file] = "worker" =>
                 holder[x.file] = "worker" /\ sweep'[g].step \notin {"mark", "skip"}
       PROVE  OwnInv'
  <2>1. \A f \in Files : BeingDisabled(f)' <=> BeingDisabled(f)
    BY <1>4 DEF BeingDisabled
  <2>2. \A f \in Files : FileOwned(f)'  BY <1>6, <1>10, <2>1 DEF FileOwned
  <2>3. CandOwned'
    BY <1>4, <1>7, <1>8, <1>10 DEF OwnInv, CandOwned, CandKnown
  <2>4. ASSUME NEW h \in Sweepers, h # g, NEW y \in sweep[h].due, IsCurrent(h, y),
               sweep[h].step \in {"mark", "skip"}
        PROVE  holder'[y.file] # "worker"
    <3>1. y.file \in Files  BY <2>4, SweptItem
    <3>2. holder[y.file] # "worker"  BY <2>4 DEF OwnInv, SweepsOwned
    <3> QED BY <1>10, <3>1, <3>2
  <2>5. ASSUME sweep'[g].step \in {"mark", "skip"}, NEW y \in sweep'[g].due,
               \A z \in sweep'[g].due : ~Before(z, y)
        PROVE  holder'[y.file] # "worker"
    <3>1. sweep'[g].due = sweep[g].due  BY <1>5, <2>5
    <3>2. y = x  BY <1>9, <2>5, <3>1 DEF IsCurrent
    <3> QED BY <1>10, <2>5, <3>2
  <2>6. SweepsOwned'  BY <1>4, <2>4, <2>5 DEF SweepsOwned, IsCurrent
  <2> QED BY <2>2, <2>3, <2>6 DEF OwnInv
<1>11. CASE FetchBeforeEnable(g, x)
  <2>1. UNCHANGED <<cpa, holder, cooldowns>>  BY <1>11 DEF FetchBeforeEnable
  <2>2. ~BeingDisabled(x.file)
    BY <1>3, <1>8 DEF BeingDisabled, Handles
  <2>3. holder[x.file] = "worker" => Found(x.file, x.index) /\ cpa[x.file].disabled
    BY <1>2, <1>6, <2>2 DEF FileOwned, Found
  <2>4. holder[x.file] = "worker" => sweep'[g].step \notin {"mark", "skip"}
    <3>1. CASE GoTo(g, "enable")
      BY <1>0, <3>1 DEF GoTo, Sweep
    <3>2. CASE Advance(g, x)
      <4> DEFINE rest == sweep[g].due \ {x}
                 new == IF rest = {} THEN NoSweep ELSE [step |-> "fetch", due |-> rest]
      <4>1. new.step \notin {"mark", "skip"}  BY DEF NoSweep
      <4>2. sweep'[g] = new  BY <1>0, <3>2 DEF Advance
      <4> QED BY <4>1, <4>2
    <3> QED BY <1>11, <2>3, <3>1, <3>2 DEF FetchBeforeEnable
  <2>5. FileOwned(x.file)'
    BY <1>2, <1>4, <1>6, <2>1 DEF FileOwned, ActiveRows, BeingDisabled
  <2> QED BY <1>10, <2>1, <2>4, <2>5 DEF ActiveRows
<1>12. CASE Enable(g, x)
  <2>1. /\ UNCHANGED cooldowns /\ holder'[x.file] = "none"
        /\ \A f \in Files : f # x.file => cpa'[f] = cpa[f] /\ holder'[f] = holder[f]
    BY <1>0, <1>2, <1>12 DEF Enable, PatchEnable
  <2> QED BY <1>10, <2>1 DEF FileOwned, ActiveRows
<1>13. CASE EnableFails(g, x)
  <2>1. UNCHANGED <<cpa, holder, cooldowns>> /\ Advance(g, x)
    BY <1>13 DEF EnableFails, PatchFails
  <2>2. sweep'[g].step \notin {"mark", "skip"}
    <3> DEFINE rest == sweep[g].due \ {x}
               new == IF rest = {} THEN NoSweep ELSE [step |-> "fetch", due |-> rest]
    <3>1. new.step \notin {"mark", "skip"}  BY DEF NoSweep
    <3>2. sweep'[g] = new  BY <1>0, <2>1 DEF Advance
    <3> QED BY <3>1, <3>2
  <2>3. FileOwned(x.file)'
    BY <1>2, <1>4, <1>6, <2>1 DEF FileOwned, ActiveRows, BeingDisabled
  <2> QED BY <1>10, <2>1, <2>2, <2>3 DEF ActiveRows
<1>14. CASE Mark(g, x)
  <2>1. UNCHANGED <<cpa, holder>> /\ sweep[g].step \in {"mark", "skip"}
    BY <1>14 DEF Mark
  <2>2. holder[x.file] # "worker"  BY <1>1, <2>1 DEF OwnInv, SweepsOwned
  <2>3. FileOwned(x.file)'  BY <2>1, <2>2 DEF FileOwned
  <2>4. CASE UNCHANGED cooldowns  BY <1>10, <2>1, <2>2, <2>3, <2>4 DEF ActiveRows
  <2>5. CASE \E s \in {"recovered", "skipped"} : SetStatus(x.id, s)
    <3>1. PICK id \in DOMAIN cooldowns, s \in {"recovered", "skipped"} :
             id = x.id /\ SetStatus(id, s)
      BY <1>2, <2>5
    <3>2. /\ \A f : ActiveRows(f)' = ActiveRows(f) \ {id}
          /\ \A i \in DOMAIN cooldowns : cooldowns'[i].index = cooldowns[i].index
      BY <1>0, <3>1, ClosedRows
    <3>3. \A f \in Files : f # x.file => id \notin ActiveRows(f)
      BY <1>2, <3>1 DEF ActiveRows
    <3>4. \A f \in Files : f # x.file => \A i \in ActiveRows(f) :
             i \in ActiveRows(f)' /\ cooldowns'[i].index = cooldowns[i].index
      BY <3>2, <3>3 DEF ActiveRows
    <3> QED BY <1>10, <2>1, <2>2, <2>3, <3>4
  <2> QED BY <1>14, <2>4, <2>5 DEF Mark
<1> QED BY <1>1, <1>11, <1>12, <1>13, <1>14

\* An operator makes no file the worker's, and moves the index of none that is.
LEMMA OwnOperator ==
    ASSUME IInv, SweepInv, OwnInv, NEW f \in Files, Operator(f), ~CutShort
    PROVE  OwnInv'
<1>0. /\ TypeOK /\ cpa \in [Files -> AuthFile]
      /\ holder \in [Files -> {"none", "worker", "operator"}]
      /\ \A g \in Files : FileOwned(g)
  BY DEF IInv, TypeOK, OwnInv
<1>1. UNCHANGED <<cooldowns, cand, sweep>>
  BY DEF Operator, OperatorDisable, OperatorEnable, OperatorDelete, OperatorUpload,
         workerVars
<1>2. /\ \A g \in Files : g # f => cpa'[g] = cpa[g] /\ holder'[g] = holder[g]
      /\ holder'[f] # "worker"
  BY <1>0 DEF Operator, OperatorDisable, OperatorEnable, OperatorDelete, OperatorUpload,
              PatchEnable, FileOwned
<1>3. \A g \in Files : FileOwned(g)'
  BY <1>0, <1>1, <1>2 DEF FileOwned, ActiveRows, BeingDisabled
<1>4. SweepsOwned'
  <2>1. \A g \in Sweepers : \A x \in sweep[g].due : x.file \in Files  BY SweptItem
  <2> QED BY <1>1, <1>2, <2>1 DEF OwnInv, SweepsOwned, IsCurrent
<1>5. cand.step = "none" \/ cand.job.file \in Files
  <2>1. cand = NoCand \/ cand \in Cand  BY <1>0 DEF TypeOK
  <2>2. CASE cand = NoCand  BY <2>2 DEF NoCand
  <2>3. CASE cand \in Cand  BY <2>3, CandType
  <2> QED BY <2>1, <2>2, <2>3
<1>6. cand.step = "disable" /\ cand.job.file = f =>
         cpa'[f].present = cpa[f].present /\ cpa'[f].index = cpa[f].index
  <2> SUFFICES ASSUME cand.step = "disable", cand.job.file = f
               PROVE  cpa'[f].present = cpa[f].present /\ cpa'[f].index = cpa[f].index
    OBVIOUS
  <2>1. cpa[f].present  BY DEF OwnInv, CandOwned
  <2>2. OperatorDisable(f) \/ OperatorEnable(f)
    BY <2>1 DEF CutShort, Operator, OperatorUpload
  <2>3. cpa' = [cpa EXCEPT ![f].disabled = TRUE] \/ cpa' = [cpa EXCEPT ![f].disabled = FALSE]
    BY <2>2 DEF OperatorDisable, OperatorEnable, PatchEnable
  <2> QED BY <1>0, <2>3 DEF AuthFile
<1>7. CandOwned'
  BY <1>1, <1>2, <1>5, <1>6 DEF OwnInv, CandOwned, CandKnown
<1> QED BY <1>3, <1>4, <1>7 DEF OwnInv

LEMMA OwnStep ==
    ASSUME IInv, SweepInv, OneHandPerFile, OwnInv, [Next]_vars, [~CutShort]_vars
    PROVE  OwnInv'
<1>1. CASE TakeCandidate
  <2>1. cand.step = "none" /\ cand'.step \in {"none", "fetch"}
    BY <1>1 DEF TakeCandidate, LoopFree, NoCand
  <2> QED BY <1>1, <2>1, OwnQuiet DEF TakeCandidate
<1>2. CASE UNCHANGED vars  BY <1>2, OwnQuiet DEF vars
<1>3. ASSUME ~CutShort, HandleCandidate, ~TakeCandidate PROVE OwnInv'
  BY <1>3, OwnCandidate
<1>4. CASE Tick \/ \E g \in Syncs : UpdateRuntimeConfig(g)
  <2>1. UNCHANGED <<cpa, holder, cooldowns, cand>>  BY <1>4, Starts
  <2>2. \A g \in Sweepers : sweep'[g] = sweep[g] \/ sweep'[g].step \notin {"mark", "skip"}
    BY <1>4, Starts
  <2> QED BY <2>1, <2>2, OwnQuiet
<1>5. ASSUME NEW g \in Sweepers, RecoverCooldown(g) PROVE OwnInv'
  BY <1>5, OwnRecover
<1>6. ASSUME NEW f \in Files, Operator(f), ~CutShort PROVE OwnInv'
  BY <1>6, OwnOperator
<1>7. ASSUME \/ \E f \in Files, idx \in AuthIndex, t \in Time : HandleUsageEvents(f, idx, t)
             \/ \E g \in Syncs : CancelSync(g)
             \/ Clock \/ Restart,
             ~CutShort
      PROVE  OwnInv'
  <2>1. /\ UNCHANGED <<cpa, holder, cooldowns>>
        /\ UNCHANGED cand \/ (Restart /\ cand' = NoCand)
    BY <1>7 DEF HandleUsageEvents, CancelSync, Clock, Restart, workerVars
  <2>2. \/ UNCHANGED cand
        \/ cand'.step \in {"none", "fetch"} /\ cand.step \notin {"persist", "rollback"}
    BY <1>7, <2>1 DEF CutShort, NoCand
  <2>3. \A g \in Sweepers : sweep'[g] = sweep[g] \/ sweep'[g] = NoSweep  BY <1>7, Others
  <2>4. \A g \in Sweepers : sweep'[g] = sweep[g] \/ sweep'[g].step \notin {"mark", "skip"}
    BY <2>3 DEF NoSweep
  <2> QED BY <2>1, <2>2, <2>4, OwnQuiet
<1> QED BY <1>1, <1>2, <1>3, <1>4, <1>5, <1>6, <1>7 DEF Next, WorkerNext

\* "Temporary disables are persisted": a file the worker disabled has an active
\* cooldown once the worker is done disabling it, whatever fails or is lost,
\* restarted, toggled or replaced, unless two goroutines meet on one file or
\* handleCandidate is cut short.
THEOREM DisablesAreOwned ==
    Spec /\ []OneHandPerFile /\ [][~CutShort]_vars => []DisableIsOwned
<1>1. Init => OwnInv
  BY DEF Init, OwnInv, FileOwned, CandOwned, SweepsOwned, NoCand, NoSweep
<1>2. IInv /\ SweepInv /\ OneHandPerFile /\ OwnInv /\ [Next]_vars /\ [~CutShort]_vars
        => OwnInv'
  BY OwnStep
<1>3. OwnInv => DisableIsOwned
  BY DEF OwnInv, FileOwned, DisableIsOwned
<1> QED BY <1>1, <1>2, <1>3, SweptInvariance, PTL DEF Spec

\* The same until the first such event: what the run with sweeps beside the run
\* loop checks, for any number of files, rows and sweeps (handleCandidate against
\* recoverCooldown).
THEOREM OwnedUntilDisturbed == UndisturbedSpec => []UndisturbedDisableIsOwned
<1> DEFINE Inv == IInv /\ (undisturbed => SweepInv /\ OneHandPerFile /\ OwnInv)
<1>1. UndisturbedInit => Inv
  <2> SUFFICES ASSUME Init PROVE IInv /\ SweepInv /\ OneHandPerFile /\ OwnInv
    BY DEF UndisturbedInit
  <2>1. \A g \in Sweepers : sweep[g].due = {} /\ sweep[g].step = "none"
    BY DEF Init, NoSweep
  <2>2. SweepInv /\ OneHandPerFile  BY <2>1 DEF SweepInv, OneHandPerFile, WorksOn
  <2>3. OwnInv
    BY DEF Init, OwnInv, FileOwned, CandOwned, SweepsOwned, NoCand, NoSweep
  <2> QED BY <2>2, <2>3, InitOK
<1>2. ASSUME Inv, [UndisturbedNext]_<<vars, undisturbed>> PROVE Inv'
  <2>1. [Next]_vars  BY <1>2 DEF UndisturbedNext, Next, Operator
  <2>2. IInv'  BY <1>2, <2>1, NextStep DEF StepOK, IInv
  <2>3. ASSUME undisturbed' PROVE SweepInv' /\ OneHandPerFile' /\ OwnInv'
    <3>1. CASE UndisturbedNext
      <4>1. SweepInv /\ OneHandPerFile /\ OwnInv /\ OneHandPerFile' /\ ~CutShort
        BY <1>2, <2>3, <3>1 DEF UndisturbedNext, Watch
      <4> QED BY <1>2, <2>1, <4>1, SweepStep, OwnStep
    <3>2. CASE UNCHANGED <<vars, undisturbed>>
      <4>1. SweepInv /\ OneHandPerFile /\ OwnInv /\ UNCHANGED vars
        BY <1>2, <2>3, <3>2
      <4>2. SweepInv' /\ OwnInv'  BY <1>2, <2>1, <4>1, SweepStep, OwnStep
      <4>3. OneHandPerFile'
        BY <4>1 DEF vars, OneHandPerFile, WorksOn, Handles
      <4> QED BY <4>2, <4>3
    <3> QED BY <1>2, <3>1, <3>2
  <2> QED BY <2>2, <2>3
<1>3. Inv => UndisturbedDisableIsOwned
  BY DEF UndisturbedDisableIsOwned, OwnInv, FileOwned, DisableIsOwned
<1> QED BY <1>1, <1>2, <1>3, PTL DEF UndisturbedSpec
=============================================================================
