-------------------------- MODULE PanelPages_proofs --------------------------
(***************************************************************************)
(* Theorems about four pages of the panel, for any number of files,        *)
(* accounts, requests under way and pages opened: the auth files page, the *)
(* quota page, the local inspection and the editor of config.yaml.  The    *)
(* modules of the pages share no state; the last theorem is about all of   *)
(* them, with those of PanelFeeds_proofs.                                  *)
(***************************************************************************)
EXTENDS MCPanelPages, PanelFeeds_proofs, FiniteSetTheorems

(***************************************************************************)
(* The switches of the auth files page.                                    *)
(***************************************************************************)

\* The switches that wait are those of the changes under way, and no file is
\* in two of them.
SwitchInv ==
    /\ statusUpdating = UNION {c.names : c \in statusCalls}
    /\ \A c, d \in statusCalls : c # d => c.names \cap d.names = {}

\* Files none of which waits may start to change together.
LEMMA StartChangeKeeps ==
    ASSUME SwitchInv, NEW names, NEW to, NEW batch,
           names \cap statusUpdating = {}, StartChange(names, to, batch)
    PROVE  SwitchInv'
<1> DEFINE new == [names |-> names, to |-> to, batch |-> batch,
                   before |-> [n \in names |-> listed[n]]]
<1>1. statusUpdating' = statusUpdating \cup names /\ statusCalls' = statusCalls \cup {new}
  BY DEF StartChange
<1>2. new.names = names OBVIOUS
<1> HIDE DEF new
<1>3. \A c \in statusCalls : c.names \subseteq statusUpdating
  BY DEF SwitchInv
<1>4. statusUpdating' = UNION {c.names : c \in statusCalls'}
  BY <1>1, <1>2 DEF SwitchInv
<1>5. \A c, d \in statusCalls' : c # d => c.names \cap d.names = {}
  BY <1>1, <1>2, <1>3 DEF SwitchInv
<1> QED BY <1>4, <1>5 DEF SwitchInv

\* A change that ends releases its own switches and no other.
LEMMA StatusAnswersKeeps ==
    ASSUME SwitchInv, NEW c \in statusCalls, NEW refused, StatusAnswers(c, refused)
    PROVE  SwitchInv'
<1>1. statusUpdating' = statusUpdating \ c.names /\ statusCalls' = statusCalls \ {c}
  BY DEF StatusAnswers
<1>2. \A d \in statusCalls' : d.names \cap c.names = {}
  BY <1>1 DEF SwitchInv
<1>3. statusUpdating' = UNION {d.names : d \in statusCalls'}
  BY <1>1, <1>2 DEF SwitchInv
<1> QED BY <1>1, <1>3 DEF SwitchInv

LEMMA SwitchStep == ASSUME SwitchInv, [AuthFilesNext]_authFilesVars PROVE SwitchInv'
<1>1. CASE \E n \in AuthNames : StatusToggle(n)
  <2>1. PICK n \in AuthNames : StatusToggle(n) BY <1>1
  <2>2. {n} \cap statusUpdating = {} BY <2>1 DEF StatusToggle
  <2> QED BY <2>1, <2>2, StartChangeKeeps DEF StatusToggle
<1>2. CASE \E to \in {"enabled", "disabled"} : BatchSetStatus(to)
  <2>1. PICK to \in {"enabled", "disabled"} : BatchSetStatus(to) BY <1>2
  <2>2. {n \in selected : listed[n] # "absent"} \cap statusUpdating = {}
    BY <2>1 DEF BatchSetStatus, MayChange
  <2> QED BY <2>1, <2>2, StartChangeKeeps DEF BatchSetStatus
<1>3. CASE \E c \in statusCalls : \E refused \in SUBSET c.names : StatusAnswers(c, refused)
  BY <1>3, StatusAnswersKeeps
<1>4. CASE UNCHANGED <<statusUpdating, statusCalls>>
  BY <1>4 DEF SwitchInv
<1>5. AuthFilesNext \/ UNCHANGED authFilesVars OBVIOUS
<1>6. \/ \E n \in AuthNames : StatusToggle(n)
      \/ \E to \in {"enabled", "disabled"} : BatchSetStatus(to)
      \/ \E c \in statusCalls : \E refused \in SUBSET c.names : StatusAnswers(c, refused)
      \/ UNCHANGED <<statusUpdating, statusCalls>>
  BY <1>5 DEF AuthFilesNext, authFilesVars, ToggleSelect, SelectAllVisible, InvertVisibleSelection,
     DeselectAll, LoadAuthFiles, AuthFilesArrive, BatchPatchFields, FieldsAnswer, StartUpload,
     UploadAnswers, PasteAuthJson, PasteAnswers, BatchDelete, DeleteEverything, DeleteFile,
     DeleteFiltered, StartDeletion, ServeDeletion, DeletionAnswers
<1> QED BY <1>1, <1>2, <1>3, <1>4, <1>6

\* At most one change of a file is under way, and exactly while its switch waits
\* (statusUpdating in useAuthFilesData.ts).
THEOREM OneChange == AuthFilesSpec => []OneChangePerSwitch
<1>1. AuthFilesInit => SwitchInv
  BY DEF AuthFilesInit, SwitchInv
<1>2. SwitchInv => OneChangePerSwitch
  <2> SUFFICES ASSUME SwitchInv, NEW n \in AuthNames
               PROVE  Cardinality({c \in statusCalls : n \in c.names})
                        = IF n \in statusUpdating THEN 1 ELSE 0
    BY DEF OneChangePerSwitch
  <2> DEFINE calls == {c \in statusCalls : n \in c.names}
  <2>1. CASE n \in statusUpdating
    <3>1. PICK c \in statusCalls : n \in c.names BY <2>1 DEF SwitchInv
    <3>2. calls = {c} BY <3>1 DEF SwitchInv
    <3> QED BY <2>1, <3>2, FS_Singleton
  <2>2. CASE n \notin statusUpdating
    <3>1. calls = {} BY <2>2 DEF SwitchInv
    <3> QED BY <2>2, <3>1, FS_EmptySet
  <2> QED BY <2>1, <2>2
<1> QED BY <1>1, <1>2, SwitchStep, PTL DEF AuthFilesSpec

(***************************************************************************)
(* Its deletions.                                                          *)
(***************************************************************************)

\* Of a reply that is true, the names that are told to be deleted are.
LEMMA TrueNames ==
    ASSUME NEW asked \in SUBSET AuthNames, NEW gone \in SUBSET asked,
           NEW r \in TrueReplies(asked, gone)
    PROVE  DeletedNames(asked, r) \subseteq gone
<1>1. /\ r.deleted \in {Missing, Cardinality(gone)}
      /\ r.files \in {{}, gone} /\ r.failed \in {{}, asked \ gone}
      /\ r = NoReply => gone = asked
      /\ r \in Replies
  BY DEF TrueReplies
<1>2. CASE r.files # {}
  BY <1>1, <1>2 DEF DeletedNames
<1>3. CASE r.files = {} /\ ~(CountDeleted(asked, r) > 0
                             /\ Cardinality(NotFailed(asked, r)) = CountDeleted(asked, r))
  BY <1>3 DEF DeletedNames
<1>4. CASE /\ r.files = {} /\ CountDeleted(asked, r) > 0
           /\ Cardinality(NotFailed(asked, r)) = CountDeleted(asked, r)
  <2>1. DeletedNames(asked, r) = NotFailed(asked, r)
    BY <1>4 DEF DeletedNames
  <2>2. CASE r.failed = asked \ gone
    BY <2>1, <2>2 DEF NotFailed
  <2>3. CASE r.failed = {}
    <3>1. NotFailed(asked, r) = asked BY <2>3 DEF NotFailed
    <3>2. CASE r.deleted # Missing
      <4>1. Cardinality(asked) = Cardinality(gone)
        BY <1>1, <1>4, <3>1, <3>2 DEF CountDeleted
      <4>2. IsFiniteSet(asked) BY AuthFilesAssumption, FS_Subset
      <4>3. asked = gone BY <4>1, <4>2, FS_Subset
      <4> QED BY <2>1, <3>1, <4>3
    <3>3. CASE r.deleted = Missing
      <4>1. r = NoReply BY <1>1, <1>4, <2>3, <3>3 DEF Replies, NoReply
      <4> QED BY <1>1, <2>1, <3>1, <4>1
    <3> QED BY <3>2, <3>3
  <2> QED BY <1>1, <2>2, <2>3
<1> QED BY <1>2, <1>3, <1>4

Deletion == [asked : SUBSET AuthNames, kind : {"one", "many", "all"}, served : BOOLEAN,
             gone : SUBSET AuthNames, reply : Replies]

\* CPA's reply to a deletion is true of what it deleted.
DeletionInv ==
    /\ selected \subseteq AuthNames
    /\ deletions \subseteq Deletion
    /\ \A d \in deletions : d.served => d.gone \subseteq d.asked /\ d.reply \in TrueReplies(d.asked, d.gone)

LEMMA StartDeletionKeeps ==
    ASSUME DeletionInv, NEW asked \in SUBSET AuthNames, NEW kind \in {"one", "many", "all"},
           StartDeletion(asked, kind)
    PROVE  DeletionInv'
<1> DEFINE new == [asked |-> asked, kind |-> kind, served |-> FALSE, gone |-> {}, reply |-> NoReply]
<1>1. deletions' = deletions \cup {new} /\ selected' = selected
  BY DEF StartDeletion
<1>2. NoReply \in Replies BY DEF NoReply, Replies
<1>3. new \in Deletion /\ ~new.served BY <1>2 DEF Deletion
<1> HIDE DEF new
<1> QED BY <1>1, <1>3 DEF DeletionInv

LEMMA ServeDeletionKeeps ==
    ASSUME DeletionInv, NEW d \in deletions, ServeDeletion(d)
    PROVE  DeletionInv'
<1>1. PICK gone \in SUBSET d.asked : \E r \in TrueReplies(d.asked, gone) :
        deletions' = (deletions \ {d}) \cup {[d EXCEPT !.served = TRUE, !.gone = gone, !.reply = r]}
  BY DEF ServeDeletion
<1>2. PICK r \in TrueReplies(d.asked, gone) :
        deletions' = (deletions \ {d}) \cup {[d EXCEPT !.served = TRUE, !.gone = gone, !.reply = r]}
  BY <1>1
<1> DEFINE new == [d EXCEPT !.served = TRUE, !.gone = gone, !.reply = r]
<1>3. d \in Deletion BY DEF DeletionInv
<1>4. r \in Replies BY DEF TrueReplies
<1>5. /\ new \in Deletion /\ new.gone = gone /\ new.reply = r /\ new.asked = d.asked
  BY <1>3, <1>4 DEF Deletion
<1>6. deletions' = (deletions \ {d}) \cup {new} BY <1>2
<1>7. selected' = selected BY DEF ServeDeletion
<1> HIDE DEF new
<1> QED BY <1>5, <1>6, <1>7 DEF DeletionInv

LEMMA DeletionStep == ASSUME DeletionInv, [AuthFilesNext]_authFilesVars PROVE DeletionInv'
<1>1. CASE \E d \in deletions : ServeDeletion(d)
  BY <1>1, ServeDeletionKeeps
<1>2. CASE \E asked \in SUBSET AuthNames, kind \in {"one", "many", "all"} : StartDeletion(asked, kind)
  BY <1>2, StartDeletionKeeps
<1>3. CASE deletions' \subseteq deletions /\ selected' \subseteq AuthNames
  BY <1>3 DEF DeletionInv
<1>4. CASE \E n \in AuthNames : DeleteFile(n)
  BY <1>2, <1>4 DEF DeleteFile
<1>5. CASE BatchDelete
  BY <1>2, <1>5 DEF BatchDelete, DeletionInv
<1>6. CASE \E names \in SUBSET AuthNames : DeleteFiltered(names)
  BY <1>2, <1>6 DEF DeleteFiltered
<1>7. CASE DeleteEverything
  <2>1. AuthNames \ RuntimeOnly \in SUBSET AuthNames OBVIOUS
  <2> QED BY <1>2, <1>7, <2>1 DEF DeleteEverything
<1>8. CASE \E d \in deletions : DeletionAnswers(d)
  BY <1>3, <1>8 DEF DeletionAnswers, DeletionInv
<1>9. CASE \E n \in AuthNames : ToggleSelect(n) \/ StatusToggle(n)
  BY <1>3, <1>9 DEF ToggleSelect, StatusToggle, DeletionInv
<1>10. CASE \E names \in SUBSET AuthNames : SelectAllVisible(names) \/ InvertVisibleSelection(names)
  BY <1>3, <1>10 DEF SelectAllVisible, InvertVisibleSelection, DeletionInv
<1>11. CASE DeselectAll \/ LoadAuthFiles \/ AuthFilesArrive
  BY <1>3, <1>11 DEF DeselectAll, LoadAuthFiles, AuthFilesArrive, ListArrives, PrunedSelection, DeletionInv
<1>12. CASE \E to \in {"enabled", "disabled"} : BatchSetStatus(to)
  BY <1>3, <1>12 DEF BatchSetStatus, DeletionInv
<1>13. CASE \E c \in statusCalls : \E refused \in SUBSET c.names : StatusAnswers(c, refused)
  BY <1>3, <1>13 DEF StatusAnswers, DeletionInv
<1>14. CASE BatchPatchFields \/ FieldsAnswer \/ StartUpload \/ UploadAnswers \/ PasteAuthJson \/ PasteAnswers
  BY <1>3, <1>14 DEF BatchPatchFields, FieldsAnswer, StartUpload, UploadAnswers, PasteAuthJson,
     PasteAnswers, ListArrives, PrunedSelection, DeletionInv
<1>15. CASE UNCHANGED authFilesVars
  BY <1>3, <1>15 DEF authFilesVars, DeletionInv
<1>16. AuthFilesNext \/ UNCHANGED authFilesVars OBVIOUS
<1> QED BY <1>1, <1>4, <1>5, <1>6, <1>7, <1>8, <1>9, <1>10, <1>11, <1>12, <1>13, <1>14, <1>15, <1>16
        DEF AuthFilesNext

\* Whatever shape a partial success is told in, no file that CPA kept is dropped
\* (normalizeBatchDeleteResponse in authFiles.ts).
THEOREM DroppedAreGone == AuthFilesSpec => []DroppedAreDeleted
<1>1. AuthFilesInit => DeletionInv
  BY DEF AuthFilesInit, DeletionInv
<1>2. DeletionInv => DroppedAreDeleted
  <2> SUFFICES ASSUME DeletionInv, NEW d \in deletions, d.served, d.kind = "many"
               PROVE  Dropped(d) \subseteq d.gone
    BY DEF DroppedAreDeleted
  <2>1. d.asked \in SUBSET AuthNames BY DEF DeletionInv, Deletion
  <2>2. d.gone \in SUBSET d.asked /\ d.reply \in TrueReplies(d.asked, d.gone) BY DEF DeletionInv
  <2>3. Dropped(d) = DeletedNames(d.asked, d.reply) BY DEF Dropped
  <2> QED BY <2>1, <2>2, <2>3, TrueNames
<1> QED BY <1>1, <1>2, DeletionStep, PTL DEF AuthFilesSpec

Phases == {"idle", "sending", "loading"}
Change(c) == /\ c.names \subseteq AuthNames /\ c.before \in [c.names -> FileStates]
             /\ c.to \in FileStates /\ c.batch \in BOOLEAN

\* What is under way is finite, which the bound on it counts.
AuthFilesInv ==
    /\ listed \in [AuthNames -> FileStates] /\ loadingFiles \in BOOLEAN
    /\ fileLists \in 0 .. MaxUnderWay
    /\ selected \subseteq AuthNames \ RuntimeOnly /\ statusUpdating \subseteq AuthNames
    /\ \A c \in statusCalls : Change(c)
    /\ fieldsUpdate \in Phases /\ upload \in Phases /\ pasting \in Phases
    /\ deletions \subseteq Deletion /\ \A d \in deletions : d.gone \subseteq d.asked
    /\ IsFiniteSet(statusCalls) /\ IsFiniteSet(deletions)

LEMMA RoomForOne ==
    ASSUME NEW m \in Nat, NEW l \in 0 .. m, NEW a \in Nat, NEW b \in Nat,
           NEW c \in {0, 1}, NEW d \in {0, 1}, NEW e \in {0, 1}, l + a + b + c + d + e < m
    PROVE  l + 1 \in 0 .. m
OBVIOUS

LEMMA RoomForAList == ASSUME AuthFilesInv, MayStart PROVE fileLists + 1 \in 0 .. MaxUnderWay
<1> DEFINE busy(phase) == IF phase = "idle" THEN 0 ELSE 1
<1>1. Cardinality(statusCalls) \in Nat /\ Cardinality(deletions) \in Nat
  BY FS_CardinalityType DEF AuthFilesInv
<1>2. /\ busy(fieldsUpdate) \in {0, 1} /\ busy(upload) \in {0, 1} /\ busy(pasting) \in {0, 1}
      /\ fileLists \in 0 .. MaxUnderWay /\ MaxUnderWay \in Nat
  BY AuthFilesAssumption DEF AuthFilesInv
<1>3. fileLists + Cardinality(statusCalls) + Cardinality(deletions)
          + busy(fieldsUpdate) + busy(upload) + busy(pasting) < MaxUnderWay
  BY DEF MayStart
<1> HIDE DEF busy
<1> QED BY <1>1, <1>2, <1>3, RoomForOne

LEMMA StatusShown ==
    ASSUME AuthFilesInv, NEW names \in SUBSET AuthNames, NEW status \in [names -> FileStates]
    PROVE  WithStatus(names, status) \in [AuthNames -> FileStates]
BY DEF AuthFilesInv, WithStatus

LEMMA StartChangeTypes ==
    ASSUME AuthFilesInv, NEW names \in SUBSET AuthNames, NEW to \in FileStates, NEW batch \in BOOLEAN,
           StartChange(names, to, batch),
           UNCHANGED <<loadingFiles, fileLists, selected, fieldsUpdate, upload, pasting, deletions>>
    PROVE  AuthFilesInv'
<1> DEFINE new == [names |-> names, to |-> to, batch |-> batch,
                   before |-> [n \in names |-> listed[n]]]
<1>1. /\ statusUpdating' = statusUpdating \cup names /\ statusCalls' = statusCalls \cup {new}
      /\ listed' = WithStatus(names, [n \in names |-> to])
  BY DEF StartChange
<1>2. Change(new)  BY DEF Change, AuthFilesInv
<1> HIDE DEF new
<1>3. listed' \in [AuthNames -> FileStates]  BY <1>1, StatusShown
<1>4. IsFiniteSet(statusCalls')  BY <1>1, FS_AddElement DEF AuthFilesInv
<1> QED BY <1>1, <1>2, <1>3, <1>4 DEF AuthFilesInv

LEMMA StatusAnswersTypes ==
    ASSUME AuthFilesInv, NEW c \in statusCalls, NEW refused, StatusAnswers(c, refused)
    PROVE  AuthFilesInv'
<1> DEFINE status == [n \in c.names |-> IF n \in refused THEN c.before[n] ELSE c.to]
<1>1. Change(c)  BY DEF AuthFilesInv
<1>2. status \in [c.names -> FileStates] /\ c.names \in SUBSET AuthNames
  BY <1>1 DEF Change
<1>3. listed' = WithStatus(c.names, status)  BY DEF StatusAnswers
<1> HIDE DEF status
<1>4. listed' \in [AuthNames -> FileStates]  BY <1>2, <1>3, StatusShown
<1>5. statusCalls' = statusCalls \ {c} /\ IsFiniteSet(statusCalls')
  BY FS_RemoveElement DEF StatusAnswers, AuthFilesInv
<1> QED BY <1>4, <1>5 DEF StatusAnswers, AuthFilesInv

LEMMA StartDeletionTypes ==
    ASSUME AuthFilesInv, NEW asked \in SUBSET AuthNames, NEW kind \in {"one", "many", "all"},
           StartDeletion(asked, kind)
    PROVE  AuthFilesInv'
<1> DEFINE new == [asked |-> asked, kind |-> kind, served |-> FALSE, gone |-> {}, reply |-> NoReply]
<1>1. deletions' = deletions \cup {new}  BY DEF StartDeletion
<1>2. NoReply \in Replies BY DEF NoReply, Replies
<1>3. new \in Deletion /\ new.gone = {} BY <1>2 DEF Deletion
<1> HIDE DEF new
<1>4. IsFiniteSet(deletions')  BY <1>1, FS_AddElement DEF AuthFilesInv
<1> QED BY <1>1, <1>3, <1>4 DEF AuthFilesInv, StartDeletion

LEMMA ServeDeletionTypes ==
    ASSUME AuthFilesInv, NEW d \in deletions, ServeDeletion(d) PROVE AuthFilesInv'
<1>1. PICK gone \in SUBSET d.asked : \E r \in TrueReplies(d.asked, gone) :
        deletions' = (deletions \ {d}) \cup {[d EXCEPT !.served = TRUE, !.gone = gone, !.reply = r]}
  BY DEF ServeDeletion
<1>2. PICK r \in TrueReplies(d.asked, gone) :
        deletions' = (deletions \ {d}) \cup {[d EXCEPT !.served = TRUE, !.gone = gone, !.reply = r]}
  BY <1>1
<1> DEFINE new == [d EXCEPT !.served = TRUE, !.gone = gone, !.reply = r]
<1>3. d \in Deletion /\ r \in Replies BY DEF AuthFilesInv, TrueReplies
<1>4. new \in Deletion /\ new.gone \subseteq new.asked  BY <1>3 DEF Deletion
<1>5. deletions' = (deletions \ {d}) \cup {new} BY <1>2
<1> HIDE DEF new
<1>6. IsFiniteSet(deletions')  BY <1>5, FS_AddElement, FS_RemoveElement DEF AuthFilesInv
<1> QED BY <1>4, <1>5, <1>6 DEF AuthFilesInv, ServeDeletion

LEMMA DeletionAnswersTypes ==
    ASSUME AuthFilesInv, NEW d \in deletions, DeletionAnswers(d) PROVE AuthFilesInv'
<1>1. IsFiniteSet(deletions') /\ deletions' \subseteq deletions
  BY FS_RemoveElement DEF DeletionAnswers, AuthFilesInv
<1>2. listed' \in [AuthNames -> FileStates]
  BY DEF DeletionAnswers, AuthFilesInv, FileStates
<1>3. selected' \subseteq AuthNames \ RuntimeOnly
  BY DEF DeletionAnswers, AuthFilesInv
<1> QED BY <1>1, <1>2, <1>3 DEF DeletionAnswers, AuthFilesInv

LEMMA AuthFilesStep == ASSUME AuthFilesInv, [AuthFilesNext]_authFilesVars PROVE AuthFilesInv'
<1>1. ASSUME NEW n \in AuthNames, ToggleSelect(n) PROVE AuthFilesInv'
  BY <1>1 DEF ToggleSelect, Selectable, AuthFilesInv
<1>2. ASSUME NEW n \in AuthNames, StatusToggle(n) PROVE AuthFilesInv'
  <2>1. {n} \in SUBSET AuthNames /\ (IF listed[n] = "enabled" THEN "disabled" ELSE "enabled") \in FileStates
    BY DEF FileStates
  <2> QED BY <1>2, <2>1, StartChangeTypes DEF StatusToggle
<1>3. ASSUME NEW n \in AuthNames, DeleteFile(n) PROVE AuthFilesInv'
  BY <1>3, StartDeletionTypes DEF DeleteFile
<1>4. ASSUME NEW names \in SUBSET AuthNames, SelectAllVisible(names) \/ InvertVisibleSelection(names)
      PROVE  AuthFilesInv'
  BY <1>4 DEF SelectAllVisible, InvertVisibleSelection, Selectable, AuthFilesInv
<1>5. ASSUME NEW names \in SUBSET AuthNames, DeleteFiltered(names) PROVE AuthFilesInv'
  BY <1>5, StartDeletionTypes DEF DeleteFiltered
<1>6. CASE DeselectAll
  BY <1>6 DEF DeselectAll, AuthFilesInv
<1>7. CASE LoadAuthFiles
  <2>1. fileLists' \in 0 .. MaxUnderWay
    BY <1>7, RoomForAList DEF LoadAuthFiles
  <2> QED BY <1>7, <2>1 DEF LoadAuthFiles, AuthFilesInv
<1>8. CASE AuthFilesArrive
  <2>1. fileLists' \in 0 .. MaxUnderWay
    <3>1. fileLists \in 0 .. MaxUnderWay /\ MaxUnderWay \in Nat  BY AuthFilesAssumption DEF AuthFilesInv
    <3>2. fileLists > 0 /\ fileLists' = fileLists - 1  BY <1>8 DEF AuthFilesArrive
    <3> QED BY <3>1, <3>2
  <2> QED BY <1>8, <2>1 DEF AuthFilesArrive, ListArrives, PrunedSelection, AuthFilesInv
<1>9. ASSUME NEW to \in {"enabled", "disabled"}, BatchSetStatus(to) PROVE AuthFilesInv'
  <2>1. {n \in selected : listed[n] # "absent"} \in SUBSET AuthNames /\ to \in FileStates
    BY DEF AuthFilesInv, FileStates
  <2> QED BY <1>9, <2>1, StartChangeTypes DEF BatchSetStatus
<1>10. ASSUME NEW c \in statusCalls, NEW refused, StatusAnswers(c, refused) PROVE AuthFilesInv'
  BY <1>10, StatusAnswersTypes
<1>11. CASE BatchPatchFields \/ StartUpload \/ PasteAuthJson
  BY <1>11 DEF BatchPatchFields, StartUpload, PasteAuthJson, Phases, AuthFilesInv
<1>12. CASE FieldsAnswer
  BY <1>12 DEF FieldsAnswer, Phases, AuthFilesInv
<1>13. CASE UploadAnswers
  BY <1>13 DEF UploadAnswers, ListArrives, PrunedSelection, Phases, AuthFilesInv
<1>14. CASE PasteAnswers
  BY <1>14 DEF PasteAnswers, ListArrives, PrunedSelection, Phases, AuthFilesInv
<1>15. CASE BatchDelete
  BY <1>15, StartDeletionTypes DEF BatchDelete, AuthFilesInv
<1>16. CASE DeleteEverything
  BY <1>16, StartDeletionTypes DEF DeleteEverything
<1>17. ASSUME NEW d \in deletions, ServeDeletion(d) \/ DeletionAnswers(d) PROVE AuthFilesInv'
  BY <1>17, ServeDeletionTypes, DeletionAnswersTypes
<1>18. CASE UNCHANGED authFilesVars
  BY <1>18 DEF authFilesVars, AuthFilesInv
<1> QED
  BY <1>1, <1>2, <1>3, <1>4, <1>5, <1>6, <1>7, <1>8, <1>9, <1>10, <1>11, <1>12, <1>13, <1>14, <1>15,
     <1>16, <1>17, <1>18 DEF AuthFilesNext

LEMMA AuthFilesInitOK == AuthFilesInit => AuthFilesInv
<1>1. 0 \in 0 .. MaxUnderWay  BY AuthFilesAssumption
<1> QED BY <1>1, FS_EmptySet DEF AuthFilesInit, AuthFilesInv, Phases, FileStates

LEMMA AuthFilesTypes == ASSUME AuthFilesInv PROVE AuthFilesTypeOK
BY DEF AuthFilesInv, Phases, Change, Deletion, AuthFilesTypeOK

\* The state of the auth files page has its type: only files with a file of
\* their own are ever selected, whatever list arrives meanwhile.
THEOREM AuthFilesTyped == AuthFilesSpec => []AuthFilesTypeOK
BY AuthFilesTypes, AuthFilesInitOK, AuthFilesStep, PTL DEF AuthFilesSpec

(***************************************************************************)
(* The quota page.  Beside the three properties: the answers a batch has   *)
(* gathered are none that load, carry no supplementary answer yet, and are *)
(* of no later read than the file's last one; nor is what the store shows. *)
(***************************************************************************)

Gots == UNION {[s -> Quota] : s \in SUBSET QuotaFiles}
BatchType == [mine : BOOLEAN, left : SUBSET QuotaFiles, got : Gots]

\* A batch's answers, and the store's entry of a file, under the reads so far.
Gathered(ids, b) ==
    \A f \in DOMAIN b.got :
        b.got[f].status \in {"success", "error"} /\ b.got[f].supp = 0 /\ b.got[f].read <= ids[f]
Sound(id, q) == q.read <= id /\ (q.supp # 0 => q.supp >= q.read)

QuotaFlags ==
    /\ open \in BOOLEAN /\ filesLoading \in BOOLEAN /\ pending \in BOOLEAN
    /\ files \subseteq QuotaFiles /\ lists \in 0 .. MaxLists
    /\ RefreshIsServed

QuotaStore ==
    /\ quota \in [QuotaFiles -> Quota] /\ \A f \in QuotaFiles : Sound(requestIds[f], quota[f])
    /\ batches \in [Batches -> BatchType]
    /\ \A i \in Batches :
          /\ DOMAIN batches[i].got \subseteq QuotaFiles \ batches[i].left
          /\ Gathered(requestIds, batches[i])
    /\ singles \in [QuotaFiles -> 0 .. MaxSingles]
    /\ requestIds \in [QuotaFiles -> 0 .. MaxReads]
    /\ suppCache \in [QuotaFiles -> 0 .. MaxReads]
    /\ supps \subseteq [file : QuotaFiles, id : 1 .. MaxReads]
    /\ LoadingIsServed

QuotaInv == QuotaFlags /\ QuotaStore

LEMMA Gotten ==
    /\ \A g \in Gots : DOMAIN g \subseteq QuotaFiles /\ \A f \in DOMAIN g : g[f] \in Quota
    /\ \A s \in SUBSET QuotaFiles : \A g \in [s -> Quota] : g \in Gots
BY DEF Gots

LEMMA QuotaValues ==
    /\ NoQuota \in Quota /\ Loading \in Quota /\ Failed \in Quota
    /\ NoBatch \in BatchType /\ NoBatch.left = {} /\ DOMAIN NoBatch.got = {} /\ NoBatch.got \in Gots
    /\ MaxReads \in Nat /\ MaxSingles \in Nat /\ MaxLists \in Nat
<1>1. /\ 0 \in 0 .. MaxReads /\ MaxReads \in Nat /\ MaxSingles \in Nat /\ MaxLists \in Nat
  BY QuotaPanelAssumption
<1>2. NoQuota \in Quota /\ Loading \in Quota /\ Failed \in Quota
  BY <1>1 DEF NoQuota, Loading, Failed, Quota
<1>3. [f \in {} |-> Failed] \in [{} -> Quota]  BY <1>2
<1>4. [f \in {} |-> Failed] \in Gots  BY <1>3, Gotten
<1>5. NoBatch.got = [f \in {} |-> Failed]  BY DEF NoBatch
<1>6. NoBatch \in BatchType  BY <1>4 DEF NoBatch, BatchType
<1>7. NoBatch.left = {} /\ DOMAIN NoBatch.got = {}  BY <1>5 DEF NoBatch
<1> QED BY <1>1, <1>2, <1>4, <1>5, <1>6, <1>7

\* A batch that starts, or is skipped, after a list that dropped some quotas.
LEMMA LoadQuotaKeeps ==
    ASSUME QuotaStore, NEW cards \in SUBSET QuotaFiles, NEW before \in [QuotaFiles -> Quota],
           \A f \in QuotaFiles : before[f] \in {quota[f], NoQuota},
           LoadQuota(cards, before), UNCHANGED <<singles, requestIds, suppCache, supps>>
    PROVE  QuotaStore'
<1>1. \A f \in QuotaFiles : Sound(requestIds[f], NoQuota) /\ Sound(requestIds[f], Loading)
  BY QuotaPanelAssumption DEF QuotaStore, Sound, NoQuota, Loading
<1>2. \A f \in QuotaFiles : Sound(requestIds[f], before[f])
  BY <1>1 DEF QuotaStore
<1>3. \A f \in QuotaFiles : before[f].status = "loading" => before[f] = quota[f]
  BY DEF NoQuota
<1>4. CASE Batching \/ cards = {}
  <2>1. quota' = before /\ UNCHANGED batches  BY <1>4 DEF LoadQuota
  <2>2. LoadingIsServed'
    BY <1>3, <2>1 DEF QuotaStore, LoadingIsServed
  <2> QED BY <1>2, <2>1, <2>2 DEF QuotaStore, Sound, Gathered
<1>5. CASE ~(Batching \/ cards = {})
  <2> DEFINE new == [mine |-> TRUE, left |-> cards, got |-> NoBatch.got]
  <2>1. PICK i \in Batches :
          /\ batches[i] = NoBatch
          /\ quota' = [f \in QuotaFiles |-> IF f \in cards THEN Loading ELSE before[f]]
          /\ batches' = [batches EXCEPT ![i] = new]
    BY <1>5 DEF LoadQuota
  <2>2. new \in BatchType /\ new.left = cards /\ new.got = NoBatch.got
    BY QuotaValues DEF BatchType
  <2> HIDE DEF new
  <2>3. /\ batches' \in [Batches -> BatchType] /\ batches'[i] = new
        /\ \A j \in Batches : j # i => batches'[j] = batches[j]
    BY <2>1, <2>2 DEF QuotaStore
  <2>4. \A j \in Batches : DOMAIN batches'[j].got \subseteq QuotaFiles \ batches'[j].left
                           /\ Gathered(requestIds, batches'[j])
    BY <2>2, <2>3, QuotaValues DEF QuotaStore, Gathered
  <2>5. quota' \in [QuotaFiles -> Quota] /\ \A f \in QuotaFiles : Sound(requestIds[f], quota'[f])
    BY <1>1, <1>2, <2>1, QuotaValues
  <2>6. LoadingIsServed'
    <3> SUFFICES ASSUME NEW f \in QuotaFiles, quota'[f].status = "loading"
                 PROVE  singles'[f] > 0 \/ \E j \in Batches : f \in batches'[j].left \cup DOMAIN batches'[j].got
      BY DEF LoadingIsServed
    <3>1. CASE f \in cards
      BY <2>2, <2>3, <3>1
    <3>2. CASE f \notin cards
      <4>1. quota[f].status = "loading"  BY <1>3, <2>1, <3>2
      <4>2. singles[f] > 0 \/ \E j \in Batches : f \in batches[j].left \cup DOMAIN batches[j].got
        BY <4>1 DEF QuotaStore, LoadingIsServed
      <4>3. f \notin batches[i].left \cup DOMAIN batches[i].got  BY <2>1, QuotaValues
      <4> QED BY <2>3, <4>2, <4>3
    <3> QED BY <3>1, <3>2
  <2> QED BY <2>3, <2>4, <2>5, <2>6 DEF QuotaStore, Sound, Gathered
<1> QED BY <1>4, <1>5

\* The buckets of f have arrived.
LEMMA ScheduleKeeps ==
    ASSUME QuotaStore, NEW f \in QuotaFiles, Schedule(f)
    PROVE  /\ requestIds' \in [QuotaFiles -> 0 .. MaxReads]
           /\ suppCache' \in [QuotaFiles -> 0 .. MaxReads]
           /\ supps' \subseteq [file : QuotaFiles, id : 1 .. MaxReads]
           /\ requestIds'[f] = requestIds[f] + 1 /\ requestIds[f] + 1 \in 0 .. MaxReads
           /\ \A g \in QuotaFiles : requestIds[g] <= requestIds'[g]
<1> DEFINE id == requestIds[f] + 1
<1>1. /\ requestIds \in [QuotaFiles -> 0 .. MaxReads] /\ suppCache \in [QuotaFiles -> 0 .. MaxReads]
      /\ MaxReads \in Nat /\ \A g \in QuotaFiles : requestIds[g] \in 0 .. MaxReads
  BY QuotaPanelAssumption DEF QuotaStore
<1>2. /\ requestIds[f] < MaxReads /\ requestIds' = [requestIds EXCEPT ![f] = id]
      /\ suppCache' = [suppCache EXCEPT ![f] = 0]
      /\ supps' = supps \cup {[file |-> f, id |-> id]}
  BY DEF Schedule
<1>3. id \in 1 .. MaxReads /\ id \in 0 .. MaxReads /\ 0 \in 0 .. MaxReads /\ id > requestIds[f]
  BY <1>1, <1>2
<1>4. [file |-> f, id |-> id] \in [file : QuotaFiles, id : 1 .. MaxReads]  BY <1>3
<1> HIDE DEF id
<1>5. \A g \in QuotaFiles : requestIds'[g] = IF g = f THEN id ELSE requestIds[g]
  BY <1>1, <1>2
<1>6. \A g \in QuotaFiles : requestIds[g] <= requestIds'[g]
  BY <1>1, <1>3, <1>5
<1>7. requestIds' \in [QuotaFiles -> 0 .. MaxReads] /\ suppCache' \in [QuotaFiles -> 0 .. MaxReads]
  BY <1>1, <1>2, <1>3
<1>8. supps' \subseteq [file : QuotaFiles, id : 1 .. MaxReads]
  BY <1>2, <1>4 DEF QuotaStore
<1> QED BY <1>3, <1>5, <1>6, <1>7, <1>8 DEF id

\* What was sound under fewer reads is so under more.
LEMMA ReadsGrow ==
    ASSUME QuotaStore, requestIds' \in [QuotaFiles -> 0 .. MaxReads],
           \A g \in QuotaFiles : requestIds[g] <= requestIds'[g]
    PROVE  /\ \A f \in QuotaFiles : \A q \in Quota : Sound(requestIds[f], q) => Sound(requestIds'[f], q)
           /\ \A b \in BatchType : Gathered(requestIds, b) => Gathered(requestIds', b)
<1>1. \A g \in QuotaFiles : requestIds[g] \in Int /\ requestIds'[g] \in Int /\ requestIds[g] <= requestIds'[g]
  BY DEF QuotaStore
<1>2. \A q \in Quota : q.read \in Int
  BY DEF Quota
<1>3. \A f \in QuotaFiles : \A q \in Quota : q.read <= requestIds[f] => q.read <= requestIds'[f]
  BY <1>1, <1>2
<1>4. ASSUME NEW b \in BatchType, Gathered(requestIds, b) PROVE Gathered(requestIds', b)
  <2>1. b.got \in Gots  BY DEF BatchType
  <2>2. \A f \in DOMAIN b.got : f \in QuotaFiles /\ b.got[f] \in Quota  BY <2>1, Gotten
  <2> QED BY <1>3, <1>4, <2>2 DEF Gathered
<1> QED BY <1>3, <1>4 DEF Sound

LEMMA BatchAnswersKeeps ==
    ASSUME QuotaStore, NEW i \in Batches, NEW f \in QuotaFiles, BatchAnswers(i, f)
    PROVE  QuotaStore'
<1> DEFINE before == batches[i].got
           read == requestIds[f] + 1
<1>1. PICK ok \in BOOLEAN :
        LET answer == IF ok THEN [status |-> "success", read |-> read, supp |-> 0] ELSE Failed
            got == [g \in DOMAIN before \cup {f} |-> IF g # f THEN before[g] ELSE answer]
            final == [g \in DOMAIN got |->
                        IF got[g].status = "success" /\ g # f THEN Success(g, got[g].read) ELSE got[g]]
        IN
        /\ IF ok THEN Schedule(f) ELSE UNCHANGED <<requestIds, suppCache, supps>>
        /\ IF batches[i].left = {f}
           THEN /\ batches' = [batches EXCEPT ![i] = NoBatch]
                /\ quota' = BatchWrites(i, final)
           ELSE /\ batches' = [batches EXCEPT ![i].left = @ \ {f}, ![i].got = got]
                /\ UNCHANGED quota
  BY DEF BatchAnswers
<1> DEFINE answer == IF ok THEN [status |-> "success", read |-> read, supp |-> 0] ELSE Failed
           got == [g \in DOMAIN before \cup {f} |-> IF g # f THEN before[g] ELSE answer]
           final == [g \in DOMAIN got |->
                       IF got[g].status = "success" /\ g # f THEN Success(g, got[g].read) ELSE got[g]]
<1>2. f \in batches[i].left /\ UNCHANGED singles  BY DEF BatchAnswers
<1>3. /\ batches[i] \in BatchType /\ before \in Gots /\ batches[i].left \subseteq QuotaFiles
      /\ DOMAIN before \subseteq QuotaFiles \ batches[i].left /\ Gathered(requestIds, batches[i])
  BY DEF QuotaStore, BatchType
<1>4. /\ requestIds' \in [QuotaFiles -> 0 .. MaxReads] /\ suppCache' \in [QuotaFiles -> 0 .. MaxReads]
      /\ supps' \subseteq [file : QuotaFiles, id : 1 .. MaxReads]
      /\ \A g \in QuotaFiles : requestIds[g] <= requestIds'[g]
      /\ ok => requestIds'[f] = read /\ read \in 0 .. MaxReads
  <2>1. CASE ok
    BY <1>1, <2>1, ScheduleKeeps
  <2>2. CASE ~ok
    <3>1. UNCHANGED <<requestIds, suppCache, supps>>  BY <1>1, <2>2
    <3>2. \A g \in QuotaFiles : requestIds[g] <= requestIds[g]  BY DEF QuotaStore
    <3> QED BY <2>2, <3>1, <3>2 DEF QuotaStore
  <2> QED BY <2>1, <2>2
\* The answer, and the gathered ones with it.
<1>5. /\ answer \in Quota /\ answer.status \in {"success", "error"} /\ answer.supp = 0
      /\ answer.read <= requestIds'[f]
  <2>1. requestIds'[f] \in Nat /\ 0 <= requestIds'[f]  BY <1>4
  <2>2. CASE ok
    <3>1. answer = [status |-> "success", read |-> read, supp |-> 0]  BY <2>2
    <3> QED BY <1>4, <2>1, <2>2, <3>1, QuotaPanelAssumption DEF Quota
  <2>3. CASE ~ok
    <3>1. answer = Failed  BY <2>3
    <3> QED BY <2>1, <3>1, QuotaValues DEF Failed
  <2> QED BY <2>2, <2>3
<1> HIDE DEF answer, read
<1>6. /\ DOMAIN got = DOMAIN before \cup {f} /\ DOMAIN got \in SUBSET QuotaFiles
      /\ got[f] = answer /\ \A g \in DOMAIN before : got[g] = before[g]
  BY <1>2, <1>3
<1>7. \A g \in DOMAIN before : /\ before[g] \in Quota /\ before[g].status \in {"success", "error"}
                               /\ before[g].supp = 0 /\ before[g].read <= requestIds'[g]
  <2>1. \A g \in DOMAIN before : g \in QuotaFiles /\ before[g] \in Quota  BY <1>3, Gotten
  <2>2. \A g \in DOMAIN before : before[g].read \in Int /\ requestIds[g] \in Int /\ requestIds'[g] \in Int
    BY <1>4, <2>1 DEF Quota, QuotaStore
  <2>3. \A g \in DOMAIN before : before[g].read <= requestIds[g] /\ requestIds[g] <= requestIds'[g]
    BY <1>3, <1>4, <2>1 DEF Gathered
  <2> QED BY <1>3, <2>1, <2>2, <2>3 DEF Gathered
<1> HIDE DEF before
<1>8. \A g \in DOMAIN got : /\ got[g] \in Quota /\ got[g].status \in {"success", "error"}
                            /\ got[g].supp = 0 /\ got[g].read <= requestIds'[g]
  BY <1>5, <1>6, <1>7
<1>9. got \in Gots
  <2>1. got = [g \in DOMAIN got |-> got[g]]
    OBVIOUS
  <2>2. got \in [DOMAIN got -> Quota]  BY <1>8, <2>1
  <2> QED BY <1>6, <2>2, Gotten
<1> HIDE DEF got
<1>10. \A b \in BatchType : Gathered(requestIds, b) => Gathered(requestIds', b)
  BY <1>4, ReadsGrow
<1>11. \A g \in QuotaFiles : Sound(requestIds'[g], quota[g])
  BY <1>4, ReadsGrow DEF QuotaStore
<1>12. CASE batches[i].left = {f}
  <2>1. batches' = [batches EXCEPT ![i] = NoBatch] /\ quota' = BatchWrites(i, final)
    BY <1>1, <1>12 DEF final, got, before, answer, read
  <2>2. /\ batches' \in [Batches -> BatchType] /\ batches'[i] = NoBatch
        /\ \A j \in Batches : j # i => batches'[j] = batches[j]
    BY <2>1, QuotaValues DEF QuotaStore
  <2>3. \A j \in Batches : DOMAIN batches'[j].got \subseteq QuotaFiles \ batches'[j].left
                           /\ Gathered(requestIds', batches'[j])
    <3>1. Gathered(requestIds', NoBatch)  BY QuotaValues DEF Gathered
    <3> SUFFICES ASSUME NEW j \in Batches
                 PROVE  DOMAIN batches'[j].got \subseteq QuotaFiles \ batches'[j].left
                        /\ Gathered(requestIds', batches'[j])
      OBVIOUS
    <3>2. CASE j = i
      BY <2>2, <3>1, <3>2, QuotaValues DEF Gathered
    <3>3. CASE j # i
      BY <1>10, <2>2, <3>3 DEF QuotaStore, Gathered
    <3> QED BY <3>2, <3>3
  <2>4. ASSUME NEW g \in DOMAIN got
        PROVE  final[g] \in Quota /\ final[g].status \in {"success", "error"} /\ Sound(requestIds'[g], final[g])
    <3>0. /\ g \in QuotaFiles /\ got[g] \in Quota /\ got[g].read \in 0 .. MaxReads
          /\ got[g].read <= requestIds'[g] /\ got[g].supp = 0 /\ 0 \in 0 .. MaxReads
      BY <1>6, <1>8, QuotaPanelAssumption DEF Quota
    <3>1. CASE got[g].status = "success" /\ g # f
      <4>1. final[g] = Success(g, got[g].read)  BY <3>1
      <4>2. Snapshot(g, got[g].read) \in {0, got[g].read}  BY DEF Snapshot
      <4>3. Snapshot(g, got[g].read) # 0 => Snapshot(g, got[g].read) >= got[g].read
        BY <3>0, <4>2
      <4>4. Snapshot(g, got[g].read) \in 0 .. MaxReads  BY <3>0, <4>2
      <4>5. /\ final[g] \in Quota /\ final[g].status = "success" /\ final[g].read = got[g].read
            /\ final[g].supp = Snapshot(g, got[g].read)
        <5> DEFINE snap == Snapshot(g, got[g].read)
                   val == got[g].read
        <5>1. final[g] = [status |-> "success", read |-> val, supp |-> snap]
          BY <4>1 DEF Success
        <5>2. snap \in 0 .. MaxReads /\ val \in 0 .. MaxReads  BY <3>0, <4>4
        <5> HIDE DEF snap, val
        <5>3. /\ final[g] \in Quota /\ final[g].status = "success" /\ final[g].read = val
              /\ final[g].supp = snap
          <6> HIDE DEF final
          <6> QED BY <5>1, <5>2 DEF Quota
        <5> QED BY <5>3 DEF snap, val
      <4> HIDE DEF final
      <4> QED BY <3>0, <4>3, <4>5 DEF Sound
    <3>2. CASE ~(got[g].status = "success" /\ g # f)
      <4>1. final[g] = got[g]  BY <3>2
      <4> QED BY <1>8, <3>0, <4>1 DEF Sound
    <3> QED BY <3>1, <3>2
  <2>5. DOMAIN final = DOMAIN got
    OBVIOUS
  <2> HIDE DEF final
  <2>6. \A g \in QuotaFiles : quota'[g] = IF g \in DOMAIN got THEN final[g] ELSE quota[g]
    BY <2>1, <2>5 DEF BatchWrites
  <2>7. quota' \in [QuotaFiles -> Quota]
    BY <2>1, <2>4, <2>5 DEF BatchWrites, QuotaStore
  <2>8. \A g \in QuotaFiles : Sound(requestIds'[g], quota'[g])
    BY <1>11, <2>4, <2>6 DEF Sound
  <2>9. LoadingIsServed'
    <3> SUFFICES ASSUME NEW g \in QuotaFiles, quota'[g].status = "loading"
                 PROVE  singles'[g] > 0 \/ \E j \in Batches : g \in batches'[j].left \cup DOMAIN batches'[j].got
      BY DEF LoadingIsServed
    <3>1. g \notin DOMAIN got /\ quota[g].status = "loading"  BY <2>4, <2>6
    <3>2. g \notin batches[i].left \cup DOMAIN batches[i].got  BY <1>6, <1>12, <3>1 DEF before
    <3>3. singles[g] > 0 \/ \E j \in Batches : g \in batches[j].left \cup DOMAIN batches[j].got
      BY <3>1 DEF QuotaStore, LoadingIsServed
    <3> QED BY <1>2, <2>2, <3>2, <3>3
  <2> QED BY <1>2, <1>4, <2>2, <2>3, <2>7, <2>8, <2>9 DEF QuotaStore, Sound, Gathered
<1>13. CASE batches[i].left # {f}
  <2> DEFINE new == [batches[i] EXCEPT !.left = @ \ {f}, !.got = got]
  <2>1. batches' = [batches EXCEPT ![i].left = @ \ {f}, ![i].got = got] /\ UNCHANGED quota
    BY <1>1, <1>13 DEF final, got, before, answer, read
  <2>2. batches' = [batches EXCEPT ![i] = new]
    BY <2>1 DEF QuotaStore
  <2>3. new \in BatchType /\ new.left = batches[i].left \ {f} /\ new.got = got
    BY <1>3, <1>9 DEF BatchType
  <2> HIDE DEF new
  <2>4. /\ batches' \in [Batches -> BatchType] /\ batches'[i] = new
        /\ \A j \in Batches : j # i => batches'[j] = batches[j]
    BY <2>2, <2>3 DEF QuotaStore
  <2>5. \A j \in Batches : DOMAIN batches'[j].got \subseteq QuotaFiles \ batches'[j].left
                           /\ Gathered(requestIds', batches'[j])
    <3>1. DOMAIN got \subseteq QuotaFiles \ new.left  BY <1>2, <1>3, <1>6, <2>3 DEF before
    <3> SUFFICES ASSUME NEW j \in Batches
                 PROVE  DOMAIN batches'[j].got \subseteq QuotaFiles \ batches'[j].left
                        /\ Gathered(requestIds', batches'[j])
      OBVIOUS
    <3>2. CASE j = i
      BY <1>8, <2>3, <2>4, <3>1, <3>2 DEF Gathered
    <3>3. CASE j # i
      BY <1>10, <2>4, <3>3 DEF QuotaStore, Gathered
    <3> QED BY <3>2, <3>3
  <2>6. LoadingIsServed'
    <3>1. \A j \in Batches : batches[j].left \cup DOMAIN batches[j].got
                               = batches'[j].left \cup DOMAIN batches'[j].got
      BY <1>2, <1>6, <2>3, <2>4 DEF before
    <3> QED BY <1>2, <2>1, <3>1 DEF QuotaStore, LoadingIsServed
  <2> QED BY <1>2, <1>4, <1>11, <2>1, <2>4, <2>5, <2>6 DEF QuotaStore, Sound, Gathered
<1> QED BY <1>12, <1>13

\* One entry of the store is written, while the file has or needs no request.
LEMMA EntryKeeps ==
    ASSUME QuotaStore, NEW f \in QuotaFiles, NEW q \in Quota,
           requestIds' \in [QuotaFiles -> 0 .. MaxReads],
           \A g \in QuotaFiles : requestIds[g] <= requestIds'[g],
           suppCache' \in [QuotaFiles -> 0 .. MaxReads],
           supps' \subseteq [file : QuotaFiles, id : 1 .. MaxReads],
           singles' \in [QuotaFiles -> 0 .. MaxSingles],
           \A g \in QuotaFiles : g # f => singles'[g] = singles[g],
           Sound(requestIds'[f], q),
           q.status = "loading" => singles'[f] > 0,
           quota' = [quota EXCEPT ![f] = q], UNCHANGED batches
    PROVE  QuotaStore'
<1>1. quota' \in [QuotaFiles -> Quota] /\ \A g \in QuotaFiles : quota'[g] = IF g = f THEN q ELSE quota[g]
  BY DEF QuotaStore
<1>2. /\ \A g \in QuotaFiles : Sound(requestIds'[g], quota'[g])
      /\ \A i \in Batches : Gathered(requestIds', batches[i])
  BY <1>1, ReadsGrow DEF QuotaStore
<1>3. LoadingIsServed'
  BY <1>1 DEF QuotaStore, LoadingIsServed
<1> QED BY <1>1, <1>2, <1>3 DEF QuotaStore

LEMMA SameReads ==
    ASSUME QuotaStore
    PROVE  /\ \A g \in QuotaFiles : requestIds[g] \in Int /\ requestIds[g] <= requestIds[g] /\ 0 <= requestIds[g]
           /\ \A f \in QuotaFiles : Sound(requestIds[f], Loading) /\ Sound(requestIds[f], Failed)
                                    /\ Sound(requestIds[f], NoQuota)
BY DEF QuotaStore, Sound, Loading, Failed, NoQuota

LEMMA SingleAnswersKeeps ==
    ASSUME QuotaStore, NEW f \in QuotaFiles, SingleAnswers(f) PROVE QuotaStore'
<1>1. /\ singles[f] > 0 /\ singles' = [singles EXCEPT ![f] = @ - 1] /\ UNCHANGED batches
  BY DEF SingleAnswers
<1>2. /\ singles' \in [QuotaFiles -> 0 .. MaxSingles]
      /\ \A g \in QuotaFiles : g # f => singles'[g] = singles[g]
  BY <1>1, QuotaPanelAssumption DEF QuotaStore
<1>3. CASE /\ Schedule(f)
           /\ quota' = [quota EXCEPT ![f] = [status |-> "success", read |-> requestIds[f] + 1, supp |-> 0]]
  <2> DEFINE read == requestIds[f] + 1
             q == [status |-> "success", read |-> read, supp |-> 0]
  <2>1. /\ requestIds' \in [QuotaFiles -> 0 .. MaxReads] /\ suppCache' \in [QuotaFiles -> 0 .. MaxReads]
        /\ supps' \subseteq [file : QuotaFiles, id : 1 .. MaxReads]
        /\ requestIds'[f] = read /\ read \in 0 .. MaxReads
        /\ \A g \in QuotaFiles : requestIds[g] <= requestIds'[g]
    BY <1>3, ScheduleKeeps
  <2> HIDE DEF read
  <2>2. q \in Quota /\ q.read = read /\ q.supp = 0 /\ q.status = "success" /\ read <= read
    BY <2>1, QuotaPanelAssumption DEF Quota
  <2>3. quota' = [quota EXCEPT ![f] = q]  BY <1>3 DEF read
  <2> HIDE DEF q
  <2> QED BY <1>1, <1>2, <2>1, <2>2, <2>3, EntryKeeps DEF Sound
<1>4. CASE quota' = [quota EXCEPT ![f] = Failed] /\ UNCHANGED <<requestIds, suppCache, supps>>
  <2>1. Failed \in Quota /\ Failed.status # "loading"  BY QuotaValues DEF Failed
  <2> QED BY <1>1, <1>2, <1>4, <2>1, SameReads, EntryKeeps DEF QuotaStore
<1> QED BY <1>3, <1>4 DEF SingleAnswers

LEMMA SupplementaryKeeps ==
    ASSUME QuotaStore, NEW s \in supps, SupplementaryAnswers(s) PROVE QuotaStore'
<1> DEFINE f == s.file
           id == s.id
<1>1. /\ f \in QuotaFiles /\ id \in 1 .. MaxReads /\ id \in 0 .. MaxReads
  BY QuotaPanelAssumption DEF QuotaStore
<1>2. supps' = supps \ {s} /\ UNCHANGED <<batches, singles, requestIds>>
  BY DEF SupplementaryAnswers
<1>3. CASE ~IsLatest(s)
  <2>1. UNCHANGED <<suppCache, quota>>  BY <1>3 DEF SupplementaryAnswers
  <2> QED BY <1>2, <2>1 DEF QuotaStore, LoadingIsServed
<1>4. CASE IsLatest(s)
  <2>1. /\ suppCache' = [suppCache EXCEPT ![f] = id]
        /\ quota' = IF quota[f].status = "success" THEN [quota EXCEPT ![f].supp = id] ELSE quota
        /\ requestIds[f] = id
    BY <1>4 DEF SupplementaryAnswers, IsLatest
  <2>2. suppCache' \in [QuotaFiles -> 0 .. MaxReads]
    BY <1>1, <2>1 DEF QuotaStore
  <2>3. CASE quota[f].status # "success"
    <3>1. UNCHANGED quota  BY <2>1, <2>3
    <3> QED BY <1>2, <2>2, <3>1 DEF QuotaStore, LoadingIsServed
  <2>4. CASE quota[f].status = "success"
    <3> DEFINE q == [quota[f] EXCEPT !.supp = id]
    <3>1. quota' = [quota EXCEPT ![f] = q]  BY <1>1, <2>1, <2>4 DEF QuotaStore
    <3>2. quota[f] \in Quota /\ Sound(requestIds[f], quota[f])  BY <1>1 DEF QuotaStore
    <3> HIDE DEF id, f
    <3>3. q \in Quota /\ q.read = quota[f].read /\ q.supp = id /\ q.status = "success"
      BY <1>1, <2>4, <3>2 DEF Quota
    <3> HIDE DEF q
    <3>4. Sound(requestIds[f], q)
      <4>1. q.read \in Int /\ id \in Int /\ q.read <= id  BY <1>1, <2>1, <3>2, <3>3 DEF Sound, Quota
      <4> QED BY <2>1, <3>3, <4>1 DEF Sound
    <3>5. /\ singles' \in [QuotaFiles -> 0 .. MaxSingles] /\ \A g \in QuotaFiles : singles'[g] = singles[g]
          /\ requestIds' \in [QuotaFiles -> 0 .. MaxReads] /\ requestIds' = requestIds
          /\ supps' \subseteq [file : QuotaFiles, id : 1 .. MaxReads]
      BY <1>2 DEF QuotaStore
    <3> QED BY <1>1, <1>2, <2>2, <3>1, <3>3, <3>4, <3>5, SameReads, EntryKeeps
  <2> QED BY <2>3, <2>4
<1> QED BY <1>3, <1>4

LEMMA RefreshFileKeeps ==
    ASSUME QuotaStore, NEW f \in QuotaFiles, RefreshFile(f) PROVE QuotaStore'
<1>1. /\ singles[f] < MaxSingles /\ quota' = [quota EXCEPT ![f] = Loading]
      /\ singles' = [singles EXCEPT ![f] = @ + 1]
      /\ UNCHANGED <<batches, requestIds, suppCache, supps>>
  BY DEF RefreshFile
<1>2. /\ singles' \in [QuotaFiles -> 0 .. MaxSingles] /\ singles'[f] > 0
      /\ \A g \in QuotaFiles : g # f => singles'[g] = singles[g]
  BY <1>1, QuotaPanelAssumption DEF QuotaStore
<1> QED BY <1>1, <1>2, QuotaValues, SameReads, EntryKeeps DEF QuotaStore

LEMMA ListAnswersKeeps ==
    ASSUME QuotaInv, ListAnswers PROVE QuotaInv'
<1>0. MaxLists \in Nat /\ lists \in 0 .. MaxLists /\ (pending => filesLoading) /\ pending \in BOOLEAN
  BY QuotaPanelAssumption DEF QuotaInv, QuotaFlags, RefreshIsServed
<1>1. /\ lists > 0 /\ lists' = lists - 1 /\ files' \in SUBSET QuotaFiles /\ filesLoading' = FALSE
      /\ UNCHANGED <<open, singles, requestIds, suppCache, supps>>
  BY DEF ListAnswers
<1>2. /\ Pruned(files') \in [QuotaFiles -> Quota]
      /\ \A f \in QuotaFiles : Pruned(files')[f] \in {quota[f], NoQuota}
  BY QuotaValues DEF Pruned, QuotaInv, QuotaStore
<1>3. ASSUME pending' = FALSE PROVE QuotaFlags'
  <2>1. lists' \in 0 .. MaxLists  BY <1>0, <1>1
  <2>2. open \in BOOLEAN  BY DEF QuotaInv, QuotaFlags
  <2>3. RefreshIsServed'  BY <1>3 DEF RefreshIsServed
  <2> QED BY <1>1, <1>3, <2>1, <2>2, <2>3 DEF QuotaFlags
<1>4. CASE pending /\ LoadEnded(files')
  <2>1. PICK cards \in SUBSET files' : LoadQuota(cards, Pruned(files'))
    BY <1>4 DEF ListAnswers
  <2>2. cards \in SUBSET QuotaFiles  BY <1>1
  <2>3. QuotaStore'  BY <1>1, <1>2, <2>1, <2>2, LoadQuotaKeeps DEF QuotaInv
  <2>4. pending' = FALSE  BY <1>4 DEF ListAnswers
  <2> QED BY <1>3, <2>3, <2>4 DEF QuotaInv
<1>5. CASE ~(pending /\ LoadEnded(files'))
  <2>1. UNCHANGED <<pending, batches>> /\ quota' = Pruned(files')  BY <1>5 DEF ListAnswers
  <2>2. ~pending  BY <1>0, <1>5 DEF LoadEnded
  <2>3. \A f \in QuotaFiles : Sound(requestIds[f], quota'[f])
    BY <1>2, <2>1, SameReads DEF QuotaInv, QuotaStore
  <2>4. LoadingIsServed'
    <3>1. NoQuota.status # "loading"  BY DEF NoQuota
    <3> QED BY <1>1, <1>2, <2>1, <3>1 DEF QuotaInv, QuotaStore, LoadingIsServed
  <2>5. QuotaStore'
    BY <1>1, <1>2, <2>1, <2>3, <2>4 DEF QuotaInv, QuotaStore
  <2>6. pending' = FALSE  BY <1>0, <2>1, <2>2
  <2> QED BY <1>3, <2>5, <2>6 DEF QuotaInv
<1> QED BY <1>4, <1>5

LEMMA ClosePageKeeps == ASSUME QuotaInv, ClosePage PROVE QuotaInv'
<1>1. /\ open' = FALSE /\ files' = {} /\ pending' = FALSE /\ filesLoading' = TRUE /\ lists' = 0
      /\ batches' = [i \in Batches |-> [batches[i] EXCEPT !.mine = FALSE]]
      /\ UNCHANGED <<quota, singles, requestIds, suppCache, supps>>
  BY DEF ClosePage
<1>2. \A i \in Batches : /\ batches'[i] \in BatchType /\ batches'[i].left = batches[i].left
                         /\ batches'[i].got = batches[i].got
  BY <1>1 DEF QuotaInv, QuotaStore, BatchType
<1>3. batches' \in [Batches -> BatchType]  BY <1>1, <1>2
<1>4. QuotaStore'
  BY <1>1, <1>2, <1>3 DEF QuotaInv, QuotaStore, LoadingIsServed, Gathered
<1>5. 0 \in 0 .. MaxLists  BY QuotaPanelAssumption
<1>6. RefreshIsServed'  BY <1>1 DEF RefreshIsServed
<1>7. QuotaFlags'  BY <1>1, <1>5, <1>6 DEF QuotaFlags
<1> QED BY <1>4, <1>7 DEF QuotaInv

LEMMA QuotaInitOK == QuotaInit => QuotaInv
<1> SUFFICES ASSUME QuotaInit PROVE QuotaInv
  OBVIOUS
<1>1. /\ open = FALSE /\ files = {} /\ filesLoading = TRUE /\ lists = 0 /\ pending = FALSE
      /\ quota = [f \in QuotaFiles |-> NoQuota] /\ batches = [i \in Batches |-> NoBatch]
      /\ singles = [f \in QuotaFiles |-> 0] /\ requestIds = [f \in QuotaFiles |-> 0]
      /\ suppCache = [f \in QuotaFiles |-> 0] /\ supps = {}
  BY DEF QuotaInit
<1>2. 0 \in 0 .. MaxReads /\ 0 \in 0 .. MaxSingles /\ 0 \in 0 .. MaxLists
  BY QuotaPanelAssumption
<1>3. \A f \in QuotaFiles : Sound(requestIds[f], quota[f]) /\ quota[f].status # "loading"
  BY <1>1 DEF NoQuota, Sound
<1>4. \A i \in Batches : /\ DOMAIN batches[i].got \subseteq QuotaFiles \ batches[i].left
                         /\ Gathered(requestIds, batches[i])
  BY <1>1, QuotaValues DEF Gathered
<1>5. quota \in [QuotaFiles -> Quota] /\ batches \in [Batches -> BatchType]
  BY <1>1, QuotaValues
<1> QED BY <1>1, <1>2, <1>3, <1>4, <1>5
        DEF QuotaInv, QuotaFlags, QuotaStore, LoadingIsServed, RefreshIsServed

LEMMA QuotaStep == ASSUME QuotaInv, [QuotaNext]_quotaVars PROVE QuotaInv'
<1>0. MaxLists \in Nat /\ lists \in 0 .. MaxLists /\ QuotaFlags /\ QuotaStore
  BY QuotaPanelAssumption DEF QuotaInv, QuotaFlags
<1>1. ASSUME filesLoading' = TRUE, lists' = lists + 1, lists < MaxLists, open' \in BOOLEAN,
             pending' \in BOOLEAN, UNCHANGED <<files, quota, batches, singles, requestIds, suppCache, supps>>
      PROVE  QuotaInv'
  <2>1. lists' \in 0 .. MaxLists /\ lists' > 0  BY <1>0, <1>1
  <2> QED BY <1>1, <2>1 DEF QuotaInv, QuotaFlags, QuotaStore, RefreshIsServed, LoadingIsServed
<1>2. ASSUME QuotaStore', UNCHANGED <<open, files, filesLoading, lists, pending>> PROVE QuotaInv'
  BY <1>2 DEF QuotaInv, QuotaFlags, RefreshIsServed
<1>3. CASE OpenPage \/ HeaderRefresh \/ RefreshSection
  BY <1>1, <1>3 DEF OpenPage, HeaderRefresh, RefreshSection, LoadFiles, QuotaInv, QuotaFlags
<1>4. CASE ClosePage
  BY <1>4, ClosePageKeeps
<1>5. CASE ListAnswers
  BY <1>5, ListAnswersKeeps
<1>6. ASSUME NEW f \in QuotaFiles, RefreshFile(f) PROVE QuotaInv'
  BY <1>0, <1>2, <1>6, RefreshFileKeeps DEF RefreshFile
<1>7. ASSUME NEW f \in QuotaFiles, SingleAnswers(f) PROVE QuotaInv'
  BY <1>0, <1>2, <1>7, SingleAnswersKeeps DEF SingleAnswers
<1>8. ASSUME NEW i \in Batches, NEW f \in QuotaFiles, BatchAnswers(i, f) PROVE QuotaInv'
  <2>1. UNCHANGED <<open, files, filesLoading, lists, pending>>  BY <1>8 DEF BatchAnswers
  <2> QED BY <1>0, <1>2, <1>8, <2>1, BatchAnswersKeeps
<1>9. ASSUME NEW s \in supps, SupplementaryAnswers(s) PROVE QuotaInv'
  BY <1>0, <1>2, <1>9, SupplementaryKeeps DEF SupplementaryAnswers
<1>10. CASE UNCHANGED quotaVars
  BY <1>10 DEF quotaVars, QuotaInv, QuotaFlags, QuotaStore, RefreshIsServed, LoadingIsServed
<1> QED BY <1>3, <1>4, <1>5, <1>6, <1>7, <1>8, <1>9, <1>10 DEF QuotaNext

LEMMA QuotaTypes == ASSUME QuotaInv PROVE QuotaTypeOK
BY DEF QuotaInv, QuotaFlags, QuotaStore, QuotaTypeOK, BatchType

\* The state of the quota page and of its store has its type.
THEOREM QuotaTyped == QuotaSpec => []QuotaTypeOK
BY QuotaTypes, QuotaInitOK, QuotaStep, PTL DEF QuotaSpec

\* A file the store calls loading has a request under way that ends it, though
\* the store outlives the page, the list prunes it and batches and refreshes of
\* one file overlap (useQuotaLoader.ts, QuotaSection.tsx, useQuotaStore.ts).
THEOREM CardsAreServed == QuotaSpec => []LoadingIsServed
<1>1. QuotaInv => LoadingIsServed
  BY DEF QuotaInv, QuotaStore
<1> QED BY <1>1, QuotaInitOK, QuotaStep, PTL DEF QuotaSpec

\* The tier and credits on a card are never of an earlier read than its buckets,
\* in whatever order the answers come (scheduleGeminiCliSupplementaryRefresh).
THEOREM SupplementaryIsFresh == QuotaSpec => []SupplementaryIsNotOlder
<1>1. QuotaInv => SupplementaryIsNotOlder
  BY DEF QuotaInv, QuotaStore, Sound, SupplementaryIsNotOlder
<1> QED BY <1>1, QuotaInitOK, QuotaStep, PTL DEF QuotaSpec

\* A refresh of the section always waits for a list that is under way
\* (pendingQuotaRefreshRef in QuotaSection.tsx).
THEOREM PendingIsServed == QuotaSpec => []RefreshIsServed
<1>1. QuotaInv => RefreshIsServed
  BY DEF QuotaInv, QuotaFlags
<1> QED BY <1>1, QuotaInitOK, QuotaStep, PTL DEF QuotaSpec

(***************************************************************************)
(* The local inspection.  Between the sessions and the page: the session   *)
(* the page follows is of the connection in use, is live only while the    *)
(* page says so, and has ended once the page says that; and a page that    *)
(* executes actions follows no live run, so that what an execution leaves  *)
(* cannot be taken for a run's results.                                    *)
(***************************************************************************)

Live == {"running", "paused"}
SessionType ==
    [status : {"idle", "running", "paused", "stopped", "completed"},
     site : Sites \cup {NoSite}, page : 0 .. MaxRuns, listing : BOOLEAN,
     sampled : SUBSET Accounts, left : SUBSET Accounts,
     flight : SUBSET Accounts, got : Items, settled : BOOLEAN]
PageType ==
    [page : 0 .. MaxRuns, active : 0 .. MaxRuns,
     run : {"idle", "running", "paused", "success", "error"}, result : Result]
ExecutionType == [page : 1 .. MaxRuns, result : Result, todo : Items, done : SUBSET Accounts]

\* Whoever waits for session x waits for something of it that is under way.
Served(x) == x.status \in {"running", "stopped"} /\ ~x.settled => x.listing \/ x.flight # {}

SessionsOK(ss) == ss \in [Runs -> SessionType] /\ \A r \in Runs : Served(ss[r])

\* Page p, of connection c, with the sessions ss and the executions ex.
PageOK(p, c, ss, ex) ==
    /\ p \in PageType
    /\ p.page = 0 => p = Closed
    /\ p.result.run # 0 => p.result.site = c
    /\ p.run \in Live /\ p.result.run # 0 => p.result.run = p.active
    /\ p.active # 0 => /\ ss[p.active].site = c
                       /\ ss[p.active].status \in Live => p.run \in Live
                       /\ p.run = "success" => ss[p.active].settled
    /\ \A e \in ex : e.page = p.page => p.run \notin Live /\ e.result.site = c

ExecutingOK(ex, n) == ex \subseteq ExecutionType /\ \A e \in ex : e.page <= n

InspectionInv ==
    /\ site \in Sites \cup {NoSite} /\ pages \in 0 .. MaxRuns /\ stored \in Result
    /\ SessionsOK(sessions) /\ ExecutingOK(executing, pages)
    /\ PageOK(shown, site, sessions, executing) /\ shown.page \in {0, pages}

LEMMA ItemsAre ==
    /\ \A g \in Items : DOMAIN g \in SUBSET Accounts /\ \A a \in DOMAIN g : g[a] \in Actions
    /\ \A s \in SUBSET Accounts : \A g \in [s -> Actions] : g \in Items
BY DEF Items

LEMMA InspectionValues ==
    /\ NoItems \in Items /\ NoResult \in Result /\ NoResult.run = 0 /\ NoSession \in SessionType
    /\ Closed \in PageType /\ Closed.page = 0 /\ Closed.active = 0 /\ Closed.result = NoResult
    /\ Closed.run \notin Live /\ 0 \in 0 .. MaxRuns /\ MaxRuns \in Nat
<1>1. 0 \in 0 .. MaxRuns /\ MaxRuns \in Nat  BY InspectionAssumption
<1>2. NoItems \in [{} -> Actions]  BY DEF NoItems
<1>3. NoItems \in Items  BY <1>2, ItemsAre
<1>4. NoResult \in Result /\ NoResult.run = 0  BY <1>1, <1>3 DEF NoResult, Result
<1>5. NoSession \in SessionType  BY <1>1, <1>3 DEF NoSession, SessionType
<1>6. /\ Closed \in PageType /\ Closed.page = 0 /\ Closed.active = 0 /\ Closed.result = NoResult
      /\ Closed.run \notin Live
  BY <1>1, <1>4 DEF Closed, PageType, Live
<1> QED BY <1>1, <1>3, <1>4, <1>5, <1>6

LEMMA SettleKeeps ==
    ASSUME NEW x \in SessionType
    PROVE  LET y == MaybeSettle(x) IN
           /\ y \in SessionType /\ y.site = x.site /\ y.listing = x.listing
           /\ y.left = x.left /\ y.flight = x.flight
           /\ y.status \in {x.status, "completed"} /\ (x.settled => y.settled)
           /\ ~y.settled => y.status = x.status
           /\ ~y.settled /\ y.status = "stopped" => y.flight # {}
           /\ ~y.settled /\ y.status # "stopped" => y.left # {} \/ y.flight # {}
<1> DEFINE y == MaybeSettle(x)
<1>1. CASE x.settled
  BY <1>1 DEF MaybeSettle, SessionType
<1>2. CASE ~x.settled /\ x.status = "stopped"
  <2> DEFINE ended == x.flight = {}
  <2>1. y = [x EXCEPT !.settled = ended]  BY <1>2 DEF MaybeSettle
  <2>2. ended \in BOOLEAN
    OBVIOUS
  <2>3. ended <=> x.flight = {}
    OBVIOUS
  <2> HIDE DEF ended
  <2>4. /\ y \in SessionType /\ y.site = x.site /\ y.listing = x.listing /\ y.left = x.left
        /\ y.flight = x.flight /\ y.status = x.status /\ y.settled = ended
    BY <2>1, <2>2 DEF SessionType
  <2> QED BY <1>2, <2>3, <2>4
<1>3. CASE ~x.settled /\ x.status # "stopped" /\ Exhausted(x)
  <2>1. y = [x EXCEPT !.settled = TRUE, !.status = "completed"]  BY <1>3 DEF MaybeSettle
  <2>2. /\ y \in SessionType /\ y.site = x.site /\ y.listing = x.listing /\ y.left = x.left
        /\ y.flight = x.flight /\ y.status = "completed" /\ y.settled
    BY <2>1 DEF SessionType
  <2> QED BY <2>2
<1>4. CASE ~x.settled /\ x.status # "stopped" /\ ~Exhausted(x)
  BY <1>4 DEF MaybeSettle, Exhausted
<1> QED BY <1>1, <1>2, <1>3, <1>4

\* A session that has started what it may is served.
LEMMA PumpKeeps ==
    ASSUME NEW x \in SessionType, NEW y \in Pumped(x)
    PROVE  /\ y \in SessionType /\ y.site = x.site /\ Served(y)
           /\ y.status \in Live => x.status = y.status
           /\ x.settled => y.settled
<1>1. PICK s \in Startable(x) : y = MaybeSettle([x EXCEPT !.left = @ \ s, !.flight = @ \cup s])
  BY DEF Pumped
<1> DEFINE z == [x EXCEPT !.left = @ \ s, !.flight = @ \cup s]
<1>2. s \in SUBSET x.left
  BY DEF Startable
<1>3. /\ z \in SessionType /\ z.site = x.site /\ z.status = x.status
      /\ z.left = x.left \ s /\ z.flight = x.flight \cup s /\ z.settled = x.settled
  BY <1>2 DEF SessionType
<1> HIDE DEF z
<1>4. /\ y \in SessionType /\ y.site = z.site /\ y.left = z.left /\ y.flight = z.flight
      /\ y.status \in {z.status, "completed"} /\ (~y.settled => y.status = z.status)
      /\ z.settled => y.settled
      /\ ~y.settled /\ y.status = "stopped" => y.flight # {}
      /\ ~y.settled /\ y.status # "stopped" => y.left # {} \/ y.flight # {}
  BY <1>1, <1>3, SettleKeeps DEF z
<1>5. ASSUME y.status = "running", ~y.settled, y.flight = {} PROVE FALSE
  <2>1. x.status = "running" /\ s = {} /\ x.flight = {} /\ x.left # {}
    BY <1>3, <1>4, <1>5
  <2>2. IsFiniteSet(x.left)  BY InspectionAssumption, FS_Subset DEF SessionType
  <2>3. Cardinality(x.left) \in Nat /\ Cardinality(x.left) # 0
    BY <2>1, <2>2, FS_CardinalityType, FS_EmptySet
  <2>4. Cardinality({}) = 0  BY FS_EmptySet
  <2>5. Workers - Cardinality(x.flight) = Workers /\ Workers \in Nat /\ Workers # 0
    BY <2>1, <2>4, InspectionAssumption
  <2>6. Cardinality(s) = IF Cardinality(x.left) < Workers - Cardinality(x.flight)
                         THEN Cardinality(x.left) ELSE Workers - Cardinality(x.flight)
    BY <2>1 DEF Startable
  <2>7. Cardinality(s) # 0  BY <2>3, <2>5, <2>6
  <2> QED BY <2>1, <2>4, <2>7
<1> QED BY <1>3, <1>4, <1>5 DEF Served, Live

\* What the settings carry out of a run.
LEMMA AutoItems ==
    ASSUME NEW mode \in AutoModes, NEW items \in Items
    PROVE  AutoActionItems(mode, items) \in Items
<1> DEFINE acted == {a \in DOMAIN items : IF mode = "enable" THEN items[a] = "enable"
                                          ELSE mode # "none" /\ items[a] \in Executable}
           value(a) == IF mode = "disable" /\ items[a] = "delete" THEN "disable" ELSE items[a]
<1>1. acted \in SUBSET Accounts /\ \A a \in acted : items[a] \in Actions
  BY ItemsAre
<1>2. \A a \in acted : value(a) \in Actions
  BY <1>1 DEF Actions, Executable
<1>3. AutoActionItems(mode, items) = [a \in acted |-> value(a)]
  BY DEF AutoActionItems
<1> HIDE DEF acted, value
<1>4. AutoActionItems(mode, items) \in [acted -> Actions]  BY <1>2, <1>3
<1> QED BY <1>1, <1>4, ItemsAre

\* A step of session r, after which it is y, and what the page makes of it: p is
\* the page after what the step itself reports.
LEMMA ShowKeeps ==
    ASSUME InspectionInv, NEW r \in Runs, NEW y \in SessionType, NEW p \in PageType,
           NEW mode \in AutoModes, Show(r, y, p, mode), UNCHANGED <<site, pages>>,
           sessions' = [sessions EXCEPT ![r] = y], y.site = sessions[r].site, Served(y),
           sessions[r].settled => y.settled,
           Hears(r) =>
             /\ p.page = shown.page /\ p.active = r /\ p.run \in {shown.run, "running", "paused"}
             /\ p.result = shown.result \/ (p.result.run = r /\ p.result.site = y.site)
             /\ (y.status \in Live \/ p.run \in Live) => shown.run \in Live
    PROVE  InspectionInv'
<1> DEFINE q == IF Hears(r) THEN Follow(r, y, p) ELSE shown
           todo == AutoActionItems(mode, y.got)
           won == [p EXCEPT !.run = "success",
                            !.result = [run |-> r, site |-> y.site, items |-> y.got, finished |-> TRUE]]
           finishes == Hears(r) /\ q.run = "success" /\ ~sessions[r].settled
           new == [page |-> q.page, result |-> q.result, todo |-> todo, done |-> {}]
<1>0. /\ site \in Sites \cup {NoSite} /\ pages \in 0 .. MaxRuns /\ stored \in Result
      /\ sessions \in [Runs -> SessionType] /\ \A u \in Runs : Served(sessions[u])
      /\ ExecutingOK(executing, pages) /\ shown.page \in {0, pages}
      /\ PageOK(shown, site, sessions, executing) /\ shown \in PageType
  BY DEF InspectionInv, SessionsOK, PageOK
<1>1. SessionsOK(sessions')
  BY <1>0 DEF SessionsOK
<1>2. /\ shown' = q
      /\ executing' = IF finishes /\ todo # NoItems THEN executing \cup {new} ELSE executing
      /\ stored' \in {stored, q.result}
  BY DEF Show, Save
<1>3. sessions'[r] = y /\ \A u \in Runs : u # r => sessions'[u] = sessions[u]
  BY <1>0
<1>4. CASE ~Hears(r)
  <2>1. shown' = shown /\ executing' = executing /\ stored' \in Result
    BY <1>0, <1>2, <1>4 DEF PageType
  <2>2. shown.active # 0 => shown.active # r /\ shown.active \in Runs
    BY <1>0, <1>4, InspectionValues DEF Hears, PageOK, PageType, Runs
  <2>3. PageOK(shown, site, sessions', executing)
    BY <1>0, <1>3, <2>2 DEF PageOK
  <2> QED BY <1>0, <1>1, <2>1, <2>3 DEF InspectionInv
<1>5. CASE Hears(r)
  <2>0. /\ p.page = shown.page /\ p.active = r /\ shown.page # 0 /\ shown.active = r /\ r # 0
        /\ p.result = shown.result \/ (p.result.run = r /\ p.result.site = y.site)
        /\ (y.status \in Live \/ p.run \in Live) => shown.run \in Live
        /\ sessions[r].site = site /\ y.site = site
        /\ p.run = "success" => sessions[r].settled /\ y.settled
    <3>1. r # 0  BY DEF Runs
    <3>2. shown.page # 0 /\ shown.active = r  BY <1>5 DEF Hears
    <3> QED BY <1>0, <1>5, <3>1, <3>2 DEF PageOK
  <2>1. \A e \in executing : e.page = shown.page => shown.run \notin Live /\ e.result.site = site
    BY <1>0 DEF PageOK
  <2>2. p.result.run # 0 => p.result.site = site
    BY <1>0, <2>0 DEF PageOK
  <2>3. shown.run \in Live /\ p.result.run # 0 => p.result.run = r
    BY <1>0, <2>0 DEF PageOK
  <2>4. ASSUME NEW run \in {"idle", "running", "paused", "success", "error"},
               q = [p EXCEPT !.run = run], run \in Live => shown.run \in Live,
               y.status \in Live => run \in Live, run = "success" => y.settled,
               executing' = executing
        PROVE  InspectionInv'
    <3>1. /\ q \in PageType /\ q.page = shown.page /\ q.active = r /\ q.result = p.result
          /\ q.run = run
      BY <2>0, <2>4 DEF PageType
    <3> HIDE DEF q
    <3>2. PageOK(q, site, sessions', executing)
      BY <1>3, <2>0, <2>1, <2>2, <2>3, <2>4, <3>1 DEF PageOK
    <3>3. q.result \in Result  BY <3>1 DEF PageType
    <3> QED BY <1>0, <1>1, <1>2, <2>4, <3>1, <3>2, <3>3 DEF InspectionInv
  <2>5. CASE y.status \in Live
    <3>1. q = [p EXCEPT !.run = y.status]
      BY <1>5, <2>5 DEF Follow, Live
    <3>2. q.run = y.status  BY <3>1 DEF PageType
    <3>3. ~finishes  BY <2>5, <3>2 DEF Live
    <3>4. executing' = executing  BY <1>2, <3>3
    <3>5. y.status \in {"idle", "running", "paused", "success", "error"} /\ y.status # "success"
      BY <2>5 DEF Live
    <3> HIDE DEF q
    <3> QED BY <2>0, <2>4, <2>5, <3>1, <3>4, <3>5
  <2>6. CASE y.status \notin Live /\ ~(y.settled /\ ~sessions[r].settled /\ y.status = "completed")
    <3>1. q = p
      BY <1>5, <2>6 DEF Follow, Live
    <3>2. p = [p EXCEPT !.run = p.run] /\ p.run \in {"idle", "running", "paused", "success", "error"}
      BY DEF PageType
    <3>3. ~finishes  BY <2>0, <3>1
    <3>4. executing' = executing  BY <1>2, <3>3
    <3> QED BY <2>0, <2>4, <2>6, <3>1, <3>2, <3>4
  <2>7. CASE y.settled /\ ~sessions[r].settled /\ y.status = "completed"
    <3>1. q = won  BY <1>5, <2>7 DEF Follow
    <3> DEFINE res == [run |-> r, site |-> y.site, items |-> y.got, finished |-> TRUE]
    <3>2. res \in Result /\ res.site = site /\ r \in 0 .. MaxRuns
      BY <2>0, <1>0 DEF SessionType, Result, Runs
    <3>3. q = [p EXCEPT !.run = "success", !.result = res]  BY <3>1
    <3> HIDE DEF res, q
    <3>4. /\ q \in PageType /\ q.page = shown.page /\ q.active = r /\ q.result = res
          /\ q.run = "success"
      BY <2>0, <3>2, <3>3 DEF PageType
    <3>5. new \in ExecutionType /\ new.page = shown.page /\ new.result = res
      <4>1. todo \in Items  BY AutoItems DEF SessionType
      <4>2. shown.page \in 1 .. MaxRuns  BY <1>0, <2>0
      <4> HIDE DEF todo
      <4> QED BY <3>2, <3>4, <4>1, <4>2 DEF ExecutionType
    <3> HIDE DEF new
    <3>6. executing' \in {executing, executing \cup {new}}  BY <1>2
    <3>7. ExecutingOK(executing', pages)
      <4>1. new.page <= pages  BY <1>0, <2>0, <3>5
      <4> QED BY <1>0, <3>5, <3>6, <4>1 DEF ExecutingOK
    <3>8. PageOK(q, site, sessions', executing')
      BY <1>3, <2>0, <2>1, <2>7, <3>2, <3>4, <3>5, <3>6 DEF PageOK, Live
    <3>9. stored' \in Result  BY <1>0, <1>2, <3>2, <3>4
    <3> QED BY <1>0, <1>1, <1>2, <3>4, <3>7, <3>8, <3>9 DEF InspectionInv
  <2> QED BY <2>5, <2>6, <2>7
<1> QED BY <1>4, <1>5

\* A session goes on by itself: what it was asked to do, it still does.
LEMMA StepOfSession ==
    ASSUME InspectionInv, NEW r \in Runs, NEW x \in SessionType, NEW y \in Pumped(x), NEW p \in PageType,
           NEW mode \in AutoModes, Show(r, y, p, mode), UNCHANGED <<site, pages>>,
           sessions' = [sessions EXCEPT ![r] = y], x.site = sessions[r].site,
           x.status = sessions[r].status, x.settled = sessions[r].settled,
           p.page = shown.page, p.active = shown.active, p.run = shown.run,
           p.result = shown.result \/ (p.result.run = r /\ p.result.site = x.site)
    PROVE  InspectionInv'
<1>1. /\ y \in SessionType /\ y.site = x.site /\ Served(y)
      /\ y.status \in Live => x.status = y.status
      /\ x.settled => y.settled
  BY PumpKeeps
<1>2. Hears(r) /\ x.status \in Live => shown.run \in Live
  <2>1. r # 0  BY DEF Runs
  <2> QED BY <2>1 DEF Hears, InspectionInv, PageOK
<1> QED BY <1>1, <1>2, ShowKeeps DEF Hears

LEMMA ListAnsweredKeeps ==
    ASSUME InspectionInv, NEW r \in Runs, NEW sample \in SUBSET Accounts, NEW mode \in AutoModes,
           ListAnswered(r, sample, mode)
    PROVE  InspectionInv'
<1> DEFINE x == [sessions[r] EXCEPT !.listing = FALSE, !.sampled = sample, !.left = sample]
<1>0. sessions[r] \in SessionType /\ shown \in PageType
  BY DEF InspectionInv, SessionsOK, PageOK
<1>1. /\ x \in SessionType /\ x.site = sessions[r].site /\ x.status = sessions[r].status
      /\ x.settled = sessions[r].settled
  BY <1>0 DEF SessionType
<1>2. PICK y \in Pumped(x) : sessions' = [sessions EXCEPT ![r] = y] /\ Show(r, y, shown, mode)
  BY DEF ListAnswered
<1> HIDE DEF x
<1>3. UNCHANGED <<site, pages>>  BY DEF ListAnswered
<1> QED BY <1>0, <1>1, <1>2, <1>3, StepOfSession DEF Hears

LEMMA ProbeEndsKeeps ==
    ASSUME InspectionInv, NEW r \in Runs, NEW a \in Accounts, NEW action \in Probed,
           NEW mode \in AutoModes, ProbeEnds(r, a, action, mode)
    PROVE  InspectionInv'
<1> DEFINE old == sessions[r].got
           got == [b \in DOMAIN old \cup {a} |-> IF b = a THEN action ELSE old[b]]
           x == [sessions[r] EXCEPT !.flight = @ \ {a}, !.got = got]
           res == [run |-> r, site |-> x.site, items |-> x.got, finished |-> FALSE]
           p == IF action = "keep" THEN shown ELSE [shown EXCEPT !.result = res]
<1>0. sessions[r] \in SessionType /\ shown \in PageType /\ old \in Items
  BY DEF InspectionInv, SessionsOK, PageOK, SessionType
<1>1. PICK y \in Pumped(x) : sessions' = [sessions EXCEPT ![r] = y] /\ Show(r, y, p, mode)
  BY DEF ProbeEnds
<1>2. got \in Items
  <2>1. action \in Actions  BY InspectionAssumption DEF Actions, Executable
  <2>2. DOMAIN old \cup {a} \in SUBSET Accounts /\ \A b \in DOMAIN old : old[b] \in Actions
    BY <1>0, ItemsAre
  <2> HIDE DEF old
  <2>3. got \in [DOMAIN old \cup {a} -> Actions]  BY <2>1, <2>2
  <2> QED BY <2>2, <2>3, ItemsAre
<1> HIDE DEF got
<1>3. /\ x \in SessionType /\ x.site = sessions[r].site /\ x.status = sessions[r].status
      /\ x.settled = sessions[r].settled
  BY <1>0, <1>2 DEF SessionType
<1> HIDE DEF x
<1>4. res \in Result /\ res.run = r /\ res.site = x.site
  BY <1>3, InspectionValues DEF SessionType, Result, Runs
<1> HIDE DEF res
<1>5. /\ p \in PageType /\ p.page = shown.page /\ p.active = shown.active /\ p.run = shown.run
      /\ p.result = shown.result \/ p.result = res
  BY <1>0, <1>4 DEF PageType
<1> HIDE DEF p
<1>6. UNCHANGED <<site, pages>>  BY DEF ProbeEnds
<1> QED BY <1>0, <1>1, <1>3, <1>4, <1>5, <1>6, StepOfSession

LEMMA PauseKeeps ==
    ASSUME InspectionInv, NEW mode \in AutoModes, PauseInspection(mode) PROVE InspectionInv'
<1> DEFINE r == shown.active
           z == [sessions[r] EXCEPT !.status = "paused"]
           x == MaybeSettle(z)
           p == [shown EXCEPT !.run = "paused"]
<1>0. /\ shown.run = "running" /\ r # 0 /\ sessions[r].status = "running" /\ UNCHANGED <<site, pages>>
      /\ sessions' = [sessions EXCEPT ![r] = x] /\ Show(r, x, p, mode)
  BY DEF PauseInspection
<1>1. shown \in PageType /\ r \in Runs /\ sessions[r] \in SessionType
  <2>1. shown \in PageType  BY DEF InspectionInv, PageOK
  <2>2. r \in Runs  BY <1>0, <2>1, InspectionValues DEF PageType, Runs
  <2> QED BY <2>1, <2>2 DEF InspectionInv, SessionsOK
<1>2. /\ z \in SessionType /\ z.site = sessions[r].site /\ z.status = "paused"
      /\ z.settled = sessions[r].settled
  BY <1>1 DEF SessionType
<1>3. /\ p \in PageType /\ p.page = shown.page /\ p.active = r /\ p.run = "paused"
      /\ p.result = shown.result
  BY <1>1 DEF PageType
<1> HIDE DEF z, p, r
<1>4. /\ x \in SessionType /\ x.site = z.site /\ (z.settled => x.settled)
      /\ x.status \in {"paused", "completed"}
  BY <1>2, SettleKeeps
<1>5. Served(x)  BY <1>4 DEF Served
<1> HIDE DEF x
<1> QED BY <1>0, <1>1, <1>2, <1>3, <1>4, <1>5, ShowKeeps DEF Live, r

LEMMA ResumeKeeps ==
    ASSUME InspectionInv, NEW mode \in AutoModes, ResumeInspection(mode) PROVE InspectionInv'
<1> DEFINE r == shown.active
           z == [sessions[r] EXCEPT !.status = "running"]
           p == [shown EXCEPT !.run = "running"]
<1>0. shown.run = "paused" /\ r # 0 /\ sessions[r].status = "paused" /\ UNCHANGED <<site, pages>>
  BY DEF ResumeInspection
<1>1. PICK y \in Pumped(z) : sessions' = [sessions EXCEPT ![r] = y] /\ Show(r, y, p, mode)
  BY DEF ResumeInspection
<1>2. shown \in PageType /\ r \in Runs /\ sessions[r] \in SessionType
  <2>1. shown \in PageType  BY DEF InspectionInv, PageOK
  <2>2. r \in Runs  BY <1>0, <2>1, InspectionValues DEF PageType, Runs
  <2> QED BY <2>1, <2>2 DEF InspectionInv, SessionsOK
<1>3. /\ z \in SessionType /\ z.site = sessions[r].site /\ z.settled = sessions[r].settled
  BY <1>2 DEF SessionType
<1>4. /\ p \in PageType /\ p.page = shown.page /\ p.active = r /\ p.run = "running"
      /\ p.result = shown.result
  BY <1>2 DEF PageType
<1> HIDE DEF z, p, r
<1>5. y \in SessionType /\ y.site = z.site /\ (z.settled => y.settled) /\ Served(y)
  BY <1>3, PumpKeeps
<1> QED BY <1>0, <1>1, <1>2, <1>3, <1>4, <1>5, ShowKeeps DEF Live, r

\* A session that is stopped, and no other.
LEMMA StoppedKeeps ==
    ASSUME SessionsOK(sessions), NEW r \in 0 .. MaxRuns
    PROVE  /\ SessionsOK(Stopped(r)) /\ \A u \in Runs : u # r => Stopped(r)[u] = sessions[u]
<1>1. CASE r = 0 \/ sessions[r].status \in {"completed", "stopped", "idle"}
  BY <1>1 DEF Stopped
<1>2. CASE r # 0 /\ sessions[r].status \notin {"completed", "stopped", "idle"}
  <2> DEFINE z == [sessions[r] EXCEPT !.status = "stopped"]
             y == MaybeSettle(z)
  <2>1. r \in Runs  BY <1>2, InspectionValues DEF Runs
  <2>2. sessions[r] \in SessionType  BY <2>1 DEF SessionsOK
  <2>3. Stopped(r) = [sessions EXCEPT ![r] = y]
    BY <1>2, <2>1 DEF Stopped, SessionsOK
  <2>4. z \in SessionType /\ z.status = "stopped"  BY <2>2 DEF SessionType
  <2> HIDE DEF z
  <2>6. /\ y \in SessionType /\ (~y.settled => y.status = "stopped")
        /\ (~y.settled /\ y.status = "stopped" => y.flight # {})
    BY <2>4, SettleKeeps
  <2> HIDE DEF y
  <2>5. y \in SessionType /\ Served(y)
    BY <2>4, <2>6 DEF Served
  <2> QED BY <2>1, <2>3, <2>5 DEF SessionsOK
<1> QED BY <1>1, <1>2

LEMMA ListFailedKeeps ==
    ASSUME InspectionInv, NEW r \in Runs, ListFailed(r) PROVE InspectionInv'
<1> DEFINE y == [sessions[r] EXCEPT !.listing = FALSE, !.status = "completed", !.settled = TRUE]
           p == [shown EXCEPT !.run = "error"]
<1>0. /\ sessions[r] \in SessionType /\ shown \in PageType /\ sessions \in [Runs -> SessionType]
      /\ PageOK(shown, site, sessions, executing) /\ r # 0
  <2>1. r # 0  BY DEF Runs
  <2> QED BY <2>1 DEF InspectionInv, SessionsOK, PageOK
<1>1. /\ sessions' = [sessions EXCEPT ![r].listing = FALSE, ![r].status = "completed", ![r].settled = TRUE]
      /\ UNCHANGED <<site, stored, executing, pages>>
      /\ shown' = IF Hears(r) /\ ~sessions[r].settled THEN p ELSE shown
  BY DEF ListFailed
<1>2. sessions' = [sessions EXCEPT ![r] = y]  BY <1>0, <1>1
<1>3. y \in SessionType /\ y.site = sessions[r].site /\ y.status = "completed" /\ y.settled
  BY <1>0 DEF SessionType
<1>4. /\ p \in PageType /\ p.page = shown.page /\ p.active = shown.active /\ p.run = "error"
      /\ p.result = shown.result
  BY <1>0 DEF PageType
<1> HIDE DEF y, p
<1>5. /\ sessions'[r] = y /\ \A u \in Runs : u # r => sessions'[u] = sessions[u]
      /\ shown.active # 0 => shown.active \in Runs
  BY <1>0, <1>2, InspectionValues DEF PageType, Runs
<1>6. SessionsOK(sessions')
  BY <1>2, <1>3 DEF Served, InspectionInv, SessionsOK
<1>7. PageOK(shown, site, sessions', executing)
  BY <1>0, <1>3, <1>5 DEF PageOK, Live
<1>8. Hears(r) => PageOK(p, site, sessions', executing)
  BY <1>0, <1>3, <1>4, <1>5 DEF PageOK, Live, Hears
<1>9. PageOK(shown', site, sessions', executing) /\ shown'.page = shown.page
  BY <1>1, <1>4, <1>7, <1>8
<1> QED BY <1>1, <1>6, <1>9 DEF InspectionInv

LEMMA StartKeeps ==
    ASSUME InspectionInv, NEW r \in Runs, StartInspection(r) PROVE InspectionInv'
<1> DEFINE y == [NoSession EXCEPT !.status = "running", !.site = site, !.page = shown.page, !.listing = TRUE]
           p == [shown EXCEPT !.active = r, !.run = "running", !.result = NoResult]
<1>0. /\ shown \in PageType /\ sessions \in [Runs -> SessionType] /\ r \in 0 .. MaxRuns /\ r # 0
      /\ site \in Sites \cup {NoSite} /\ shown.page \in 0 .. MaxRuns
  BY InspectionValues DEF InspectionInv, SessionsOK, PageOK, PageType, Runs
<1>1. /\ shown.page # 0 /\ {e \in executing : e.page = shown.page} = {}
      /\ sessions' = [sessions EXCEPT ![r] = y] /\ shown' = p
      /\ UNCHANGED <<site, stored, executing, pages>>
  BY DEF StartInspection
<1>2. y \in SessionType /\ y.site = site /\ y.status = "running" /\ y.listing
  BY <1>0, InspectionValues DEF SessionType
<1>3. /\ p \in PageType /\ p.page = shown.page /\ p.active = r /\ p.run = "running" /\ p.result = NoResult
  BY <1>0, InspectionValues DEF PageType
<1> HIDE DEF y, p
<1>4. sessions'[r] = y  BY <1>0, <1>1
<1>5. SessionsOK(sessions')
  BY <1>1, <1>2 DEF Served, InspectionInv, SessionsOK
<1>6. PageOK(p, site, sessions', executing)
  BY <1>1, <1>2, <1>3, <1>4, InspectionValues DEF PageOK, Live
<1> QED BY <1>1, <1>3, <1>5, <1>6 DEF InspectionInv

LEMMA StopKeeps == ASSUME InspectionInv, StopInspection PROVE InspectionInv'
<1> DEFINE p == [shown EXCEPT !.active = 0, !.run = "idle", !.result = NoResult]
<1>0. shown \in PageType /\ shown.active \in 0 .. MaxRuns /\ SessionsOK(sessions)
  BY DEF InspectionInv, PageOK, PageType
<1>1. /\ shown.run \in Live /\ sessions' = Stopped(shown.active) /\ shown' = p
      /\ UNCHANGED <<site, stored, executing, pages>>
  BY DEF StopInspection, Live
<1>2. p \in PageType /\ p.page = shown.page /\ p.active = 0 /\ p.run = "idle" /\ p.result = NoResult
  BY <1>0, InspectionValues DEF PageType
<1> HIDE DEF p
<1>3. SessionsOK(sessions')  BY <1>0, <1>1, StoppedKeeps
<1>4. shown.page # 0
  BY <1>1, InspectionValues DEF InspectionInv, PageOK
<1>5. PageOK(p, site, sessions', executing)
  BY <1>1, <1>2, <1>4, InspectionValues DEF PageOK, Live, InspectionInv
<1> QED BY <1>1, <1>2, <1>3, <1>5 DEF InspectionInv

LEMMA OpenKeeps == ASSUME InspectionInv, OpenInspection PROVE InspectionInv'
<1> DEFINE run == IF Restored.run # 0 THEN "success" ELSE "idle"
           p == [page |-> pages + 1, active |-> 0, result |-> Restored, run |-> run]
<1>1. /\ pages < MaxRuns /\ pages' = pages + 1 /\ shown' = p
      /\ UNCHANGED <<site, sessions, stored, executing>>
  BY DEF OpenInspection
<1>2. pages + 1 \in 0 .. MaxRuns /\ pages + 1 # 0 /\ pages \in Nat
  BY <1>1, InspectionValues DEF InspectionInv
<1>3. Restored \in Result /\ (Restored.run # 0 => Restored.site = site)
  BY InspectionValues DEF Restored, InspectionInv
<1>4. run \in {"success", "idle"}
  OBVIOUS
<1> HIDE DEF run
<1>5. /\ p \in PageType /\ p.page = pages + 1 /\ p.active = 0 /\ p.result = Restored /\ p.run = run
  BY <1>2, <1>3, <1>4, InspectionValues DEF PageType
<1> HIDE DEF p
<1>6. \A e \in executing : e.page \in Int /\ e.page <= pages
  BY DEF InspectionInv, ExecutingOK, ExecutionType
<1>7. \A e \in executing : e.page # pages + 1 /\ e.page <= pages + 1
  BY <1>2, <1>6
<1>8. PageOK(p, site, sessions, executing)
  BY <1>2, <1>3, <1>4, <1>5, <1>7 DEF PageOK, Live
<1>9. ExecutingOK(executing, pages + 1)
  BY <1>7 DEF InspectionInv, ExecutingOK
<1> QED BY <1>1, <1>2, <1>5, <1>8, <1>9 DEF InspectionInv

\* The page is closed, and whatever executes was started by an earlier one.
LEMMA ClosedIsOK ==
    ASSUME InspectionInv, NEW c, NEW ss PROVE PageOK(Closed, c, ss, executing)
<1>1. \A e \in executing : e.page # 0
  BY DEF InspectionInv, ExecutingOK, ExecutionType
<1> QED BY <1>1, InspectionValues DEF PageOK

LEMMA ExecutionKeeps ==
    ASSUME InspectionInv, NEW e \in executing, NEW a \in Accounts, NEW ok \in BOOLEAN, ExecuteOne(e, a, ok)
    PROVE  InspectionInv'
<1> DEFINE todo == [b \in DOMAIN e.todo \ {a} |-> e.todo[b]]
           done == IF ok THEN e.done \cup {a} ELSE e.done
           new == [e EXCEPT !.todo = todo, !.done = done]
<1>0. e \in ExecutionType /\ e.page <= pages  BY DEF InspectionInv, ExecutingOK
<1>1. /\ executing' = (executing \ {e}) \cup {new}
      /\ UNCHANGED <<site, sessions, shown, stored, pages>>
  BY <1>0 DEF ExecuteOne, ExecutionType
<1>2. todo \in Items
  <2>1. e.todo \in Items  BY <1>0 DEF ExecutionType
  <2>2. DOMAIN e.todo \ {a} \in SUBSET Accounts /\ \A b \in DOMAIN e.todo : e.todo[b] \in Actions
    BY <2>1, ItemsAre
  <2>3. todo \in [DOMAIN e.todo \ {a} -> Actions]  BY <2>2
  <2> QED BY <2>2, <2>3, ItemsAre
<1>3. done \in SUBSET Accounts  BY <1>0 DEF ExecutionType
<1> HIDE DEF todo, done
<1>4. new \in ExecutionType /\ new.page = e.page /\ new.result = e.result
  BY <1>0, <1>2, <1>3 DEF ExecutionType
<1> HIDE DEF new
<1> QED BY <1>0, <1>1, <1>4 DEF InspectionInv, ExecutingOK, PageOK

LEMMA ExecuteItemsKeeps ==
    ASSUME InspectionInv, NEW items \in SUBSET Accounts, ExecuteItems(items) PROVE InspectionInv'
<1> DEFINE todo == [a \in items |-> shown.result.items[a]]
           new == [page |-> shown.page, result |-> shown.result, done |-> {}, todo |-> todo]
<1>0. shown \in PageType /\ shown.result \in Result /\ shown.page \in {0, pages} /\ pages \in 0 .. MaxRuns
  BY DEF InspectionInv, PageOK, PageType
<1>1. /\ shown.page # 0 /\ shown.run \notin Live /\ shown.result.site = site
      /\ \A a \in items : shown.result.items[a] \in Executable
      /\ executing' = executing \cup {new}
      /\ UNCHANGED <<site, sessions, shown, stored, pages>>
  BY DEF ExecuteItems, Live
<1>2. todo \in [items -> Actions]
  BY <1>1 DEF Actions
<1>3. todo \in Items  BY <1>2, ItemsAre
<1> HIDE DEF todo
<1>4. shown.page \in 1 .. MaxRuns /\ shown.page <= pages  BY <1>0, <1>1
<1>5. new \in ExecutionType /\ new.page = shown.page /\ new.result = shown.result
  BY <1>0, <1>3, <1>4 DEF ExecutionType
<1> HIDE DEF new
<1> QED BY <1>1, <1>4, <1>5 DEF InspectionInv, ExecutingOK, PageOK

LEMMA ExecutionEndsKeeps ==
    ASSUME InspectionInv, NEW e \in executing, ExecutionEnds(e) PROVE InspectionInv'
<1> DEFINE items == [a \in DOMAIN e.result.items |-> IF a \in e.done THEN "keep" ELSE e.result.items[a]]
           res == Applied(e)
           p == [shown EXCEPT !.result = res]
           q == IF shown.page = e.page THEN p ELSE shown
<1>0. /\ shown \in PageType /\ e \in ExecutionType /\ e.result \in Result
      /\ stored \in Result /\ shown.result \in Result
  BY DEF InspectionInv, PageOK, PageType, ExecutingOK, ExecutionType
<1>1. /\ executing' = executing \ {e} /\ shown' = q /\ Save(q) /\ UNCHANGED <<site, sessions, pages>>
  BY DEF ExecutionEnds
<1>2. items \in Items
  <2>1. e.result.items \in Items  BY <1>0 DEF Result
  <2>2. DOMAIN e.result.items \in SUBSET Accounts
        /\ \A a \in DOMAIN e.result.items : e.result.items[a] \in Actions
    BY <2>1, ItemsAre
  <2>3. items \in [DOMAIN e.result.items -> Actions]  BY <2>2 DEF Actions
  <2> QED BY <2>2, <2>3, ItemsAre
<1>3. res = [e.result EXCEPT !.finished = TRUE, !.items = items]
  BY <1>0 DEF Applied, Result
<1> HIDE DEF items, res
<1>4. res \in Result /\ res.run = e.result.run /\ res.site = e.result.site
  BY <1>0, <1>2, <1>3 DEF Result
<1>5. /\ p \in PageType /\ p.page = shown.page /\ p.active = shown.active /\ p.run = shown.run
      /\ p.result = res
  BY <1>0, <1>4 DEF PageType
<1> HIDE DEF p
<1>6. PageOK(q, site, sessions, executing \ {e}) /\ q.page = shown.page /\ q.result \in Result
  <2>1. CASE shown.page # e.page
    BY <1>0, <2>1 DEF InspectionInv, PageOK
  <2>2. CASE shown.page = e.page
    <3>1. shown.page # 0  BY <1>0, <2>2 DEF ExecutionType
    <3>2. shown.run \notin Live /\ e.result.site = site  BY <2>2 DEF InspectionInv, PageOK
    <3>3. PageOK(p, site, sessions, executing \ {e})
      BY <1>4, <1>5, <3>1, <3>2 DEF InspectionInv, PageOK
    <3> QED BY <1>4, <1>5, <2>2, <3>3
  <2> QED BY <2>1, <2>2
<1> HIDE DEF q
<1>7. stored' \in Result  BY <1>0, <1>1, <1>6 DEF Save
<1> QED BY <1>1, <1>6, <1>7 DEF InspectionInv, ExecutingOK

LEMMA InspectionInitOK == InspectionInit => InspectionInv
<1> SUFFICES ASSUME InspectionInit PROVE InspectionInv
  OBVIOUS
<1>1. /\ site = NoSite /\ sessions = [r \in Runs |-> NoSession] /\ shown = Closed
      /\ stored = NoResult /\ executing = {} /\ pages = 0
  BY DEF InspectionInit
<1>2. SessionsOK(sessions)
  BY <1>1, InspectionValues DEF SessionsOK, Served, NoSession
<1>3. PageOK(shown, site, sessions, executing)  BY <1>1, InspectionValues DEF PageOK
<1> QED BY <1>1, <1>2, <1>3, InspectionValues DEF InspectionInv, ExecutingOK

LEMMA InspectionStep == ASSUME InspectionInv, [InspectionNext]_inspectionVars PROVE InspectionInv'
<1>1. CASE InspectionAnswers
  BY <1>1, ListAnsweredKeeps, ListFailedKeeps, ProbeEndsKeeps DEF InspectionAnswers
<1>2. ASSUME NEW r \in Runs, StartInspection(r) PROVE InspectionInv'
  BY <1>2, StartKeeps
<1>3. ASSUME NEW mode \in AutoModes, PauseInspection(mode) \/ ResumeInspection(mode) PROVE InspectionInv'
  BY <1>3, PauseKeeps, ResumeKeeps
<1>4. CASE StopInspection
  BY <1>4, StopKeeps
<1>5. CASE OpenInspection
  BY <1>5, OpenKeeps
<1>6. CASE CloseInspection
  <2>1. /\ sessions' = Stopped(shown.active) /\ shown' = Closed
        /\ UNCHANGED <<site, stored, executing, pages>>
    BY <1>6 DEF CloseInspection
  <2>2. shown.active \in 0 .. MaxRuns /\ SessionsOK(sessions)
    BY DEF InspectionInv, PageOK, PageType
  <2>3. SessionsOK(sessions')  BY <2>1, <2>2, StoppedKeeps
  <2>4. PageOK(Closed, site, sessions', executing)  BY ClosedIsOK
  <2> QED BY <2>1, <2>3, <2>4, InspectionValues DEF InspectionInv
<1>7. ASSUME NEW c \in Sites \cup {NoSite}, ChangeSite(c) PROVE InspectionInv'
  <2>1. shown.page = 0 /\ site' = c /\ UNCHANGED <<sessions, shown, stored, executing, pages>>
    BY <1>7 DEF ChangeSite
  <2>2. shown = Closed  BY <2>1 DEF InspectionInv, PageOK
  <2>3. PageOK(shown, c, sessions, executing)  BY <2>2, ClosedIsOK
  <2> QED BY <2>1, <2>3 DEF InspectionInv
<1>8. ASSUME NEW items \in SUBSET Accounts, ExecuteItems(items) PROVE InspectionInv'
  BY <1>8, ExecuteItemsKeeps
<1>9. ASSUME NEW e \in executing, NEW a \in Accounts, NEW ok \in BOOLEAN, ExecuteOne(e, a, ok)
      PROVE  InspectionInv'
  BY <1>9, ExecutionKeeps
<1>10. ASSUME NEW e \in executing, ExecutionEnds(e) PROVE InspectionInv'
  BY <1>10, ExecutionEndsKeeps
<1>11. CASE UNCHANGED inspectionVars
  BY <1>11 DEF inspectionVars, InspectionInv
<1> QED BY <1>1, <1>2, <1>3, <1>4, <1>5, <1>6, <1>7, <1>8, <1>9, <1>10, <1>11 DEF InspectionNext

LEMMA InspectionTypes == ASSUME InspectionInv PROVE InspectionTypeOK
<1>1. shown \in [page : {0, pages}, active : 0 .. MaxRuns,
                 run : {"idle", "running", "paused", "success", "error"}, result : Result]
  BY DEF InspectionInv, PageOK, PageType
<1> QED BY <1>1 DEF InspectionInv, InspectionTypeOK, SessionsOK, SessionType, ExecutingOK, ExecutionType

\* The state of the local inspection has its type.
THEOREM InspectionTyped == InspectionSpec => []InspectionTypeOK
BY InspectionTypes, InspectionInitOK, InspectionStep, PTL DEF InspectionSpec

\* The suggestions on the page, which one click carries out, are of the
\* connection in use: neither the stored run, nor a late event, nor the end of
\* an execution brings another's (useCodexInspection's session and its stored run).
THEOREM ResultsAreOurs == InspectionSpec => []ResultsAreOfThisSite
<1>1. InspectionInv => ResultsAreOfThisSite
  BY DEF InspectionInv, PageOK, ResultsAreOfThisSite
<1> QED BY <1>1, InspectionInitOK, InspectionStep, PTL DEF InspectionSpec

\* While a run goes on the page shows that run's results, whatever probes of
\* stopped runs still end and whatever execution ends.
THEOREM LiveResultsAreOwn == InspectionSpec => []LiveResultsAreOfTheRun
<1>1. InspectionInv => LiveResultsAreOfTheRun
  BY DEF InspectionInv, PageOK, Live, LiveResultsAreOfTheRun
<1> QED BY <1>1, InspectionInitOK, InspectionStep, PTL DEF InspectionSpec

\* A session that nobody has settled and that is not paused has its list or a
\* probe under way, for any number of workers and accounts (pump and maybeSettle).
THEOREM RunsAreServed == InspectionSpec => []RunIsServed
<1>1. InspectionInv => RunIsServed
  BY DEF InspectionInv, SessionsOK, Served, RunIsServed
<1> QED BY <1>1, InspectionInitOK, InspectionStep, PTL DEF InspectionSpec

(***************************************************************************)
(* The editor of config.yaml.                                              *)
(***************************************************************************)

\* A field the visual editor holds unchanged is the baseline's.
Untouched(v) == v \in VisualState /\ \A f \in Fields : f \notin v.dirtyFields => v.values[f] = v.baseline[f]

\* The visual tab over a text that a load brought holds that text's values.
Shows(tab, loaded, text, v) ==
    /\ tab \in Tabs /\ text \in AnyText /\ Untouched(v)
    /\ tab = "visual" => ~v.parseError
    /\ tab = "visual" /\ loaded /\ text.ok => v.baseline = ShownValues(text)

ClickType == [tab : Tabs, dirty : BOOLEAN, content : AnyText, visual : VisualState, loaded : BOOLEAN]
DiffType == [open : BOOLEAN, server : AnyText, merged : AnyText]

\* What a save from the visual tab captured: values of the text it captured
\* (which its confirmation replaces by the text on offer).
Captured(d, c) ==
    /\ Untouched(c.visual)
    /\ c.loaded /\ c.content.ok =>
          c.visual.baseline = ShownValues(c.content) \/ (d.open /\ d.merged = c.content)

\* What the dialog offers from the visual tab is a text, patched: the unsaved
\* source text, or else the server's.
Patched(d, c) ==
    IF c.dirty THEN d.merged = c.content \/ d.merged = ApplyVisualChangesToYaml(c.content, c.visual)
    ELSE d.merged = ApplyVisualChangesToYaml(d.server, c.visual)

Offers(step, d, c) ==
    /\ d \in DiffType /\ c \in ClickType
    /\ c.tab = "visual" /\ (step = "fetching" \/ d.open) => Captured(d, c)
    /\ c.tab = "visual" /\ d.open => Patched(d, c)

\* A load is one of the requests sent so far.
LoadsOK(loads, sent) ==
    loads \subseteq [id : 1 .. MaxRequests, read : BOOLEAN, text : AnyText] /\ \A l \in loads : l.id <= sent

ConfigFlags ==
    /\ dirty \in BOOLEAN /\ loading \in BOOLEAN /\ sourceConfigLoaded \in BOOLEAN
    /\ saveStep \in {"", "fetching", "putting", "refetching"} /\ (saveStep = "fetching" => ~diff.open)
    /\ server \in AnyText
    /\ requests \in 0 .. MaxRequests /\ edits \in 0 .. MaxEdits /\ otherEdits \in 0 .. MaxChanges

ConfigInv ==
    /\ ConfigFlags
    /\ Shows(activeTab, sourceConfigLoaded, content, visual)
    /\ Offers(saveStep, diff, clicked)
    /\ LoadsOK(loadsInFlight, requests)

LEMMA ConfigBounds ==
    /\ MaxEdits \in Nat /\ MaxChanges \in Nat /\ MaxRequests \in Nat /\ MaxRequests > 0
    /\ Default \in Settings /\ Absent \notin Settings /\ Foreign \notin Settings /\ Absent # Foreign
    /\ Empty \in AnyText /\ Broken \in AnyText /\ WrittenTexts \subseteq AnyText
<1>1. /\ MaxEdits \in Nat /\ MaxChanges \in Nat /\ MaxRequests \in Nat /\ MaxRequests > 0
      /\ Default \in Settings /\ Absent \notin Settings /\ Foreign \notin Settings /\ Absent # Foreign
      /\ WrittenTexts \subseteq AnyText
  BY ConfigAssumption
<1>2. Empty \in AnyText
  BY <1>1 DEF AnyText, Texts, Empty
<1> QED BY <1>1, <1>2 DEF AnyText

LEMMA Counted ==
    ASSUME NEW n \in Nat, NEW x \in 0 .. n
    PROVE  x \in Nat /\ x <= x + 1 /\ (x < n => x + 1 \in 0 .. n)
OBVIOUS

LEMMA ConfigCounters ==
    ASSUME ConfigInv
    PROVE  /\ requests \in 0 .. MaxRequests /\ requests \in Nat
           /\ edits \in 0 .. MaxEdits /\ otherEdits \in 0 .. MaxChanges
<1>1. requests \in 0 .. MaxRequests /\ edits \in 0 .. MaxEdits /\ otherEdits \in 0 .. MaxChanges
  BY DEF ConfigInv, ConfigFlags
<1> QED BY <1>1, ConfigBounds, Counted

\* The fields of a text.
LEMMA TextIs ==
    ASSUME NEW text \in AnyText
    PROVE  /\ text.field \in Settings \cup {Foreign} /\ text.map \in BOOLEAN
           /\ text.member \in Settings \cup {Absent, Foreign} /\ text.opt \in Settings \cup {Absent}
           /\ text.keys \in Settings /\ text.extra \in Settings
           /\ ~text.map => text.member = Absent /\ text.opt = Absent
<1>1. CASE text \in Texts  BY <1>1 DEF Texts
<1>2. CASE text = Broken
  <2>1. Default \in Settings  BY ConfigBounds
  <2> QED BY <1>2, <2>1 DEF Broken, Empty
<1> QED BY <1>1, <1>2 DEF AnyText

LEMMA ShownAre ==
    ASSUME NEW text \in AnyText
    PROVE  /\ ShownValues(text) \in [Fields -> Settings]
           /\ ShownValues(text)["field"] = Known(text.field)
           /\ ShownValues(text)["member"] = Known(text.member)
           /\ ShownValues(text)["opt"] = Known(text.opt)
           /\ ShownValues(text)["keys"] = text.keys
<1>1. \A x : Known(x) \in Settings  BY ConfigBounds DEF Known
<1>2. text.keys \in Settings  BY TextIs
<1> QED BY <1>1, <1>2 DEF ShownValues, Fields

\* Reading a text into the visual editor.
LEMMA LoadedKeeps ==
    ASSUME NEW text \in AnyText, NEW v, Untouched(v)
    PROVE  /\ Untouched(LoadedVisual(text, v))
           /\ LoadedVisual(text, v).parseError <=> ~text.ok
           /\ text.ok => LoadedVisual(text, v) = [values |-> ShownValues(text), baseline |-> ShownValues(text),
                                                  dirtyFields |-> {}, parseError |-> FALSE]
<1>1. CASE text.ok
  BY <1>1, ShownAre DEF LoadedVisual, Untouched, VisualState
<1>2. CASE ~text.ok
  BY <1>2 DEF LoadedVisual, Untouched, VisualState
<1> QED BY <1>1, <1>2

\* Writing the visual editor's values into a text leaves what it does not know,
\* and the text then reads as those values, but for a guarded field that is not
\* there.
LEMMA AppliedIs ==
    ASSUME NEW text \in AnyText, NEW v \in VisualState
    PROVE  LET a == ApplyVisualChangesToYaml(text, v) IN
           /\ a \in AnyText /\ a.ok = text.ok /\ a.extra = text.extra
           /\ ~text.ok => a = text
           /\ text.opt = Absent /\ "opt" \notin v.dirtyFields => a.opt = Absent
           /\ text.ok =>
                /\ \A f \in {"field", "member", "keys"} : ShownValues(a)[f] = v.values[f]
                /\ text.opt # Absent \/ "opt" \in v.dirtyFields => a.opt = v.values.opt
<1>1. CASE ~text.ok
  BY <1>1 DEF ApplyVisualChangesToYaml
<1>2. CASE text.ok
  <2> DEFINE w == ShouldWriteManagedField(text, v)
             m == text.map \/ v.values.member # Default \/ w
             member == IF m THEN v.values.member ELSE text.member
             o == IF w THEN v.values.opt ELSE text.opt
             e == IF v.values.keys = Default THEN "none" ELSE "maps"
             a == [text EXCEPT !.field = v.values.field, !.map = m, !.member = member, !.opt = o,
                               !.keys = v.values.keys, !.entries = e]
  <2>1. text \in Texts  BY <1>2 DEF AnyText, Broken, Empty
  <2>2. \A f \in Fields : v.values[f] \in Settings  BY DEF VisualState
  <2>3. /\ v.values.field \in Settings /\ v.values.member \in Settings /\ v.values.opt \in Settings
        /\ v.values.keys \in Settings
    BY <2>2 DEF Fields
  <2>4. /\ m \in BOOLEAN /\ w \in BOOLEAN /\ e \in {"none", "maps"} /\ (v.values.keys = Default <=> e = "none")
        /\ (w <=> text.opt # Absent \/ "opt" \in v.dirtyFields)
        /\ (~m => ~text.map /\ ~w /\ v.values.member = Default)
    BY DEF ShouldWriteManagedField
  <2>5. text.member \in Settings \cup {Absent, Foreign} /\ text.opt \in Settings \cup {Absent}
        /\ (~text.map => text.member = Absent /\ text.opt = Absent)
    BY TextIs
  <2>6. /\ member \in Settings \cup {Absent, Foreign} /\ o \in Settings \cup {Absent}
        /\ (~m => member = Absent /\ o = Absent)
        /\ Known(member) = v.values.member
        /\ (w => o = v.values.opt) /\ (~w => o = text.opt)
    BY <2>3, <2>4, <2>5, ConfigBounds DEF Known
  <2>7. ApplyVisualChangesToYaml(text, v) = a
    BY <1>2, <2>1 DEF ApplyVisualChangesToYaml, Texts
  <2> HIDE DEF w, m, member, o, e
  <2>8. a \in [ok : {TRUE}, field : Settings \cup {Foreign}, map : BOOLEAN,
               member : Settings \cup {Absent, Foreign}, opt : Settings \cup {Absent},
               keys : Settings, entries : {"none", "plain", "maps", "annotated"}, extra : Settings]
    BY <2>1, <2>3, <2>4, <2>6 DEF Texts
  <2>9. /\ a.ok = text.ok /\ a.extra = text.extra /\ a.field = v.values.field /\ a.map = m
        /\ a.member = member /\ a.opt = o /\ a.keys = v.values.keys /\ a.entries = e
    BY <2>1 DEF Texts
  <2> HIDE DEF a
  <2>10. a \in AnyText
    BY <2>4, <2>6, <2>8, <2>9 DEF Texts, AnyText
  <2>11. \A f \in {"field", "member", "keys"} : ShownValues(a)[f] = v.values[f]
    <3>1. Known(v.values.field) = v.values.field  BY <2>3 DEF Known
    <3> QED BY <2>6, <2>9, <2>10, <3>1, ShownAre
  <2> QED BY <1>2, <2>4, <2>6, <2>7, <2>9, <2>10, <2>11
<1> QED BY <1>1, <1>2

\* A field whose value is the text's reads the same in the text it is written to.
LEMMA AppliedReads ==
    ASSUME NEW text \in AnyText, text.ok, NEW v \in VisualState, NEW f \in Fields,
           f \notin v.dirtyFields, v.values[f] = ShownValues(text)[f]
    PROVE  ShownValues(ApplyVisualChangesToYaml(text, v))[f] = ShownValues(text)[f]
<1> DEFINE a == ApplyVisualChangesToYaml(text, v)
<1>1. a \in AnyText  BY AppliedIs
<1>2. CASE f # "opt"
  <2>1. f \in {"field", "member", "keys"}  BY <1>2 DEF Fields
  <2> QED BY <2>1, AppliedIs
<1>3. CASE f = "opt" /\ text.opt = Absent
  <2>1. a.opt = Absent  BY <1>3, AppliedIs
  <2> HIDE DEF a
  <2>2. ShownValues(a)["opt"] = Known(Absent) /\ ShownValues(text)["opt"] = Known(Absent)
    BY <1>1, <1>3, <2>1, ShownAre
  <2> QED BY <1>3, <2>2 DEF a
<1>4. CASE f = "opt" /\ text.opt # Absent
  <2>1. a.opt = v.values["opt"]  BY <1>4, AppliedIs
  <2>2. v.values["opt"] \in Settings  BY DEF VisualState, Fields
  <2> HIDE DEF a
  <2>3. ShownValues(a)["opt"] = v.values["opt"]
    BY <1>1, <2>1, <2>2, ShownAre DEF Known
  <2> QED BY <1>4, <2>3 DEF a
<1> QED BY <1>2, <1>3, <1>4

\* ... and values that are all the text's leave what the text says.
LEMMA AppliedSays ==
    ASSUME NEW text \in AnyText, NEW v \in VisualState, v.dirtyFields = {},
           text.ok => v.values = ShownValues(text)
    PROVE  SayTheSame(ApplyVisualChangesToYaml(text, v), text)
<1> DEFINE a == ApplyVisualChangesToYaml(text, v)
<1>0. a \in AnyText /\ a.ok = text.ok /\ a.extra = text.extra  BY AppliedIs
<1>1. CASE ~text.ok
  <2>1. a = text  BY <1>1, AppliedIs
  <2> QED BY <2>1 DEF SayTheSame
<1>2. CASE text.ok
  <2>1. \A f \in Fields : ShownValues(a)[f] = ShownValues(text)[f]
    BY <1>2, AppliedReads
  <2>2. text.opt = Absent => a.opt = Absent  BY AppliedIs
  <2>3. text.opt # Absent => a.opt # Absent
    <3>1. v.values.opt \in Settings  BY DEF VisualState, Fields
    <3>2. text.opt # Absent => a.opt = v.values.opt  BY <1>2, AppliedIs
    <3> QED BY <3>1, <3>2, ConfigBounds
  <2> HIDE DEF a
  <2>4. ShownValues(a) \in [Fields -> Settings] /\ ShownValues(text) \in [Fields -> Settings]
    BY <1>0, ShownAre
  <2>5. ShownValues(a) = ShownValues(text)  BY <2>1, <2>4
  <2>6. SayTheSame(a, text)  BY <1>0, <2>2, <2>3, <2>5 DEF SayTheSame
  <2> QED BY <2>6 DEF a
<1> QED BY <1>1, <1>2

LEMMA ShowsLoaded ==
    ASSUME NEW text \in AnyText, NEW v, Untouched(v), NEW tab \in Tabs, NEW loaded
    PROVE  Shows(TabAfter(tab, LoadedVisual(text, v)), loaded, text, LoadedVisual(text, v))
<1>1. TabAfter(tab, LoadedVisual(text, v)) \in Tabs
  BY DEF TabAfter, Tabs
<1>2. TabAfter(tab, LoadedVisual(text, v)) = "visual" => ~LoadedVisual(text, v).parseError
  BY DEF TabAfter
<1> QED BY <1>1, <1>2, LoadedKeeps DEF Shows

LEMMA StartLoadsKeeps ==
    ASSUME ConfigInv, NEW k \in {1, 2}, StartLoads(k)
    PROVE  /\ LoadsOK(loadsInFlight', requests') /\ requests' \in 0 .. MaxRequests /\ loading'
           /\ loadsInFlight' # loadsInFlight
<1> DEFINE new(i) == [id |-> i, read |-> FALSE, text |-> Empty]
<1>1. requests \in Nat /\ MaxRequests \in Nat /\ LoadsOK(loadsInFlight, requests)
  <2>1. LoadsOK(loadsInFlight, requests)  BY DEF ConfigInv
  <2> QED BY <2>1, ConfigBounds, ConfigCounters
<1>2. /\ requests' = requests + k /\ requests + k <= MaxRequests /\ loading'
      /\ loadsInFlight' = loadsInFlight \cup {new(i) : i \in (requests + 1) .. (requests + k)}
  BY DEF StartLoads
<1>3. Empty \in AnyText  BY ConfigBounds
<1>4. \A i \in (requests + 1) .. (requests + k) : i \in 1 .. MaxRequests /\ i <= requests + k
  BY <1>1, <1>2
<1>5. \A i : new(i).id = i  OBVIOUS
<1>6. \A i \in 1 .. MaxRequests : new(i) \in [id : 1 .. MaxRequests, read : BOOLEAN, text : AnyText]
  BY <1>3
<1> HIDE DEF new
<1>7. \A l \in loadsInFlight : l.id <= requests + k
  BY <1>1 DEF LoadsOK
<1>8. LoadsOK(loadsInFlight', requests')
  BY <1>1, <1>2, <1>4, <1>5, <1>6, <1>7 DEF LoadsOK
<1>9. new(requests + 1) \in loadsInFlight' /\ new(requests + 1) \notin loadsInFlight
  <2>1. requests + 1 \in (requests + 1) .. (requests + k) /\ ~(requests + 1 <= requests)  BY <1>1
  <2> QED BY <1>1, <1>2, <1>5, <2>1 DEF LoadsOK
<1> QED BY <1>1, <1>2, <1>8, <1>9

LEMMA SetVisualValueKeeps ==
    ASSUME ConfigInv, NEW f \in Fields, NEW to \in Settings, SetVisualValue(f, to) PROVE ConfigInv'
<1> DEFINE d == IF to = visual.baseline[f] THEN visual.dirtyFields \ {f} ELSE visual.dirtyFields \cup {f}
<1>1. Untouched(visual)  BY DEF ConfigInv, Shows
<1>2. visual' = [visual EXCEPT !.values[f] = to, !.dirtyFields = d]
  BY <1>1 DEF SetVisualValue, NextVisual, Untouched, VisualState
<1>3. /\ d \in SUBSET Fields /\ (f \notin d => to = visual.baseline[f])
      /\ \A g \in Fields : g # f => (g \in d <=> g \in visual.dirtyFields)
  BY <1>1 DEF Untouched, VisualState
<1> HIDE DEF d
<1>4. /\ visual'.values = [visual.values EXCEPT ![f] = to] /\ visual'.dirtyFields = d
      /\ visual'.baseline = visual.baseline /\ visual'.parseError = visual.parseError
      /\ visual' \in VisualState
  BY <1>1, <1>2, <1>3 DEF Untouched, VisualState
<1>5. Untouched(visual')
  BY <1>1, <1>3, <1>4 DEF Untouched, VisualState
<1>6. edits' \in 0 .. MaxEdits
  BY ConfigBounds, ConfigCounters, Counted DEF SetVisualValue
<1>7. Shows(activeTab, sourceConfigLoaded, content, visual')
  BY <1>4, <1>5 DEF ConfigInv, Shows
<1> QED BY <1>6, <1>7 DEF ConfigInv, ConfigFlags, SetVisualValue

LEMMA HandleChangeKeeps ==
    ASSUME ConfigInv, NEW text \in AnyText, HandleChange(text) PROVE ConfigInv'
<1>1. edits' \in 0 .. MaxEdits
  BY ConfigBounds, ConfigCounters, Counted DEF HandleChange
<1>2. Shows(activeTab, sourceConfigLoaded, text, visual)
  BY DEF ConfigInv, Shows, HandleChange
<1> QED BY <1>1, <1>2 DEF ConfigInv, ConfigFlags, HandleChange

LEMMA ServerChangesKeeps ==
    ASSUME ConfigInv, NEW text \in AnyText, ServerChanges(text) PROVE ConfigInv'
<1>1. otherEdits' \in 0 .. MaxChanges
  BY ConfigBounds, ConfigCounters, Counted DEF ServerChanges
<1> QED BY <1>1 DEF ConfigInv, ConfigFlags, ServerChanges

LEMMA ServeLoadKeeps ==
    ASSUME ConfigInv, NEW l \in loadsInFlight, ServeLoad(l) PROVE ConfigInv'
<1> DEFINE m == [l EXCEPT !.read = TRUE, !.text = server]
<1>1. l \in [id : 1 .. MaxRequests, read : BOOLEAN, text : AnyText] /\ server \in AnyText
  BY DEF ConfigInv, LoadsOK, ConfigFlags
<1>2. m \in [id : 1 .. MaxRequests, read : BOOLEAN, text : AnyText] /\ m.id = l.id
  BY <1>1
<1>3. loadsInFlight' = (loadsInFlight \ {l}) \cup {m}
  BY DEF ServeLoad
<1> HIDE DEF m
<1>4. LoadsOK(loadsInFlight', requests)
  BY <1>2, <1>3 DEF ConfigInv, LoadsOK
<1> QED BY <1>4 DEF ConfigInv, ConfigFlags, ServeLoad

LEMMA NoClickIs == NoClick \in ClickType /\ NoClick.tab = "source" /\ InitialVisual \in VisualState
<1>1. ShownValues(Empty) \in [Fields -> Settings]  BY ConfigBounds, ShownAre
<1>2. InitialVisual \in VisualState  BY <1>1 DEF InitialVisual, VisualState
<1> QED BY <1>2, ConfigBounds DEF NoClick, ClickType, Tabs

\* A text fills the page, as after a load or a save, and closes the dialog.
LEMMA FilledKeeps ==
    ASSUME ConfigInv, NEW text \in AnyText, NEW loaded \in BOOLEAN,
           content' = text, visual' = LoadedVisual(text, visual),
           activeTab' = TabAfter(activeTab, visual'), sourceConfigLoaded' = loaded
    PROVE  Shows(activeTab, sourceConfigLoaded, content, visual)'
<1>1. Untouched(visual) /\ activeTab \in Tabs  BY DEF ConfigInv, Shows
<1>2. Shows(TabAfter(activeTab, LoadedVisual(text, visual)), loaded, text, LoadedVisual(text, visual))
  BY <1>1, ShowsLoaded
<1> QED BY <1>2

LEMMA LoadAnswersKeeps ==
    ASSUME ConfigInv, NEW l \in loadsInFlight, LoadAnswers(l) PROVE ConfigInv'
<1>1. l.text \in AnyText  BY DEF ConfigInv, LoadsOK
<1>2. Shows(activeTab, sourceConfigLoaded, content, visual)'
  BY <1>1, FilledKeeps DEF LoadAnswers
<1>3. diff' \in DiffType /\ ~diff'.open
  BY <1>1 DEF LoadAnswers, DiffType
<1>4. clicked' \in ClickType
  BY NoClickIs DEF LoadAnswers, ConfigInv, Offers
<1>5. Offers(saveStep', diff', clicked')
  <2>1. CASE saveStep = ""
    <3>1. clicked'.tab = "source"  BY <2>1, NoClickIs DEF LoadAnswers
    <3> QED BY <1>3, <1>4, <3>1 DEF Offers
  <2>2. CASE saveStep # ""
    <3>1. clicked' = clicked /\ saveStep' = saveStep  BY <2>2 DEF LoadAnswers
    <3>2. ~diff.open \/ saveStep # "fetching"  BY DEF ConfigInv, ConfigFlags
    <3>3. clicked.tab = "visual" /\ saveStep = "fetching" => Captured(diff', clicked)
      BY <3>2 DEF ConfigInv, Offers, Captured
    <3> QED BY <1>3, <1>4, <3>1, <3>3 DEF Offers
  <2> QED BY <2>1, <2>2
<1>6. LoadsOK(loadsInFlight', requests')
  BY DEF LoadAnswers, ConfigInv, LoadsOK
<1> QED BY <1>2, <1>3, <1>5, <1>6 DEF ConfigInv, ConfigFlags, LoadAnswers

LEMMA EnterTabKeeps ==
    ASSUME ConfigInv, EnterManagerTab \/ EnterSourceTab \/ EnterVisualTab PROVE ConfigInv'
<1>0. /\ Untouched(visual) /\ content \in AnyText /\ activeTab \in Tabs
      /\ visual \in VisualState
  BY DEF ConfigInv, Shows, Untouched
<1>1. CASE EnterManagerTab
  <2>1. Shows("manager", sourceConfigLoaded, content, visual)
    BY <1>0 DEF Shows, Tabs
  <2> QED BY <1>1, <2>1 DEF ConfigInv, ConfigFlags, EnterManagerTab
<1>2. CASE EnterSourceTab
  <2> DEFINE next == IF visualDirty THEN ApplyVisualChangesToYaml(content, visual) ELSE content
  <2>1. next \in AnyText  BY <1>0, AppliedIs
  <2>2. content' = next /\ activeTab' = "source" /\ dirty' = (dirty \/ next # content)
    BY <1>2 DEF EnterSourceTab
  <2> HIDE DEF next
  <2>3. Shows("source", sourceConfigLoaded, next, visual)
    BY <1>0, <2>1 DEF Shows, Tabs
  <2>4. dirty' \in BOOLEAN
    BY <2>2
  <2> QED BY <1>2, <2>2, <2>3, <2>4 DEF ConfigInv, ConfigFlags, EnterSourceTab
<1>3. CASE EnterVisualTab
  <2>1. /\ visual' = LoadedVisual(content, visual) /\ activeTab # "visual"
        /\ activeTab' = IF content.ok THEN "visual" ELSE activeTab
    BY <1>3 DEF EnterVisualTab, TabsOn
  <2>2. Shows(activeTab', sourceConfigLoaded, content, visual')
    BY <1>0, <2>1, LoadedKeeps DEF Shows, Tabs
  <2> QED BY <1>3, <2>2 DEF ConfigInv, ConfigFlags, EnterVisualTab
<1> QED BY <1>1, <1>2, <1>3

LEMMA EnterUnloadedKeeps ==
    ASSUME ConfigInv, NEW tab \in {"visual", "source"}, EnterUnloaded(tab) PROVE ConfigInv'
<1>1. PICK k \in {1, 2} : StartLoads(k)
  BY DEF EnterUnloaded
<1>2. activeTab' = TabAfter(tab, visual) /\ ~sourceConfigLoaded
  BY DEF EnterUnloaded
<1>3. activeTab' \in Tabs /\ (activeTab' = "visual" => ~visual.parseError)
  BY <1>2 DEF TabAfter, Tabs
<1>4. Shows(activeTab', sourceConfigLoaded, content, visual)
  BY <1>2, <1>3 DEF ConfigInv, Shows
<1> QED BY <1>1, <1>4, StartLoadsKeeps DEF ConfigInv, ConfigFlags, EnterUnloaded

LEMMA HandleSaveKeeps == ASSUME ConfigInv, HandleSave PROVE ConfigInv'
<1>1. requests' \in 0 .. MaxRequests /\ requests <= requests'
  BY ConfigBounds, ConfigCounters, Counted DEF HandleSave
<1>2. clicked' \in ClickType /\ ~diff.open
  BY DEF ConfigInv, ConfigFlags, Shows, Untouched, ClickType, HandleSave, SaveEnabled, PageFree
<1>3. Offers(saveStep', diff, clicked')
  <2>1. /\ clicked'.tab = activeTab /\ clicked'.loaded = sourceConfigLoaded /\ clicked'.content = content
        /\ clicked'.visual = visual
    BY DEF HandleSave
  <2>2. clicked'.tab = "visual" => Captured(diff, clicked')
    BY <2>1 DEF ConfigInv, Shows, Captured
  <2> QED BY <1>2, <2>2 DEF ConfigInv, Offers
<1>4. LoadsOK(loadsInFlight, requests')
  <2>1. \A l \in loadsInFlight : l.id \in Nat /\ l.id <= requests
    BY ConfigBounds DEF ConfigInv, LoadsOK
  <2>2. requests \in Nat /\ requests' \in Nat
    BY <1>1, ConfigBounds, ConfigCounters, Counted
  <2>3. \A l \in loadsInFlight : l.id <= requests'
    BY <1>1, <2>1, <2>2
  <2> QED BY <2>3 DEF ConfigInv, LoadsOK
<1> QED BY <1>1, <1>2, <1>3, <1>4 DEF ConfigInv, ConfigFlags, HandleSave

LEMMA MergedKeeps ==
    ASSUME ConfigInv, NEW latest \in AnyText
    PROVE  /\ Merged(latest) \in AnyText
           /\ clicked.tab = "visual" =>
                  Merged(latest) = ApplyVisualChangesToYaml(IF clicked.dirty THEN clicked.content
                                                            ELSE latest, clicked.visual)
<1>1. clicked \in ClickType  BY DEF ConfigInv, Offers
<1>2. clicked.content \in AnyText /\ clicked.visual \in VisualState  BY <1>1 DEF ClickType
<1>3. VisualBase(latest) \in AnyText  BY <1>2 DEF VisualBase
<1>4. ApplyVisualChangesToYaml(VisualBase(latest), clicked.visual) \in AnyText
  BY <1>2, <1>3, AppliedIs
<1> QED BY <1>2, <1>4 DEF Merged, VisualBase

LEMMA SaveFetchedKeeps == ASSUME ConfigInv, SaveFetched PROVE ConfigInv'
<1>1. /\ saveStep = "fetching" /\ saveStep' = "" /\ server \in AnyText /\ ~diff.open
      /\ diff \in DiffType /\ clicked \in ClickType
      /\ UNCHANGED <<loading, sourceConfigLoaded, loadsInFlight, server, requests, edits, otherEdits>>
  BY DEF SaveFetched, ConfigInv, ConfigFlags, Offers
<1>2. CASE Refused(server)
  <2>1. clicked' = NoClick /\ UNCHANGED <<activeTab, content, dirty, diff, visual>>
    BY <1>2 DEF SaveFetched
  <2>2. Offers("", diff, NoClick)  BY <1>1, NoClickIs DEF Offers
  <2> QED BY <1>1, <2>1, <2>2 DEF ConfigInv, ConfigFlags
<1>3. CASE ~Refused(server) /\ Merged(server) = server
  <2>1. /\ content' = server /\ dirty' = FALSE /\ clicked' = NoClick
        /\ diff' = [diff EXCEPT !.server = server, !.merged = server]
        /\ visual' = LoadedVisual(server, visual)
        /\ activeTab' = TabAfter(activeTab, visual')
    BY <1>3 DEF SaveFetched
  <2>2. Shows(activeTab, sourceConfigLoaded, content, visual)'
    <3>1. sourceConfigLoaded \in BOOLEAN  BY DEF ConfigInv, ConfigFlags
    <3> QED BY <1>1, <2>1, <3>1, FilledKeeps
  <2>3. Offers("", diff', NoClick)
    BY <1>1, <2>1, NoClickIs DEF Offers, DiffType
  <2> QED BY <1>1, <2>1, <2>2, <2>3 DEF ConfigInv, ConfigFlags
<1>4. CASE ~Refused(server) /\ Merged(server) # server
  <2>1. /\ diff' = [open |-> TRUE, server |-> server, merged |-> Merged(server)]
        /\ UNCHANGED <<activeTab, content, dirty, clicked, visual>>
    BY <1>4 DEF SaveFetched
  <2>2. diff' \in DiffType  BY <1>1, <2>1, MergedKeeps DEF DiffType
  <2>3. clicked.tab = "visual" => Captured(diff', clicked)
    BY <1>1 DEF ConfigInv, Offers, Captured
  <2>4. clicked.tab = "visual" => Patched(diff', clicked)
    BY <1>1, <2>1, MergedKeeps DEF Patched
  <2>5. Offers("", diff', clicked)
    BY <1>1, <2>2, <2>3, <2>4 DEF Offers
  <2> QED BY <1>1, <2>1, <2>5 DEF ConfigInv, ConfigFlags
<1> QED BY <1>2, <1>3, <1>4

LEMMA DialogKeeps ==
    ASSUME ConfigInv, CancelDiff \/ HandleConfirmSave \/ ServePut \/ SaveFails PROVE ConfigInv'
<1>1. diff \in DiffType /\ clicked \in ClickType /\ NoClick \in ClickType
  BY NoClickIs DEF ConfigInv, Offers
<1>2. CASE CancelDiff
  <2>1. clicked' = NoClick /\ saveStep' = "" /\ diff' \in DiffType
    BY <1>1, <1>2 DEF CancelDiff, DiffType
  <2>2. Offers(saveStep', diff', clicked')
    BY <1>1, <2>1, NoClickIs DEF Offers
  <2> QED BY <1>2, <2>2 DEF CancelDiff, ConfigInv, ConfigFlags
<1>3. CASE HandleConfirmSave
  <2>1. /\ clicked' \in ClickType /\ clicked'.tab = clicked.tab /\ clicked'.dirty = clicked.dirty
        /\ clicked'.visual = clicked.visual /\ clicked'.content = diff.merged
        /\ clicked'.loaded = clicked.loaded
    BY <1>1, <1>3 DEF HandleConfirmSave, ClickType, DiffType
  <2>2. diff.open /\ diff' = diff  BY <1>3 DEF HandleConfirmSave
  <2>3. clicked.tab = "visual" => Captured(diff, clicked') /\ Patched(diff, clicked')
    BY <2>1, <2>2 DEF ConfigInv, Offers, Captured, Patched
  <2>4. Offers(saveStep', diff', clicked')
    BY <1>1, <2>1, <2>2, <2>3 DEF Offers
  <2> QED BY <1>3, <2>4 DEF HandleConfirmSave, ConfigInv, ConfigFlags
<1>4. CASE ServePut
  <2>1. /\ saveStep = "putting" /\ saveStep' = "refetching" /\ server' = clicked.content
        /\ UNCHANGED <<diff, clicked>>
    BY <1>4 DEF ServePut
  <2>2. Offers(saveStep', diff', clicked')
    BY <2>1 DEF ConfigInv, Offers
  <2>3. server' \in AnyText  BY <1>1, <2>1 DEF ClickType
  <2> QED BY <1>4, <2>1, <2>2, <2>3 DEF ServePut, ConfigInv, ConfigFlags
<1>5. CASE SaveFails
  <2>1. saveStep' = "" /\ diff' = diff /\ clicked' = IF diff.open THEN clicked ELSE NoClick
    BY <1>5 DEF SaveFails
  <2>2. Offers(saveStep', diff', clicked')
    BY <1>1, <2>1, NoClickIs DEF ConfigInv, Offers
  <2> QED BY <1>5, <2>2 DEF SaveFails, ConfigInv, ConfigFlags
<1> QED BY <1>2, <1>3, <1>4, <1>5

LEMMA ConfirmAnswersKeeps == ASSUME ConfigInv, ConfirmAnswers PROVE ConfigInv'
<1>1. /\ saveStep' = "" /\ content' = server /\ dirty' = FALSE /\ clicked' = NoClick
      /\ diff' = [open |-> FALSE, server |-> server, merged |-> server]
      /\ visual' = LoadedVisual(server, visual)
      /\ activeTab' = TabAfter(activeTab, visual')
      /\ StartLoads(1) \/ UNCHANGED <<loading, loadsInFlight, requests>>
      /\ UNCHANGED <<sourceConfigLoaded, server, edits, otherEdits>>
  BY DEF ConfirmAnswers
<1>2. server \in AnyText /\ sourceConfigLoaded \in BOOLEAN
  BY DEF ConfigInv, ConfigFlags
<1>3. Shows(activeTab, sourceConfigLoaded, content, visual)'
  BY <1>1, <1>2, FilledKeeps
<1>4. Offers("", diff', NoClick)
  BY <1>1, <1>2, NoClickIs DEF Offers, DiffType
<1>5. LoadsOK(loadsInFlight', requests') /\ requests' \in 0 .. MaxRequests /\ loading' \in BOOLEAN
  <2>1. CASE StartLoads(1)  BY <2>1, StartLoadsKeeps
  <2>2. CASE UNCHANGED <<loading, loadsInFlight, requests>>
    BY <2>2 DEF ConfigInv, ConfigFlags
  <2> QED BY <1>1, <2>1, <2>2
<1> QED BY <1>1, <1>3, <1>4, <1>5 DEF ConfigInv, ConfigFlags

LEMMA ConfigInitOK == ConfigInit => ConfigInv
<1> SUFFICES ASSUME ConfigInit PROVE ConfigInv
  OBVIOUS
<1>1. 0 \in 0 .. MaxEdits /\ 0 \in 0 .. MaxChanges /\ 1 \in 0 .. MaxRequests /\ 1 \in 1 .. MaxRequests
  BY ConfigBounds
<1>2. ConfigFlags
  BY <1>1, ConfigBounds DEF ConfigInit, ConfigFlags
<1>3. Shows(activeTab, sourceConfigLoaded, content, visual)
  BY NoClickIs, ConfigBounds DEF ConfigInit, Shows, Untouched, InitialVisual, Tabs
<1>4. Offers(saveStep, diff, clicked)
  BY NoClickIs, ConfigBounds DEF ConfigInit, Offers, DiffType
<1>5. LoadsOK(loadsInFlight, requests)
  <2> DEFINE m == [id |-> 1, read |-> FALSE, text |-> Empty]
  <2>1. loadsInFlight = {m} /\ requests = 1  BY DEF ConfigInit
  <2>2. m \in [id : 1 .. MaxRequests, read : BOOLEAN, text : AnyText]
    BY <1>1, ConfigBounds
  <2>3. m.id = 1  OBVIOUS
  <2> HIDE DEF m
  <2>4. m.id <= 1  BY <2>3
  <2> QED BY <2>1, <2>2, <2>4 DEF LoadsOK
<1> QED BY <1>2, <1>3, <1>4, <1>5 DEF ConfigInv

LEMMA ConfigStep == ASSUME ConfigInv, [ConfigNext]_configVars PROVE ConfigInv'
<1>1. ASSUME NEW f \in Fields, NEW to \in Settings, SetVisualValue(f, to) PROVE ConfigInv'
  BY <1>1, SetVisualValueKeeps
<1>2. ASSUME NEW text \in WrittenTexts, HandleChange(text) PROVE ConfigInv'
  BY <1>2, HandleChangeKeeps, ConfigBounds
<1>3. ASSUME NEW text \in WrittenTexts, ServerChanges(text) PROVE ConfigInv'
  BY <1>3, ServerChangesKeeps, ConfigBounds
<1>4. ASSUME NEW l \in loadsInFlight, ServeLoad(l) \/ LoadAnswers(l) PROVE ConfigInv'
  BY <1>4, ServeLoadKeeps, LoadAnswersKeeps
<1>5. ASSUME NEW l \in loadsInFlight, LoadFails(l) PROVE ConfigInv'
  BY <1>5 DEF LoadFails, ConfigInv, ConfigFlags, LoadsOK
<1>6. CASE EnterManagerTab \/ EnterSourceTab \/ EnterVisualTab
  BY <1>6, EnterTabKeeps
<1>7. ASSUME NEW tab \in {"visual", "source"}, EnterUnloaded(tab) PROVE ConfigInv'
  BY <1>7, EnterUnloadedKeeps
<1>8. CASE HandleReload
  <2>1. StartLoads(1)  BY <1>8 DEF HandleReload
  <2> QED BY <1>8, <2>1, StartLoadsKeeps DEF HandleReload, ConfigInv, ConfigFlags
<1>9. CASE HandleSave  BY <1>9, HandleSaveKeeps
<1>10. CASE SaveFetched  BY <1>10, SaveFetchedKeeps
<1>11. CASE CancelDiff \/ HandleConfirmSave \/ ServePut \/ SaveFails  BY <1>11, DialogKeeps
<1>12. CASE ConfirmAnswers  BY <1>12, ConfirmAnswersKeeps
<1>13. CASE UNCHANGED configVars
  BY <1>13 DEF configVars, ConfigInv, ConfigFlags
<1> QED
  BY <1>1, <1>2, <1>3, <1>4, <1>5, <1>6, <1>7, <1>8, <1>9, <1>10, <1>11, <1>12, <1>13
  DEF ConfigNext, ConfigEdits, ConfigLoads, ConfigTabs

LEMMA ConfigTypes == ASSUME ConfigInv PROVE ConfigTypeOK
BY DEF ConfigInv, ConfigFlags, Shows, Untouched, Offers, LoadsOK, ClickType, DiffType, ConfigTypeOK

\* The state of the config.yaml editor has its type, and the visual tab is never
\* the one shown while its text does not parse.
THEOREM ConfigTyped == ConfigSpec => []ConfigTypeOK
BY ConfigTypes, ConfigInitOK, ConfigStep, PTL DEF ConfigSpec

\* A save from the visual tab is a patch of the unsaved source text, or else of
\* the text just fetched: the top-level fields the editor does not know stay, no
\* guarded field is created unasked, and where that text is the one the page
\* showed, every field left alone reads the same; whatever other clients, loads
\* and tab changes did before (handleSave's visualBaseYaml and
\* applyVisualChangesToYaml).
THEOREM VisualSavesArePatches == ConfigSpec => []VisualSaveIsAPatch
<1>1. ConfigInv => VisualSaveIsAPatch
  <2> SUFFICES ASSUME ConfigInv, diff.open, clicked.tab = "visual"
               PROVE  /\ diff.merged.extra = PatchBase.extra
                      /\ PatchBase.opt = Absent /\ "opt" \notin clicked.visual.dirtyFields =>
                             diff.merged.opt = Absent
                      /\ clicked.loaded /\ PatchBase = clicked.content =>
                             \A f \in Fields \ clicked.visual.dirtyFields :
                                 ShownValues(diff.merged)[f] = ShownValues(PatchBase)[f]
    BY DEF VisualSaveIsAPatch
  <2>1. diff.server \in AnyText /\ clicked.visual \in VisualState /\ clicked.content \in AnyText
    BY DEF ConfigInv, Offers, DiffType, ClickType
  <2>2. PatchBase \in AnyText  BY <2>1 DEF PatchBase
  <2>3. \/ diff.merged = PatchBase
        \/ diff.merged = ApplyVisualChangesToYaml(PatchBase, clicked.visual)
    BY DEF ConfigInv, Offers, Patched, PatchBase
  <2>4. Captured(diff, clicked)  BY DEF ConfigInv, Offers
  <2>5. CASE diff.merged = PatchBase
    BY <2>5
  <2>6. CASE diff.merged = ApplyVisualChangesToYaml(PatchBase, clicked.visual) /\ ~PatchBase.ok
    BY <2>1, <2>2, <2>6, AppliedIs
  <2>7. CASE diff.merged = ApplyVisualChangesToYaml(PatchBase, clicked.visual) /\ PatchBase.ok
    <3>1. ASSUME clicked.loaded, PatchBase = clicked.content, diff.merged # PatchBase,
                 NEW f \in Fields \ clicked.visual.dirtyFields
          PROVE  ShownValues(diff.merged)[f] = ShownValues(PatchBase)[f]
      <4>1. clicked.visual.baseline = ShownValues(PatchBase)
        BY <2>4, <2>7, <3>1 DEF Captured
      <4>2. clicked.visual.values[f] = clicked.visual.baseline[f]
        BY <2>4, <3>1 DEF Captured, Untouched
      <4> QED BY <2>1, <2>2, <2>7, <3>1, <4>1, <4>2, AppliedReads
    <3> QED BY <2>1, <2>2, <2>7, <3>1, AppliedIs
  <2> QED BY <2>3, <2>5, <2>6, <2>7
<1> QED BY <1>1, ConfigInitOK, ConfigStep, PTL DEF ConfigSpec

\* Going straight from one editor to the other keeps what a save would write: the
\* visual tab is left with nothing to say unless a field was changed, and entered
\* with the values of the text (handleTabChange).
THEOREM EditorsAgreeAlways == ConfigSpec => EditorsAgree
<1> DEFINE Switched == {activeTab, activeTab'} = {"visual", "source"} /\ loadsInFlight' = loadsInFlight
                       /\ saveStep' = saveStep
           Agreed == Switched => SayTheSame(Pending, Pending')
<1>1. ASSUME ConfigInv, [ConfigNext]_configVars, Switched PROVE SayTheSame(Pending, Pending')
  <2>0. /\ Untouched(visual) /\ content \in AnyText /\ visual \in VisualState
        /\ activeTab # activeTab' /\ {activeTab, activeTab'} \subseteq {"visual", "source"}
    BY <1>1 DEF ConfigInv, Shows, Untouched
  <2>1. ASSUME NEW l \in loadsInFlight, ServeLoad(l) \/ LoadAnswers(l) \/ LoadFails(l) PROVE FALSE
    BY <1>1, <2>0, <2>1 DEF ServeLoad, LoadAnswers, LoadFails
  <2>2. ASSUME NEW tab \in {"visual", "source"}, EnterUnloaded(tab) PROVE FALSE
    <3>1. PICK k \in {1, 2} : StartLoads(k)  BY <2>2 DEF EnterUnloaded
    <3> QED BY <1>1, <3>1, StartLoadsKeeps
  <2>3. CASE EnterSourceTab
    <3>1. /\ activeTab = "visual" /\ activeTab' = "source" /\ sourceConfigLoaded /\ visual' = visual
          /\ content' = IF visualDirty THEN ApplyVisualChangesToYaml(content, visual) ELSE content
      BY <2>0, <2>3 DEF EnterSourceTab
    <3>2. CASE visualDirty
      <4>1. Pending' = Pending  BY <3>1, <3>2 DEF Pending
      <4> QED BY <4>1 DEF SayTheSame
    <3>3. CASE ~visualDirty
      <4>1. visual.dirtyFields = {}  BY <3>3 DEF visualDirty
      <4>2. visual.values = visual.baseline  BY <2>0, <4>1 DEF Untouched, VisualState
      <4>3. content.ok => visual.values = ShownValues(content)
        BY <1>1, <3>1, <4>2 DEF ConfigInv, Shows
      <4>4. SayTheSame(ApplyVisualChangesToYaml(content, visual), content)
        BY <2>0, <4>1, <4>3, AppliedSays
      <4>5. Pending = ApplyVisualChangesToYaml(content, visual) /\ Pending' = content
        BY <3>1, <3>3 DEF Pending
      <4> QED BY <4>4, <4>5
    <3> QED BY <3>2, <3>3
  <2>4. CASE EnterVisualTab
    <3>1. /\ visual' = LoadedVisual(content, visual) /\ content' = content
          /\ activeTab' = IF content.ok THEN "visual" ELSE activeTab
      BY <2>4 DEF EnterVisualTab
    <3>2. content.ok /\ activeTab' = "visual" /\ activeTab = "source"
      BY <2>0, <3>1
    <3>3. /\ visual' \in VisualState /\ visual'.dirtyFields = {}
          /\ visual'.values = ShownValues(content)
      BY <2>0, <3>1, <3>2, LoadedKeeps DEF Untouched
    <3>4. SayTheSame(ApplyVisualChangesToYaml(content, visual'), content)
      BY <2>0, <3>3, AppliedSays
    <3>5. Pending = content /\ Pending' = ApplyVisualChangesToYaml(content, visual')
      BY <3>1, <3>2 DEF Pending
    <3> QED BY <3>4, <3>5 DEF SayTheSame
  <2>5. CASE HandleReload \/ HandleSave \/ SaveFetched \/ CancelDiff
    BY <1>1, <2>0, <2>5 DEF HandleReload, HandleSave, SaveFetched, CancelDiff
  <2>6. CASE HandleConfirmSave \/ ServePut \/ ConfirmAnswers \/ SaveFails
    BY <1>1, <2>0, <2>6 DEF HandleConfirmSave, ServePut, ConfirmAnswers, SaveFails
  <2>7. CASE EnterManagerTab
    BY <1>1, <2>0, <2>7 DEF EnterManagerTab
  <2>8. CASE ConfigEdits \/ UNCHANGED configVars
    BY <1>1, <2>0, <2>8 DEF ConfigEdits, SetVisualValue, HandleChange, ServerChanges, configVars
  <2> QED BY <1>1, <2>1, <2>2, <2>3, <2>4, <2>5, <2>6, <2>7, <2>8 DEF ConfigNext, ConfigLoads, ConfigTabs
<1>2. ASSUME ConfigInv, [ConfigNext]_configVars PROVE [Agreed]_configVars
  BY <1>1, <1>2
<1> QED BY <1>2, ConfigInitOK, ConfigStep, PTL DEF ConfigSpec, EditorsAgree

(***************************************************************************)
(* The pages together.                                                     *)
(***************************************************************************)

\* The panel's pages, of which a behaviour uses one: the state of each has its
\* type, and no page's state is another's.
THEOREM PagesTyped == Spec => []TypeOK
<1> DEFINE PagesInv == QuotaInv /\ InspectionInv /\ AuthFilesInv /\ ConfigInv
           FeedsInv == LogsInv /\ OAuthTypeOK /\ WaitingIsPolled /\ MonitoringInv
<1>1. Init => PagesInv /\ FeedsInv
  BY QuotaInitOK, InspectionInitOK, AuthFilesInitOK, ConfigInitOK,
     LogsInitOK, OAuthInitOK, MonitoringInitOK DEF Init
<1>2. ASSUME PagesInv, FeedsInv, [Next]_vars PROVE PagesInv' /\ FeedsInv'
  <2>1. /\ [QuotaNext]_quotaVars /\ [InspectionNext]_inspectionVars
        /\ [AuthFilesNext]_authFilesVars /\ [ConfigNext]_configVars
        /\ [LogsNext]_logsVars /\ [OAuthNext]_oauthVars /\ [MonitoringNext]_monitoringVars
    BY <1>2 DEF Next, QuotaPart, InspectionPart, AuthFilesPart, ConfigPart, LogsPart, OAuthPart,
                MonitoringPart, pageVars, feedVars, vars
  <2> QED
    BY <1>2, <2>1, QuotaStep, InspectionStep, AuthFilesStep, ConfigStep, LogsStep, OAuthStep,
       MonitoringStep
<1>3. PagesInv /\ FeedsInv => TypeOK
  BY QuotaTypes, InspectionTypes, AuthFilesTypes, ConfigTypes, LogsTypes, MonitoringTypes DEF TypeOK
<1> HIDE DEF PagesInv, FeedsInv
<1> QED BY <1>1, <1>2, <1>3, PTL DEF Spec
=============================================================================
