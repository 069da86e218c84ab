---------------------------- MODULE AuthFilesPanel ----------------------------
(***************************************************************************)
(* The auth files page: its list, which an interval and most operations    *)
(* load again, the selection, the change of a file's status by a switch or *)
(* for a whole selection, batch edits of fields, uploads, pasted JSON, and *)
(* deletions, whose answers CPA gives in several shapes.  Each file holds  *)
(* one credential here.                                                    *)
(***************************************************************************)
EXTENDS Integers, FiniteSets

CONSTANTS
    AuthNames,       \* names of auth files
    RuntimeOnly,     \* those without a file of their own: not selectable
    MaxUnderWay      \* bound: lists of the page's own and operations under way

ASSUME AuthFilesAssumption ==
    IsFiniteSet(AuthNames) /\ RuntimeOnly \subseteq AuthNames /\ MaxUnderWay \in Nat

FileStates == {"absent", "enabled", "disabled"}

VARIABLES
    listed,        \* the page's list: per name, absent or its status
    loadingFiles,  \* the page's loading flag
    fileLists,     \* number of lists under way that no operation waits for
    selected,      \* selectedFiles
    statusUpdating,\* names whose switch waits
    statusCalls,   \* changes of status under way: names, target, status before, whether a batch
    fieldsUpdate,  \* batchPatchFields: idle, patching, or loading the list again
    upload,        \* handleFileChange: idle, sending, or loading the list again
    pasting,       \* savePastedAuthJson: idle, sending, or loading the list again
    deletions      \* deletions under way: asked, one file, all; gone and reply once served

authFilesVars == <<listed, loadingFiles, fileLists, selected, statusUpdating, statusCalls,
                   fieldsUpdate, upload, pasting, deletions>>

AuthFilesInit ==
    /\ listed = [n \in AuthNames |-> "absent"]
    /\ loadingFiles = TRUE /\ fileLists = 0
    /\ selected = {}
    /\ statusUpdating = {} /\ statusCalls = {}
    /\ fieldsUpdate = "idle" /\ upload = "idle" /\ pasting = "idle"
    /\ deletions = {}

MayStart ==
    LET busy(phase) == IF phase = "idle" THEN 0 ELSE 1 IN
    fileLists + Cardinality(statusCalls) + Cardinality(deletions)
        + busy(fieldsUpdate) + busy(upload) + busy(pasting) < MaxUnderWay

\* What the checkboxes offer: not the files that exist in CPA's memory only.
Selectable == {n \in AuthNames \ RuntimeOnly : listed[n] # "absent"}

-----------------------------------------------------------------------------
(* The selection. *)

ToggleSelect(n) ==
    /\ n \in Selectable
    /\ selected' = (selected \ {n}) \cup ({n} \ selected)
    /\ UNCHANGED <<listed, loadingFiles, fileLists, statusUpdating, statusCalls,
                   fieldsUpdate, upload, pasting, deletions>>

\* All of a page of the list, or of what a filter leaves.
SelectAllVisible(visible) ==
    /\ visible \subseteq Selectable
    /\ selected' = selected \cup visible
    /\ UNCHANGED <<listed, loadingFiles, fileLists, statusUpdating, statusCalls,
                   fieldsUpdate, upload, pasting, deletions>>

InvertVisibleSelection(visible) ==
    /\ visible \subseteq Selectable
    /\ selected' = (selected \ visible) \cup (visible \ selected)
    /\ UNCHANGED <<listed, loadingFiles, fileLists, statusUpdating, statusCalls,
                   fieldsUpdate, upload, pasting, deletions>>

DeselectAll ==
    /\ selected' = {}
    /\ UNCHANGED <<listed, loadingFiles, fileLists, statusUpdating, statusCalls,
                   fieldsUpdate, upload, pasting, deletions>>

\* The effect that drops what is listed no more from the selection.
PrunedSelection(l, s) == {n \in s : l[n] # "absent"}

-----------------------------------------------------------------------------
(* Lists. *)

\* loadFiles() answers with some list, or fails; either ends the loading.
ListArrives ==
    /\ loadingFiles' = FALSE
    /\ \/ UNCHANGED <<listed, selected>>
       \/ /\ listed' \in [AuthNames -> FileStates]
          /\ selected' = PrunedSelection(listed', selected)

\* On entering the page, by its interval, the header, a new order of the list.
LoadAuthFiles ==
    /\ MayStart
    /\ fileLists' = fileLists + 1
    /\ loadingFiles' = TRUE
    /\ UNCHANGED <<listed, selected, statusUpdating, statusCalls,
                   fieldsUpdate, upload, pasting, deletions>>

AuthFilesArrive ==
    /\ fileLists > 0
    /\ fileLists' = fileLists - 1
    /\ ListArrives
    /\ UNCHANGED <<statusUpdating, statusCalls, fieldsUpdate, upload, pasting, deletions>>

-----------------------------------------------------------------------------
(* The status of one file, and of a selection. *)

WithStatus(names, status) ==
    [n \in AuthNames |-> IF n \in names /\ listed[n] # "absent" THEN status[n] ELSE listed[n]]

StartChange(names, to, batch) ==
    /\ MayStart
    /\ statusUpdating' = statusUpdating \cup names
    /\ listed' = WithStatus(names, [n \in names |-> to])
    /\ statusCalls' = statusCalls \cup {[names |-> names, to |-> to, batch |-> batch,
                                         before |-> [n \in names |-> listed[n]]]}

\* handleStatusToggle(): the file shows its new status before CPA has agreed.
StatusToggle(n) ==
    /\ n \in Selectable \ statusUpdating
    /\ StartChange({n}, IF listed[n] = "enabled" THEN "disabled" ELSE "enabled", FALSE)
    /\ UNCHANGED <<loadingFiles, fileLists, selected, fieldsUpdate, upload, pasting, deletions>>

\* Mutated form: a batch looks at other batches only.
OtherBatches(names) == ~\E c \in statusCalls : c.batch

\* batchSetStatus() refuses while another batch, or any of the files, is changing.
MayChange(names) == (~\E c \in statusCalls : c.batch) /\ names \cap statusUpdating = {}

BatchSetStatus(to) ==
    /\ selected # {} /\ MayChange(selected)
    /\ StartChange({n \in selected : listed[n] # "absent"}, to, TRUE)
    /\ UNCHANGED <<loadingFiles, fileLists, selected, fieldsUpdate, upload, pasting, deletions>>

\* The calls of a change have ended: what failed shows the status it had before.
StatusAnswers(c, failed) ==
    /\ failed \subseteq c.names
    /\ listed' = WithStatus(c.names, [n \in c.names |-> IF n \in failed THEN c.before[n] ELSE c.to])
    /\ statusUpdating' = statusUpdating \ c.names
    /\ statusCalls' = statusCalls \ {c}
    /\ selected' = IF c.batch THEN {} ELSE selected
    /\ UNCHANGED <<loadingFiles, fileLists, fieldsUpdate, upload, pasting, deletions>>

-----------------------------------------------------------------------------
(* Batch edits, uploads and pasted files. *)

\* batchPatchFields(): its groups are sent at once.
BatchPatchFields ==
    /\ fieldsUpdate = "idle" /\ MayStart /\ selected # {}
    /\ fieldsUpdate' = "sending"
    /\ UNCHANGED <<listed, loadingFiles, fileLists, selected, statusUpdating, statusCalls,
                   upload, pasting, deletions>>

\* With any success the list is loaded again; the selection goes at the end.
FieldsAnswer ==
    /\ \/ fieldsUpdate = "sending" /\ fieldsUpdate' = "loading" /\ loadingFiles' = TRUE
          /\ UNCHANGED <<listed, selected>>
       \/ fieldsUpdate = "sending" /\ fieldsUpdate' = "idle" /\ selected' = {}
          /\ UNCHANGED <<listed, loadingFiles>>
       \/ fieldsUpdate = "loading" /\ fieldsUpdate' = "idle" /\ selected' = {}
          /\ loadingFiles' = FALSE
          /\ (UNCHANGED listed \/ listed' \in [AuthNames -> FileStates])
    /\ UNCHANGED <<fileLists, statusUpdating, statusCalls, upload, pasting, deletions>>

\* handleFileChange(), with at least one file that is JSON and not too large.
StartUpload ==
    /\ upload = "idle" /\ MayStart
    /\ upload' = "sending"
    /\ UNCHANGED <<listed, loadingFiles, fileLists, selected, statusUpdating, statusCalls,
                   fieldsUpdate, pasting, deletions>>

\* Counted by mergeBatchUploadResults(); nothing uploaded, nothing to load.
UploadAnswers ==
    /\ \/ upload = "sending" /\ upload' = "loading" /\ loadingFiles' = TRUE
          /\ UNCHANGED <<listed, selected>>
       \/ upload = "sending" /\ upload' = "idle" /\ UNCHANGED <<listed, loadingFiles, selected>>
       \/ upload = "loading" /\ upload' = "idle" /\ ListArrives
    /\ UNCHANGED <<fileLists, statusUpdating, statusCalls, fieldsUpdate, pasting, deletions>>

\* savePastedAuthJson(): refused while one is being saved.
PasteAuthJson ==
    /\ pasting = "idle" /\ MayStart
    /\ pasting' = "sending"
    /\ UNCHANGED <<listed, loadingFiles, fileLists, selected, statusUpdating, statusCalls,
                   fieldsUpdate, upload, deletions>>

PasteAnswers ==
    /\ \/ pasting = "sending" /\ pasting' = "loading" /\ loadingFiles' = TRUE
          /\ UNCHANGED <<listed, selected>>
       \/ pasting = "sending" /\ pasting' = "idle" /\ UNCHANGED <<listed, loadingFiles, selected>>
       \/ pasting = "loading" /\ pasting' = "idle" /\ ListArrives
    /\ UNCHANGED <<fileLists, statusUpdating, statusCalls, fieldsUpdate, upload, deletions>>

-----------------------------------------------------------------------------
(* Deletions.  A reply may give a count (Missing if not), names, failures. *)

Missing == -1
Replies == [deleted : {Missing} \cup 0 .. Cardinality(AuthNames), files : SUBSET AuthNames,
            failed : SUBSET AuthNames]
NoReply == [deleted |-> Missing, files |-> {}, failed |-> {}]

\* What CPA may answer when it deleted gone: any part of the truth, but not
\* success for a file it kept.
TrueReplies(asked, gone) ==
    {r \in Replies : /\ r.deleted \in {Missing, Cardinality(gone)}
                     /\ r.files \in {{}, gone}
                     /\ r.failed \in {{}, asked \ gone}
                     /\ r = NoReply => gone = asked}

\* normalizeBatchDeleteResponse(): the number of files deleted.
CountDeleted(asked, r) ==
    CASE r.deleted # Missing                     -> r.deleted
      [] r.deleted = Missing /\ r.files # {}     -> Cardinality(r.files)
      [] OTHER -> IF Cardinality(asked) = 1 /\ r.failed = {} THEN 1 ELSE 0

\* deriveSuccessfulFileNames().
NotFailed(asked, r) == asked \ r.failed

\* Mutated form: the names derived are not held against the count.
UncheckedNames(asked, r) ==
    IF r.files # {} THEN r.files
    ELSE IF CountDeleted(asked, r) > 0 THEN NotFailed(asked, r) ELSE {}

\* normalizeBatchDeleteResponse(): the files deleted, as far as they can be told.
DeletedNames(asked, r) ==
    IF r.files # {} THEN r.files
    ELSE IF CountDeleted(asked, r) > 0 /\ Cardinality(NotFailed(asked, r)) = CountDeleted(asked, r)
    THEN NotFailed(asked, r)
    ELSE {}

StartDeletion(asked, kind) ==
    /\ MayStart
    /\ deletions' = deletions \cup {[asked |-> asked, kind |-> kind, served |-> FALSE,
                                     gone |-> {}, reply |-> NoReply]}
    /\ UNCHANGED <<listed, loadingFiles, fileLists, selected, statusUpdating, statusCalls,
                   fieldsUpdate, upload, pasting>>

\* handleDelete(), confirmed.
DeleteFile(n) == n \in Selectable /\ StartDeletion({n}, "one")

\* batchDelete() of the selection, confirmed.
BatchDelete == selected # {} /\ StartDeletion(selected, "many")

\* handleDeleteAll(): of what the filters leave, or of everything.
DeleteFiltered(names) ==
    /\ names # {} /\ names \subseteq Selectable
    /\ ~loadingFiles /\ ~\E d \in deletions : d.kind = "all"
    /\ StartDeletion(names, "many")
DeleteEverything ==
    /\ ~loadingFiles /\ ~\E d \in deletions : d.kind = "all"
    /\ StartDeletion(AuthNames \ RuntimeOnly, "all")

\* CPA deletes.
ServeDeletion(d) ==
    /\ ~d.served
    /\ \E gone \in SUBSET d.asked : \E r \in TrueReplies(d.asked, gone) :
        deletions' = (deletions \ {d}) \cup {[d EXCEPT !.served = TRUE, !.gone = gone, !.reply = r]}
    /\ UNCHANGED <<listed, loadingFiles, fileLists, selected, statusUpdating, statusCalls,
                   fieldsUpdate, upload, pasting>>

\* applyDeletedFiles(): of one file, its name if the reply tells none.
Dropped(d) ==
    CASE d.kind = "all"  -> AuthNames \ RuntimeOnly
      [] d.kind = "many" -> DeletedNames(d.asked, d.reply)
      [] d.kind = "one"  -> IF DeletedNames(d.asked, d.reply) = {} THEN d.asked
                            ELSE DeletedNames(d.asked, d.reply)

\* The answer arrives, or the call fails.
DeletionAnswers(d) ==
    /\ deletions' = deletions \ {d}
    /\ \/ /\ d.served
          /\ listed' = [n \in AuthNames |-> IF n \in Dropped(d) THEN "absent" ELSE listed[n]]
          /\ selected' = IF d.kind = "all" THEN {} ELSE selected \ Dropped(d)
       \/ UNCHANGED <<listed, selected>>
    /\ UNCHANGED <<loadingFiles, fileLists, statusUpdating, statusCalls, fieldsUpdate, upload, pasting>>

-----------------------------------------------------------------------------
AuthFilesNext ==
    \/ \E n \in AuthNames : ToggleSelect(n) \/ StatusToggle(n) \/ DeleteFile(n)
    \/ \E names \in SUBSET AuthNames :
        SelectAllVisible(names) \/ InvertVisibleSelection(names) \/ DeleteFiltered(names)
    \/ DeselectAll
    \/ LoadAuthFiles \/ AuthFilesArrive
    \/ \E to \in {"enabled", "disabled"} : BatchSetStatus(to)
    \/ \E c \in statusCalls : \E failed \in SUBSET c.names : StatusAnswers(c, failed)
    \/ BatchPatchFields \/ FieldsAnswer
    \/ StartUpload \/ UploadAnswers \/ PasteAuthJson \/ PasteAnswers
    \/ BatchDelete \/ DeleteEverything
    \/ \E d \in deletions : ServeDeletion(d) \/ DeletionAnswers(d)

AuthFilesSpec == AuthFilesInit /\ [][AuthFilesNext]_authFilesVars

-----------------------------------------------------------------------------
AuthFilesTypeOK ==
    /\ listed \in [AuthNames -> FileStates]
    /\ loadingFiles \in BOOLEAN
    /\ fileLists \in 0 .. MaxUnderWay
    /\ selected \subseteq AuthNames \ RuntimeOnly
    /\ statusUpdating \subseteq AuthNames
    /\ \A c \in statusCalls : /\ c.names \subseteq AuthNames /\ c.before \in [c.names -> FileStates]
                              /\ c.to \in FileStates /\ c.batch \in BOOLEAN
    /\ {fieldsUpdate, upload, pasting} \subseteq {"idle", "sending", "loading"}
    /\ \A d \in deletions : /\ d.gone \subseteq d.asked /\ d.asked \subseteq AuthNames
                            /\ d.reply \in Replies /\ d.kind \in {"one", "many", "all"}
                            /\ d.served \in BOOLEAN

\* A switch waits if and only if one change of its file is under way: no switch
\* stays blocked, and no two changes of one file race, one's failure putting
\* back what the other has overwritten.
OneChangePerSwitch ==
    \A n \in AuthNames :
        Cardinality({c \in statusCalls : n \in c.names}) = IF n \in statusUpdating THEN 1 ELSE 0

\* What the page will drop after a deletion of several files has been deleted,
\* in whatever shape CPA reports a partial success.
DroppedAreDeleted ==
    \A d \in deletions : d.served /\ d.kind = "many" => Dropped(d) \subseteq d.gone
=============================================================================
