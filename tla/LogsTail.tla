-------------------------------- MODULE LogsTail --------------------------------
(***************************************************************************)
(* The logs page: a buffer of log lines that full loads replace and polls  *)
(* extend, the position the next poll asks from, and the one request that  *)
(* may be under way, against a log that grows and may be cleared.  A new   *)
(* CPA gives a cursor and says when it is void; an old one knows only the  *)
(* time of a line.  Lines are numbered as they are written, and no two are *)
(* written at the same time.                                               *)
(***************************************************************************)
EXTENDS Integers, Sequences

CONSTANTS
    Buffered,    \* MAX_BUFFER_LINES: the limit of a request and of the buffer
    MaxLines     \* bound: lines written

ASSUME LogsAssumption == Buffered \in Nat \ {0} /\ MaxLines \in Nat

NoPosition == -1
Positions == NoPosition .. MaxLines
Idle == [kind |-> "none", after |-> NoPosition, served |-> FALSE, lines |-> <<>>,
         next |-> NoPosition, reset |-> FALSE]

VARIABLES
    cursors,       \* CPA gives cursors
    log,           \* CPA's log: first and last line it holds
    logsTab,       \* canLoadFileLogs: the tab of the log is shown
    buffer,        \* logState.buffer
    position,      \* logPositionRef
    load,          \* the load under way, with its answer once CPA has given it
    pendingFull,   \* pendingFullReloadRef
    clear,         \* clearLogs: none, sent, or served
    adrift         \* history: a full load failed and left lines with no position to go on from

logsVars == <<cursors, log, logsTab, buffer, position, load, pendingFull, clear, adrift>>

Lines(from, to) == [i \in 1 .. (IF to < from THEN 0 ELSE to - from + 1) |-> from + i - 1]
Newest(s) == IF Len(s) <= Buffered THEN s ELSE SubSeq(s, Len(s) - Buffered + 1, Len(s))

\* The request of a load: buildLogsQuery().
Asked(kind, at) == [Idle EXCEPT !.kind = kind, !.after = IF kind = "full" THEN NoPosition ELSE at]

\* The page opens: its effect loads the log.
LogsInit ==
    /\ cursors \in BOOLEAN
    /\ log = [first |-> 1, last |-> 0]
    /\ logsTab = TRUE
    /\ buffer = <<>>
    /\ position = NoPosition
    /\ load = Asked("full", NoPosition)
    /\ pendingFull = FALSE
    /\ clear = "none"
    /\ adrift = FALSE

-----------------------------------------------------------------------------
\* loadLogs() starts nothing while a load is under way; a full load is remembered.
LoadLogs(kind, at) ==
    IF load.kind = "none"
    THEN load' = Asked(kind, at) /\ UNCHANGED pendingFull
    ELSE pendingFull' = (pendingFull \/ kind = "full") /\ UNCHANGED load

\* The interval, and the header's refresh.
Poll ==
    /\ logsTab
    /\ LoadLogs("poll", position)
    /\ UNCHANGED <<cursors, log, logsTab, buffer, position, clear, adrift>>

RefreshLogs ==
    /\ logsTab
    /\ LoadLogs("full", position)
    /\ UNCHANGED <<cursors, log, logsTab, buffer, position, clear, adrift>>

\* To the tab of error logs; what is under way goes on.
LeaveLogsTab ==
    /\ logsTab
    /\ logsTab' = FALSE
    /\ UNCHANGED <<cursors, log, buffer, position, load, pendingFull, clear, adrift>>

\* Back: the effect drops the position and loads; the buffer is still there.
ReturnToLogsTab ==
    /\ ~logsTab
    /\ logsTab' = TRUE
    /\ position' = NoPosition
    /\ LoadLogs("full", NoPosition)
    /\ UNCHANGED <<cursors, log, buffer, clear, adrift>>

-----------------------------------------------------------------------------
(* CPA. *)

\* Whether a cursor is of a line the log still holds.
CursorHolds(p) == p \in log.first .. log.last

\* What CPA answers to a request from p: the lines since, at most the limit of
\* them, the position to go on from, and whether p was void.  Without a new
\* line an old CPA may tell no time.
LogReplies(p) ==
    LET since == IF p = NoPosition \/ (cursors /\ ~CursorHolds(p)) THEN log.first
                 ELSE IF p < log.first THEN log.first ELSE p + 1
        lines == Newest(Lines(since, log.last))
    IN  {[lines |-> lines, next |-> next, reset |-> cursors /\ p # NoPosition /\ ~CursorHolds(p)] :
            next \in IF cursors THEN {log.last}
                     ELSE IF lines # <<>> THEN {log.last}
                     ELSE IF log.first > log.last THEN {NoPosition} ELSE {log.last, NoPosition}}

ServeLogs ==
    /\ load.kind # "none" /\ ~load.served
    /\ \E r \in LogReplies(load.after) :
        load' = [load EXCEPT !.served = TRUE, !.lines = r.lines, !.next = r.next, !.reset = r.reset]
    /\ UNCHANGED <<cursors, log, logsTab, buffer, position, pendingFull, clear, adrift>>

WriteLine ==
    /\ log.last < MaxLines
    /\ log' = [log EXCEPT !.last = @ + 1]
    /\ UNCHANGED <<cursors, logsTab, buffer, position, load, pendingFull, clear, adrift>>

\* The page's request to clear is served, or another client's.
LogCleared ==
    /\ log.first <= log.last \/ clear = "sent"
    /\ log' = [log EXCEPT !.first = log.last + 1]
    /\ clear' \in (IF clear = "sent" THEN {"sent", "served"} ELSE {clear})
    /\ UNCHANGED <<cursors, logsTab, buffer, position, load, pendingFull, adrift>>

-----------------------------------------------------------------------------
\* Mutated form: whatever was told is the position.
ToldPosition == load.next

\* updateLogPosition(): a poll that was told no time keeps its own.
NextPosition == IF load.next = NoPosition /\ load.kind = "poll" /\ ~cursors THEN position ELSE load.next

\* Mutated form: the limit is the server's alone.
Unlimited == IF load.kind = "full" \/ load.reset THEN Newest(load.lines) ELSE buffer \o load.lines

\* What an answer makes of the buffer.
Extended ==
    IF load.kind = "full" \/ load.reset THEN Newest(load.lines) ELSE Newest(buffer \o load.lines)

\* The load has ended; a full load that waited starts at once.
LoadEnds ==
    /\ pendingFull' = FALSE
    /\ load' = IF pendingFull THEN Asked("full", NoPosition) ELSE Idle

LogsAnswer ==
    /\ load.served
    /\ buffer' = Extended
    /\ position' = NextPosition
    /\ LoadEnds
    /\ adrift' = (adrift /\ load.kind = "poll" /\ ~load.reset)
    /\ UNCHANGED <<cursors, log, logsTab, clear>>

LogsFail ==
    /\ load.kind # "none"
    /\ LoadEnds
    /\ adrift' = (adrift \/ (load.kind = "full" /\ position = NoPosition /\ buffer # <<>>))
    /\ UNCHANGED <<cursors, log, logsTab, buffer, position, clear>>

\* clearLogs(), confirmed; and its answer, or its failure.
ClearLogs ==
    /\ logsTab /\ clear = "none"
    /\ clear' = "sent"
    /\ UNCHANGED <<cursors, log, logsTab, buffer, position, load, pendingFull, adrift>>

ClearAnswers ==
    /\ clear # "none"
    /\ clear' = "none"
    /\ \/ clear = "served" /\ buffer' = <<>> /\ position' = NoPosition /\ adrift' = FALSE
       \/ UNCHANGED <<buffer, position, adrift>>
    /\ UNCHANGED <<cursors, log, logsTab, load, pendingFull>>

LogsNext ==
    \/ Poll \/ RefreshLogs \/ LeaveLogsTab \/ ReturnToLogsTab
    \/ ServeLogs \/ WriteLine \/ LogCleared
    \/ LogsAnswer \/ LogsFail \/ ClearLogs \/ ClearAnswers

LogsSpec == LogsInit /\ [][LogsNext]_logsVars

-----------------------------------------------------------------------------
LogsTypeOK ==
    /\ cursors \in BOOLEAN /\ logsTab \in BOOLEAN /\ pendingFull \in BOOLEAN /\ adrift \in BOOLEAN
    /\ log \in [first : 1 .. MaxLines + 1, last : 0 .. MaxLines]
    /\ buffer \in Seq(1 .. MaxLines) /\ Len(buffer) <= Buffered
    /\ position \in Positions
    /\ load.kind \in {"none", "full", "poll"} /\ load.next \in Positions
    /\ clear \in {"none", "sent", "served"}

\* The lines shown are one stretch of the log: no line twice, none out of order,
\* and none left out that CPA still has.
OneStretch ==
    \A i \in 1 .. Len(buffer) - 1 :
        /\ buffer[i] < buffer[i + 1]
        /\ \A line \in log.first .. log.last : line <= buffer[i] \/ line >= buffer[i + 1]

\* What the page shows is one stretch of the log, however polls, reloads, changes
\* of the tab, clears, failures and lines that are written meanwhile overlap:
\* unless a reload that failed left lines without a position, and then again
\* from the first answer that replaces them (loadLogs).
LogIsOneStretch == ~adrift => OneStretch
=============================================================================
