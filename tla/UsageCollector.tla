--------------------------- MODULE UsageCollector ---------------------------
(***************************************************************************)
(* The collector of CPA usage events: collector.Manager                    *)
(* (collector/collector.go) with the table usage_events                    *)
(* (repository/usageevent), whose unique event_hash drops duplicates.      *)
(*                                                                         *)
(* Every Start adds a goroutine that takes items from CPA over one of      *)
(* three transports, stores the events among them and hands those it has   *)
(* inserted to the automation workers.  Start and Stop cancel the previous *)
(* goroutine's context without waiting for it, so goroutines overlap; they *)
(* share the Status record.  A step is one network call, one SQL           *)
(* transaction, one check of the context or one update of Status.          *)
(*                                                                         *)
(* Left out: what an event says (its snapshots included), and of Status    *)
(* everything but the collector's state, its transport and its counters.   *)
(***************************************************************************)
EXTENDS Naturals, FiniteSets, Sequences, SequencesExt

CONSTANTS
    Events,     \* usage events; two payloads of one event have the same event_hash
    Malformed,  \* payloads usage.NormalizeRaw rejects
    Controls,   \* refresh and support_refresh payloads
    Modes,      \* collector modes an operator may choose
    BatchSize,  \* items asked for in one pop
    Env,        \* what the environment does in this instance
    MaxStarts,  \* bound: how often the collector is started
    MaxCopies,  \* bound: how often CPA publishes an item
    MaxQueue    \* bound: items CPA keeps for one reader

Disturbances ==
    { "connect",     \* a connection or pop is refused
      "unsupported", \* CPA has no HTTP usage queue
      "broken",      \* a connection breaks, with what it was carrying
      "odd",         \* an HTTP item that is neither an object nor a string
      "db",          \* a SQL statement fails
      "stop",        \* the collector is stopped, and started while it runs
      "import",      \* an operator imports events
      "crash" }      \* the process restarts

Items == Events \cup Malformed \cup Controls

ASSUME CollectorConstantsOK ==
    /\ Events \cap Malformed = {} /\ Events \cap Controls = {} /\ Malformed \cap Controls = {}
    /\ Modes \subseteq {"auto", "subscribe", "http", "resp"}
    /\ Env \subseteq Disturbances
    /\ BatchSize \in Nat \ {0}
    /\ MaxStarts \in Nat /\ MaxCopies \in Nat /\ MaxQueue \in Nat

VARIABLES
    published,  \* history: how often CPA has published an item
    queue,      \* CPA's usage queue
    inbox,      \* per goroutine: the messages on its Pub/Sub connection
    stored,     \* usage_events
    dead,       \* dead_letter_events
    handed,     \* history: how often an event was handed to the workers
    inserted,   \* history: events the collector has inserted in this process
    status,     \* Manager.status
    started,    \* goroutines started in this history
    current,    \* the goroutine m.cancel cancels; 0 when it is nil
    run         \* per goroutine: where it is

vars == <<published, queue, inbox, stored, dead, handed, inserted,
          status, started, current, run>>
cpaVars == <<published, queue, inbox>>
dbVars == <<stored, dead, inserted>>

Runs == 1..MaxStarts
Transports == {"subscribe", "http", "resp"}

Run == [step : {"top", "dial", "loop", "announce", "pop", "process", "hand", "failed",
                "mark", "ended"},
        mode : Modes,
        transport : Transports,
        subscribed : BOOLEAN,        \* it has had a Pub/Sub connection
        batch : Seq(Items),          \* items taken and not yet looked at
        events : Seq(Events),        \* the events among them
        new : SUBSET (Nat \ {0}),    \* the positions of the events it inserted ...
        todo : SUBSET (Nat \ {0})]   \* ... and has not handed on

NoRun == [step |-> "unused"]

Status == [collector : {"stopped", "starting", "running", "error"},
           transport : Transports \cup {"none"},
           inserted : Nat, skipped : Nat, deadLetters : Nat]

TypeOK ==
    /\ published \in [Items -> 0..MaxCopies]
    /\ queue \in Seq(Items) /\ Len(queue) <= MaxQueue
    /\ inbox \in [Runs -> Seq(Items)]
    /\ stored \subseteq Events
    /\ dead \subseteq Malformed
    /\ handed \in [Events -> Nat]
    /\ inserted \subseteq stored
    /\ status \in Status
    /\ started \in 0..MaxStarts
    /\ current \in 0..started
    /\ run \in [Runs -> Run \cup {NoRun}]
    /\ \A r \in Runs : run[r] = NoRun <=> r > started

-----------------------------------------------------------------------------
(* Contexts and the status *)

Cancelled(r) == current # r

\* NewManager
StatusAtStart == [collector |-> "stopped", transport |-> "none",
                  inserted |-> 0, skipped |-> 0, deadLetters |-> 0]

SetStatus(c, t) == status' = [status EXCEPT !.collector = c, !.transport = t]

MarkError == status' = [status EXCEPT !.collector = "error"]

GoTo(r, step) == run' = [run EXCEPT ![r].step = step]

\* The goroutine gives up its connection, and what was on it.
Disconnect(r) == inbox' = [inbox EXCEPT ![r] = <<>>]

Init ==
    /\ published = [x \in Items |-> 0]
    /\ queue = <<>>
    /\ inbox = [r \in Runs |-> <<>>]
    /\ stored = {} /\ dead = {} /\ inserted = {}
    /\ handed = [e \in Events |-> 0]
    /\ status = StatusAtStart
    /\ started = 0
    /\ current = 0
    /\ run = [r \in Runs |-> NoRun]

-----------------------------------------------------------------------------
(* Start and Stop, called by the HTTP handlers that save the configuration  *)
(* and once when the process starts.                                        *)

FirstTransport(mode) == IF mode = "auto" THEN "subscribe" ELSE mode

Start(mode) ==
    /\ started < MaxStarts
    /\ current = 0 \/ "stop" \in Env
    /\ started' = started + 1
    /\ current' = started'
    /\ run' = [run EXCEPT ![started'] =
          [step |-> "top", mode |-> mode, transport |-> FirstTransport(mode),
           subscribed |-> FALSE, batch |-> <<>>, events |-> <<>>, new |-> {}, todo |-> {}]]
    /\ SetStatus("starting", "none")
    /\ UNCHANGED <<cpaVars, dbVars, handed>>

Stop ==
    /\ "stop" \in Env
    /\ current' = 0
    /\ status' = [status EXCEPT !.collector = "stopped"]
    /\ UNCHANGED <<cpaVars, dbVars, handed, started, run>>

-----------------------------------------------------------------------------
(* run: runSubscribe, runHTTP and runRESP with their consume loops          *)

LeavesAtTheTop(r) == Cancelled(r) /\ run[r].step # "loop"

Leaves(r) == Cancelled(r)

AfterCheck(r) ==
    CASE run[r].step = "failed"    -> "mark"
      [] run[r].step = "top"       -> IF run[r].transport = "http" THEN "announce" ELSE "dial"
      [] run[r].step = "loop"      -> IF run[r].transport = "http" THEN "announce" ELSE "pop"

\* The checks of ctx.Err() at the top of the loops and after an error.
Check(r) ==
    /\ run[r].step \in {"top", "loop", "failed"}
    /\ \/ Leaves(r) /\ GoTo(r, "ended") /\ Disconnect(r)
       \/ ~Leaves(r) /\ GoTo(r, AfterCheck(r)) /\ UNCHANGED inbox
    /\ UNCHANGED <<published, queue, dbVars, handed, status, started, current>>

\* Dial, AUTH and SUBSCRIBE; none of them looks at the context.
Dial(r) ==
    /\ run[r].step = "dial"
    /\ SetStatus("running", run[r].transport)
    /\ run' = [run EXCEPT ![r].step = "loop",
                          ![r].subscribed = @ \/ run[r].transport = "subscribe"]
    /\ UNCHANGED <<cpaVars, dbVars, handed, started, current>>

MayFallBack(r) ==
    run[r].mode = "auto" /\ run[r].transport = "subscribe" /\ ~run[r].subscribed

DialFails(r) ==
    /\ "connect" \in Env
    /\ run[r].step = "dial"
    /\ \/ /\ MayFallBack(r)
          /\ run' = [run EXCEPT ![r].step = "top", ![r].transport = "http"]
          /\ SetStatus("starting", "http")
       \/ ~MayFallBack(r) /\ MarkError /\ GoTo(r, "top")
    /\ UNCHANGED <<cpaVars, dbVars, handed, started, current>>

\* consumeHTTP says so before every pop.
Announce(r) ==
    /\ run[r].step = "announce"
    /\ SetStatus("running", "http")
    /\ GoTo(r, "pop")
    /\ UNCHANGED <<cpaVars, dbVars, handed, started, current>>

MarkFailure(r) ==
    /\ run[r].step = "mark"
    /\ MarkError
    /\ GoTo(r, "top")
    /\ UNCHANGED <<cpaVars, dbVars, handed, started, current>>

-----------------------------------------------------------------------------
(* Taking items: ReadMessage, httpqueue.Pop and resp.Pop                    *)

Popping(r) == run[r].step = "pop" /\ run[r].transport \in {"http", "resp"}
OnHTTP(r) == run[r].transport = "http"

Popped == SubSeq(queue, 1, IF Len(queue) < BatchSize THEN Len(queue) ELSE BatchSize)
Unpopped == SubSeq(queue, Len(Popped) + 1, Len(queue))

Fail(r) == run' = [run EXCEPT ![r].step = "failed", ![r].batch = <<>>, ![r].events = <<>>]

\* A message, or none within the read deadline, which cancelling brings forward.
ReadMessage(r) ==
    /\ run[r].step = "pop" /\ run[r].transport = "subscribe"
    /\ \/ /\ inbox[r] # <<>>
          /\ run' = [run EXCEPT ![r].step = "process", ![r].batch = <<Head(inbox[r])>>]
          /\ inbox' = [inbox EXCEPT ![r] = Tail(@)]
       \/ inbox[r] = <<>> /\ GoTo(r, "loop") /\ UNCHANGED inbox
       \/ ("broken" \in Env \/ Cancelled(r)) /\ Fail(r) /\ Disconnect(r)
    /\ UNCHANGED <<published, queue, dbVars, handed, status, started, current>>

\* The RESP pop does not look at the context.
Pop(r) ==
    /\ Popping(r)
    /\ ~(OnHTTP(r) /\ Cancelled(r))
    /\ IF queue = <<>> THEN GoTo(r, "loop")
       ELSE run' = [run EXCEPT ![r].step = "process", ![r].batch = Popped]
    /\ queue' = Unpopped
    /\ UNCHANGED <<published, inbox, dbVars, handed, status, started, current>>

\* CPA has given the items away, but the answer is lost or cannot be read.
PopLost(r) ==
    /\ Popping(r)
    /\ \/ "broken" \in Env
       \/ OnHTTP(r) /\ Cancelled(r)
       \/ OnHTTP(r) /\ "odd" \in Env /\ \E i \in DOMAIN Popped : Popped[i] \in Malformed
    /\ queue' = Unpopped
    /\ Fail(r)
    /\ UNCHANGED <<published, inbox, dbVars, handed, status, started, current>>

PopRefused(r) ==
    /\ Popping(r)
    /\ "connect" \in Env \/ (OnHTTP(r) /\ Cancelled(r))
    /\ Fail(r)
    /\ UNCHANGED <<cpaVars, dbVars, handed, status, started, current>>

PopUnsupported(r) ==
    /\ Popping(r) /\ OnHTTP(r)
    /\ "unsupported" \in Env
    /\ \/ /\ run[r].mode = "auto"
          /\ run' = [run EXCEPT ![r].step = "top", ![r].transport = "resp"]
          /\ SetStatus("starting", "resp")
       \/ run[r].mode # "auto" /\ Fail(r) /\ UNCHANGED status
    /\ UNCHANGED <<cpaVars, dbVars, handed, started, current>>

-----------------------------------------------------------------------------
(* processItems: the payloads one by one, then one insert for the events    *)

Rejected(x) == x \in Malformed

StopAtControl(batch) == IF Head(batch) \in Controls THEN <<>> ELSE Tail(batch)

AfterPayload(batch) == Tail(batch)

\* A payload is a control, an event, or becomes a dead letter, whose insert may
\* fail unnoticed.
Sort(r) ==
    /\ run[r].step = "process" /\ run[r].batch # <<>>
    /\ LET x == Head(run[r].batch) IN
       /\ run' = [run EXCEPT ![r].batch = AfterPayload(@),
                             ![r].events = IF x \in Events THEN Append(@, x) ELSE @]
       /\ \/ Rejected(x) /\ ~Cancelled(r) /\ dead' = dead \cup {x}
          \/ (~Rejected(x) \/ Cancelled(r) \/ "db" \in Env) /\ UNCHANGED dead
       /\ status' = IF Rejected(x) THEN [status EXCEPT !.deadLetters = @ + 1] ELSE status
    /\ UNCHANGED <<cpaVars, stored, inserted, handed, started, current>>

EveryPosition(events) == DOMAIN events

\* insert or ignore: the positions of the events that become rows.
NewPositions(events) ==
    {i \in DOMAIN events :
        events[i] \notin stored /\ \A j \in 1..(i - 1) : events[j] # events[i]}

EventsAt(events, positions) == {events[i] : i \in positions}

Insert(r) ==
    /\ run[r].step = "process" /\ run[r].batch = <<>>
    /\ ~Cancelled(r)
    /\ run[r].events # <<>>
    /\ LET new == NewPositions(run[r].events) IN
       /\ run' = [run EXCEPT ![r].step = "hand", ![r].new = new, ![r].todo = new]
       /\ stored' = stored \cup EventsAt(run[r].events, new)
       /\ inserted' = inserted \cup EventsAt(run[r].events, new)
    /\ UNCHANGED <<cpaVars, dead, handed, status, started, current>>

InsertNothing(r) ==
    /\ run[r].step = "process" /\ run[r].batch = <<>>
    /\ run[r].events = <<>>
    /\ GoTo(r, "loop")
    /\ UNCHANGED <<cpaVars, dbVars, handed, status, started, current>>

\* The transaction is rolled back, and the events it was for are gone.
InsertFails(r) ==
    /\ run[r].step = "process" /\ run[r].batch = <<>>
    /\ run[r].events # <<>>
    /\ Cancelled(r) \/ "db" \in Env
    /\ Fail(r) /\ Disconnect(r)
    /\ UNCHANGED <<published, queue, dbVars, handed, status, started, current>>

\* handleUsageEvents: the inserted events in their order.
Hand(r) ==
    /\ run[r].step = "hand"
    /\ \E i \in run[r].todo :
          /\ \A j \in run[r].todo : i <= j
          /\ handed' = [handed EXCEPT ![run[r].events[i]] = @ + 1]
          /\ run' = [run EXCEPT ![r].todo = @ \ {i}]
    /\ UNCHANGED <<cpaVars, dbVars, status, started, current>>

\* The workers stop taking events once the context is cancelled.
HandStops(r) ==
    /\ run[r].step = "hand" /\ run[r].todo # {}
    /\ Cancelled(r)
    /\ run' = [run EXCEPT ![r].todo = {}]
    /\ UNCHANGED <<cpaVars, dbVars, handed, status, started, current>>

TakenBy(r) == Len(run[r].events)

InsertedBy(r) == Cardinality(run[r].new)

Count(r) ==
    /\ run[r].step = "hand" /\ run[r].todo = {}
    /\ status' = [status EXCEPT !.inserted = @ + InsertedBy(r),
                                !.skipped = @ + (Len(run[r].events) - InsertedBy(r))]
    /\ run' = [run EXCEPT ![r].step = "loop", ![r].events = <<>>, ![r].new = {}]
    /\ UNCHANGED <<cpaVars, dbVars, handed, started, current>>

-----------------------------------------------------------------------------
(* CPA, the operator and the process                                        *)

OnPubSub(r) ==
    run[r] # NoRun /\ run[r].transport = "subscribe"
        /\ run[r].step \in {"loop", "pop", "process", "hand"}

\* Every subscriber gets the message; without one it goes to the queue, and it
\* may go there with one, too.
Publish(x) ==
    LET readers == {r \in 1..started : OnPubSub(r)} IN
    /\ published[x] < MaxCopies
    /\ published' = [published EXCEPT ![x] = @ + 1]
    /\ \A r \in readers : Len(inbox[r]) < MaxQueue
    /\ inbox' = [r \in Runs |-> IF r \in readers THEN Append(inbox[r], x) ELSE inbox[r]]
    /\ \/ Len(queue) < MaxQueue /\ queue' = Append(queue, x)
       \/ readers # {} /\ UNCHANGED queue
    /\ UNCHANGED <<dbVars, handed, status, started, current, run>>

\* usage.Service imports a file into the same table; nothing is handed on.
Import(e) ==
    /\ "import" \in Env
    /\ e \notin stored
    /\ stored' = stored \cup {e}
    /\ UNCHANGED <<cpaVars, dead, inserted, handed, status, started, current, run>>

Restart ==
    /\ "crash" \in Env
    /\ current' = 0
    /\ status' = StatusAtStart
    /\ inserted' = {}
    /\ inbox' = [r \in Runs |-> <<>>]
    /\ run' = [r \in Runs |-> IF r > started THEN NoRun ELSE
                [run[r] EXCEPT !.step = "ended", !.batch = <<>>, !.events = <<>>,
                               !.new = {}, !.todo = {}]]
    /\ UNCHANGED <<published, queue, stored, dead, handed, started>>

-----------------------------------------------------------------------------

Take(r) == ReadMessage(r) \/ Pop(r) \/ PopLost(r) \/ PopRefused(r) \/ PopUnsupported(r)

ProcessItems(r) ==
    Sort(r) \/ Insert(r) \/ InsertNothing(r) \/ InsertFails(r)
        \/ Hand(r) \/ HandStops(r) \/ Count(r)

Step(r) ==
    \/ Check(r) \/ Dial(r) \/ DialFails(r) \/ Announce(r) \/ MarkFailure(r)
    \/ Take(r)
    \/ ProcessItems(r)

Next ==
    \/ \E mode \in Modes : Start(mode)
    \/ Stop
    \/ \E r \in 1..started : Step(r)
    \/ \E x \in Items : Publish(x)
    \/ \E e \in Events : Import(e)
    \/ Restart

Spec == Init /\ [][Next]_vars

\* The goroutines run, and a connection or pop that is tried again and again
\* succeeds in the end.
Fairness ==
    \A r \in Runs :
        /\ WF_vars(r <= started /\ Step(r))
        /\ SF_vars(r <= started /\ Dial(r))
        /\ SF_vars(r <= started /\ Pop(r))

FairSpec == Spec /\ Fairness
-----------------------------------------------------------------------------
(* Safety *)

\* The workers hear of an event at most once, and only of events that are
\* stored, although CPA may deliver it again, goroutines overlap, and the
\* process restarts (InsertBatch, insertedEvents).
HandedOnce == \A e \in Events : handed[e] = 0 \/ (handed[e] = 1 /\ e \in stored)

\* Events inserted and not yet counted.
Uncounted == UNION {EventsAt(run[r].events, run[r].new) : r \in 1..started}

\* TotalInserted is the number of rows the collector has added since the process
\* started, whichever goroutines added them, bar those about to be counted
\* (processItems).
InsertedIsCounted == status.inserted + Cardinality(Uncounted) = Cardinality(inserted)
-----------------------------------------------------------------------------
(* Liveness *)

\* A goroutine whose context is cancelled ends: it does not compete for CPA's
\* items for ever (the checks of ctx.Err()).
CancelledRunsEnd ==
    \A r \in Runs : r <= started /\ Cancelled(r) ~> run[r].step = "ended"

\* What the current goroutine could take next.
Available(x) ==
    /\ current # 0
    /\ \/ x \in ToSet(inbox[current])
       \/ x \in ToSet(queue) /\ run[current].transport \in {"http", "resp"}

\* As long as the collector is left running and connections do not break, what
\* CPA has for it becomes a row or a dead letter, whatever else is in the batch
\* and whichever transport it falls back to.
ItemsArrive ==
    \A x \in Events \cup Malformed : Available(x) ~> x \in stored \cup dead
=============================================================================
