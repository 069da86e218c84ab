----------------------- MODULE UsageCollector_proofs -----------------------
(***************************************************************************)
(* Theorems about UsageCollector, for every value of its constants.        *)
(***************************************************************************)
EXTENDS UsageCollector, SequenceTheorems, FiniteSetTheorems, TLAPS

Live == 1..started

RunTypes ==
    /\ started \in 0..MaxStarts
    /\ stored \subseteq Events
    /\ handed \in [Events -> Nat]
    /\ run \in [Runs -> Run \cup {NoRun}]
    /\ \A r \in Runs : run[r] = NoRun <=> r > started

OtherTypes ==
    /\ published \in [Items -> 0..MaxCopies]
    /\ queue \in Seq(Items) /\ Len(queue) <= MaxQueue
    /\ inbox \in [Runs -> Seq(Items)]
    /\ dead \subseteq Malformed
    /\ inserted \subseteq stored
    /\ status \in Status
    /\ current \in 0..started

\* What a goroutine still has to hand on: rows it has inserted itself, of which
\* the workers have not heard.
HandsOnFresh ==
    \A r \in Live :
        /\ run[r].step # "hand" => run[r].todo = {}
        /\ run[r].step = "hand" => run[r].new \subseteq DOMAIN run[r].events
        /\ \A i \in run[r].todo :
              /\ i \in DOMAIN run[r].events
              /\ run[r].events[i] \in stored
              /\ handed[run[r].events[i]] = 0

\* No event waits to be handed on twice, by whichever goroutines.
HandsOnOnce ==
    \A r, s \in Live : \A i \in run[r].todo, j \in run[s].todo :
        run[r].events[i] = run[s].events[j] => r = s /\ i = j

Handing == HandedOnce /\ HandsOnFresh /\ HandsOnOnce

IInv == RunTypes /\ OtherTypes /\ Handing

LEMMA TypesTogether == TypeOK <=> RunTypes /\ OtherTypes
  BY DEF TypeOK, RunTypes, OtherTypes

\* A started goroutine has all its fields.
LEMMA LiveRun == ASSUME RunTypes, NEW r \in Live PROVE r \in Runs /\ run[r] \in Run
  BY CollectorConstantsOK DEF RunTypes, Live, Runs

\* A step after which the goroutine has nothing to hand on, and which touches
\* neither the table nor the workers, keeps the invariant.
LEMMA QuietStep ==
    ASSUME RunTypes, Handing, NEW r \in Live, NEW y \in Run, y.todo = {},
           y.step = "hand" => y.new \subseteq DOMAIN y.events,
           run' = [run EXCEPT ![r] = y], UNCHANGED <<stored, handed, started>>
    PROVE  RunTypes' /\ Handing'
<1>1. r \in Runs /\ run[r] \in Run  BY LiveRun
<1>2. RunTypes'
  <2>1. y # NoRun  BY DEF Run, NoRun
  <2> QED BY <1>1, <2>1 DEF RunTypes, Live, Run, NoRun
<1>3. /\ Live' = Live
      /\ \A s \in Live : run'[s] = IF s = r THEN y ELSE run[s]
  BY <1>1, LiveRun DEF RunTypes, Live, Runs
<1>4. HandedOnce'  BY DEF Handing, HandedOnce
<1>5. HandsOnFresh'  BY <1>3 DEF Handing, HandsOnFresh
<1>6. HandsOnOnce'  BY <1>3 DEF Handing, HandsOnOnce
<1> QED BY <1>2, <1>4, <1>5, <1>6 DEF Handing

\* A goroutine that is not handing on moves to another step.
LEMMA MoveStep ==
    ASSUME RunTypes, Handing, NEW r \in Live, run[r].step # "hand",
           NEW step \in {"top", "dial", "loop", "announce", "pop", "process",
                         "failed", "mark", "ended"},
           GoTo(r, step), UNCHANGED <<stored, handed, started>>
    PROVE  RunTypes' /\ Handing'
<1> DEFINE y == [run[r] EXCEPT !.step = step]
<1>1. run[r] \in Run /\ run[r].todo = {}  BY LiveRun DEF Handing, HandsOnFresh
<1>2. y \in Run /\ y.todo = {} /\ y.step # "hand"  BY <1>1 DEF Run
<1>3. run' = [run EXCEPT ![r] = y]  BY DEF GoTo
<1> HIDE DEF y
<1> QED BY <1>2, <1>3, QuietStep

LEMMA InboxType ==
    ASSUME OtherTypes, NEW r \in Runs, Disconnect(r) \/ UNCHANGED inbox
    PROVE  inbox' \in [Runs -> Seq(Items)]
<1>1. <<>> \in Seq(Items)  BY EmptySeq
<1> QED BY <1>1 DEF OtherTypes, Disconnect

LEMMA FailStep ==
    ASSUME RunTypes, Handing, NEW r \in Live, run[r].step # "hand",
           Fail(r), UNCHANGED <<stored, handed, started>>
    PROVE  RunTypes' /\ Handing'
<1> DEFINE y == [run[r] EXCEPT !.step = "failed", !.batch = <<>>, !.events = <<>>]
<1>1. run[r] \in Run /\ run[r].todo = {}  BY LiveRun DEF Handing, HandsOnFresh
<1>2. y \in Run /\ y.todo = {} /\ y.step # "hand"
  <2>1. <<>> \in Seq(Items) /\ <<>> \in Seq(Events)  BY EmptySeq
  <2> QED BY <1>1, <2>1 DEF Run
<1>3. run' = [run EXCEPT ![r] = y]  BY DEF Fail
<1> HIDE DEF y
<1> QED BY <1>2, <1>3, QuietStep

-----------------------------------------------------------------------------
(* The steps of a goroutine *)

LEMMA CheckStep ==
    ASSUME IInv, NEW r \in Live, Check(r) PROVE RunTypes' /\ Handing' /\ OtherTypes'
<1> USE DEF IInv
<1>1. run[r].step # "hand" /\ UNCHANGED <<stored, handed, started>>
  BY DEF Check, dbVars
<1>2. \E step \in {"dial", "announce", "pop", "mark", "ended"} : GoTo(r, step)
  BY DEF Check, AfterCheck
<1>3. OtherTypes'
  BY LiveRun, InboxType DEF Check, OtherTypes, dbVars
<1> QED BY <1>1, <1>2, <1>3, MoveStep

LEMMA ConnectStep ==
    ASSUME IInv, NEW r \in Live,
           Dial(r) \/ DialFails(r) \/ Announce(r) \/ MarkFailure(r)
    PROVE  RunTypes' /\ Handing' /\ OtherTypes'
<1> USE DEF IInv
<1>1. run[r] \in Run /\ r \in Runs  BY LiveRun
<1>2. run[r].step # "hand" /\ UNCHANGED <<cpaVars, dbVars, handed, started, current>>
  BY DEF Dial, DialFails, Announce, MarkFailure
<1>3. run[r].todo = {}  BY <1>2 DEF Handing, HandsOnFresh
<1>4. status' \in Status
  BY <1>1 DEF Dial, DialFails, Announce, MarkFailure, SetStatus, MarkError, OtherTypes,
              Status, Run, Transports
<1>5. OtherTypes'  BY <1>2, <1>4 DEF OtherTypes, cpaVars, dbVars
<1>6. CASE Dial(r)
  <2> DEFINE y == [run[r] EXCEPT !.step = "loop",
                      !.subscribed = @ \/ run[r].transport = "subscribe"]
  <2>1. y \in Run /\ y.todo = {} /\ y.step # "hand"  BY <1>1, <1>3 DEF Run
  <2>2. run' = [run EXCEPT ![r] = y]  BY <1>6 DEF Dial
  <2> HIDE DEF y
  <2> QED BY <1>2, <1>5, <2>1, <2>2, QuietStep DEF dbVars
<1>7. CASE DialFails(r)
  <2>1. CASE MayFallBack(r)
    <3> DEFINE y == [run[r] EXCEPT !.step = "top", !.transport = "http"]
    <3>1. y \in Run /\ y.todo = {} /\ y.step # "hand"  BY <1>1, <1>3 DEF Run, Transports
    <3>2. run' = [run EXCEPT ![r] = y]  BY <1>7, <2>1 DEF DialFails
    <3> HIDE DEF y
    <3> QED BY <1>2, <1>5, <3>1, <3>2, QuietStep DEF dbVars
  <2>2. CASE ~MayFallBack(r)
    <3>1. GoTo(r, "top")  BY <1>7, <2>2 DEF DialFails
    <3> QED BY <1>2, <1>5, <3>1, MoveStep DEF dbVars
  <2> QED BY <2>1, <2>2
<1>8. CASE Announce(r) \/ MarkFailure(r)
  <2>1. GoTo(r, "pop") \/ GoTo(r, "top")  BY <1>8 DEF Announce, MarkFailure
  <2> QED BY <1>2, <1>5, <2>1, MoveStep DEF dbVars
<1> QED BY <1>6, <1>7, <1>8

LEMMA PoppedTypes ==
    ASSUME OtherTypes
    PROVE  /\ Popped \in Seq(Items)
           /\ Unpopped \in Seq(Items) /\ Len(Unpopped) <= MaxQueue
<1>1. queue \in Seq(Items) /\ Len(queue) \in Nat /\ Len(queue) <= MaxQueue
  BY LenProperties DEF OtherTypes
<1> DEFINE n == IF Len(queue) < BatchSize THEN Len(queue) ELSE BatchSize
<1>2. n \in 0..Len(queue)  BY <1>1, CollectorConstantsOK
<1>3. Popped = SubSeq(queue, 1, n)  BY DEF Popped
<1> HIDE DEF n
<1>4. \A i \in 1..Len(queue) : queue[i] \in Items  BY <1>1, ElementOfSeq
<1>5. Popped \in Seq(Items) /\ Len(Popped) = n
  BY <1>1, <1>2, <1>3, <1>4, SubSeqProperties
<1>6. Unpopped \in Seq(Items) /\ Len(Unpopped) = Len(queue) - n
  BY <1>1, <1>2, <1>4, <1>5, SubSeqProperties DEF Unpopped
<1> QED BY <1>1, <1>2, <1>5, <1>6, CollectorConstantsOK

LEMMA TakeStep ==
    ASSUME IInv, NEW r \in Live, Take(r) PROVE RunTypes' /\ Handing' /\ OtherTypes'
<1> USE DEF IInv
<1>1. run[r] \in Run /\ r \in Runs  BY LiveRun
<1>2. run[r].step # "hand" /\ UNCHANGED <<published, dbVars, handed, started, current>>
  BY DEF Take, ReadMessage, Pop, PopLost, PopRefused, PopUnsupported, Popping, cpaVars
<1>3. run[r].todo = {} /\ UNCHANGED <<stored, handed, started>>
  BY <1>2 DEF Handing, HandsOnFresh, dbVars
<1>4. OtherTypes'
  <2>1. status' \in Status
    BY DEF Take, ReadMessage, Pop, PopLost, PopRefused, PopUnsupported, SetStatus,
           OtherTypes, Status, Transports
  <2>2. queue' \in Seq(Items) /\ Len(queue') <= MaxQueue
    BY PoppedTypes DEF Take, ReadMessage, Pop, PopLost, PopRefused, PopUnsupported,
                       OtherTypes, cpaVars
  <2>3. inbox' \in [Runs -> Seq(Items)]
    <3>1. CASE inbox[r] # <<>> /\ inbox' = [inbox EXCEPT ![r] = Tail(@)]
      <4>1. Tail(inbox[r]) \in Seq(Items)
        BY <1>1, <3>1, HeadTailProperties DEF OtherTypes
      <4> QED BY <1>1, <3>1, <4>1 DEF OtherTypes
    <3> QED BY <1>1, <3>1, InboxType
            DEF Take, ReadMessage, Pop, PopLost, PopRefused, PopUnsupported, cpaVars
  <2> QED BY <1>2, <2>1, <2>2, <2>3 DEF OtherTypes, dbVars
<1>5. CASE Fail(r)  BY <1>2, <1>3, <1>4, <1>5, FailStep
<1>6. CASE GoTo(r, "loop")  BY <1>2, <1>3, <1>4, <1>6, MoveStep
<1>7. ASSUME NEW b \in Seq(Items),
             run' = [run EXCEPT ![r].step = "process", ![r].batch = b]
      PROVE  RunTypes' /\ Handing' /\ OtherTypes'
  <2> DEFINE y == [run[r] EXCEPT !.step = "process", !.batch = b]
  <2>1. y \in Run /\ y.todo = {} /\ y.step # "hand"  BY <1>1, <1>3 DEF Run
  <2>2. run' = [run EXCEPT ![r] = y]  BY <1>7
  <2> HIDE DEF y
  <2> QED BY <1>3, <1>4, <2>1, <2>2, QuietStep
<1>8. CASE run' = [run EXCEPT ![r].step = "top", ![r].transport = "resp"]
  <2> DEFINE y == [run[r] EXCEPT !.step = "top", !.transport = "resp"]
  <2>1. y \in Run /\ y.todo = {} /\ y.step # "hand"  BY <1>1, <1>3 DEF Run, Transports
  <2>2. run' = [run EXCEPT ![r] = y]  BY <1>8
  <2> HIDE DEF y
  <2> QED BY <1>3, <1>4, <2>1, <2>2, QuietStep
<1>9. CASE ReadMessage(r)
  <2>1. ASSUME inbox[r] # <<>> PROVE <<Head(inbox[r])>> \in Seq(Items)
    BY <1>1, <2>1, HeadTailProperties DEF OtherTypes
  <2> QED BY <1>5, <1>6, <1>7, <1>9, <2>1 DEF ReadMessage
<1>10. CASE Pop(r)  BY <1>6, <1>7, <1>10, PoppedTypes DEF Pop
<1> QED BY <1>5, <1>8, <1>9, <1>10 DEF Take, PopLost, PopRefused, PopUnsupported

\* The counters stay natural numbers when something is added to them.
LEMMA StatusCounts ==
    ASSUME NEW st \in Status, NEW m \in Nat, NEW n \in Nat
    PROVE  /\ [st EXCEPT !.deadLetters = @ + 1] \in Status
           /\ [st EXCEPT !.inserted = @ + m, !.skipped = @ + n] \in Status
<1>1. st.deadLetters + 1 \in Nat /\ st.inserted + m \in Nat /\ st.skipped + n \in Nat
  BY DEF Status
<1> QED BY <1>1 DEF Status

LEMMA SortStep ==
    ASSUME IInv, NEW r \in Live, Sort(r) PROVE RunTypes' /\ Handing' /\ OtherTypes'
<1> USE DEF IInv
<1> DEFINE x == Head(run[r].batch)
           y == [run[r] EXCEPT !.batch = AfterPayload(@),
                               !.events = IF x \in Events THEN Append(@, x) ELSE @]
<1>1. run[r] \in Run /\ run[r].todo = {} /\ run[r].step = "process"
  BY LiveRun DEF Sort, Handing, HandsOnFresh
<1>2. run[r].batch \in Seq(Items) /\ run[r].batch # <<>> /\ run[r].events \in Seq(Events)
  BY <1>1 DEF Run, Sort
<1>3. Tail(run[r].batch) \in Seq(Items)  BY <1>2, HeadTailProperties
<1>4. x \in Events => Append(run[r].events, x) \in Seq(Events)
  BY <1>2, AppendProperties
<1>5. y \in Run /\ y.todo = {} /\ y.step # "hand"
  BY <1>1, <1>3, <1>4 DEF Run, AfterPayload
<1>6. run' = [run EXCEPT ![r] = y]  BY DEF Sort
<1>7. dead' \subseteq Malformed /\ status' \in Status
  <2>1. dead' \subseteq Malformed  BY DEF Sort, Rejected, OtherTypes
  <2>2. [status EXCEPT !.deadLetters = @ + 1] \in Status  BY StatusCounts DEF OtherTypes
  <2>3. status' \in {status, [status EXCEPT !.deadLetters = @ + 1]}  BY DEF Sort
  <2> QED BY <2>1, <2>2, <2>3 DEF OtherTypes
<1>8. OtherTypes'  BY <1>7 DEF Sort, OtherTypes, cpaVars
<1>9. UNCHANGED <<stored, handed, started>>  BY DEF Sort
<1> HIDE DEF y
<1> QED BY <1>5, <1>6, <1>8, <1>9, QuietStep

LEMMA InsertFailedStep ==
    ASSUME IInv, NEW r \in Live, InsertNothing(r) \/ InsertFails(r)
    PROVE  RunTypes' /\ Handing' /\ OtherTypes'
<1> USE DEF IInv
<1>1. run[r].step # "hand" /\ UNCHANGED <<stored, handed, started>>
  BY DEF InsertNothing, InsertFails, dbVars
<1>2. OtherTypes'
  BY LiveRun, InboxType DEF InsertNothing, InsertFails, OtherTypes, cpaVars, dbVars
<1> QED BY <1>1, <1>2, MoveStep, FailStep DEF InsertNothing, InsertFails

\* The positions InsertBatch reports have had no row, and no event has two.
LEMMA NewRows ==
    ASSUME NEW events \in Seq(Events)
    PROVE  /\ NewPositions(events) \subseteq DOMAIN events
           /\ NewPositions(events) \subseteq Nat \ {0}
           /\ EventsAt(events, NewPositions(events)) \subseteq Events
           /\ \A i \in NewPositions(events) : events[i] \notin stored
           /\ \A i, j \in NewPositions(events) : events[i] = events[j] => i = j
<1>1. DOMAIN events = 1..Len(events) /\ Len(events) \in Nat
        /\ \A i \in 1..Len(events) : events[i] \in Events
  BY LenProperties, ElementOfSeq
<1>2. \A i, j \in NewPositions(events) : i < j => events[i] # events[j]
  BY <1>1 DEF NewPositions
<1> QED BY <1>1, <1>2 DEF NewPositions, EventsAt

LEMMA InsertStep ==
    ASSUME IInv, NEW r \in Live, Insert(r) PROVE RunTypes' /\ Handing' /\ OtherTypes'
<1> USE DEF IInv
<1> DEFINE events == run[r].events
           new == NewPositions(events)
           y == [run[r] EXCEPT !.step = "hand", !.new = new, !.todo = new]
<1>1. run[r] \in Run /\ r \in Runs  BY LiveRun
<1>2. events \in Seq(Events)  BY <1>1 DEF Run
<1>3. /\ new \subseteq DOMAIN events /\ new \subseteq Nat \ {0}
      /\ EventsAt(events, new) \subseteq Events
      /\ \A i \in new : events[i] \notin stored
      /\ \A i, j \in new : events[i] = events[j] => i = j
  BY <1>2, NewRows
<1>4. /\ run' = [run EXCEPT ![r] = y]
      /\ stored' = stored \cup EventsAt(events, new)
      /\ inserted' = inserted \cup EventsAt(events, new)
      /\ UNCHANGED <<cpaVars, dead, handed, status, started, current>>
  BY DEF Insert
<1>5. /\ y \in Run /\ y # NoRun /\ y.step = "hand"
      /\ y.new = new /\ y.todo = new /\ y.events = events
  BY <1>1, <1>3 DEF Run, NoRun
<1> HIDE DEF y, new, events
<1>6. OtherTypes'  BY <1>4 DEF OtherTypes, cpaVars
<1>7. RunTypes'
  BY <1>1, <1>3, <1>4, <1>5 DEF RunTypes, Live
<1>8. /\ Live' = Live
      /\ \A s \in Live : run'[s] = IF s = r THEN y ELSE run[s]
  BY <1>1, <1>4, LiveRun DEF RunTypes, Live, Runs
<1>9. \A i \in new : events[i] \in Events /\ handed[events[i]] = 0 /\ events[i] \in stored'
  BY <1>3, <1>4 DEF Handing, HandedOnce, EventsAt
<1>10. HandedOnce'  BY <1>4 DEF Handing, HandedOnce
<1>11. HandsOnFresh'
  BY <1>3, <1>4, <1>5, <1>8, <1>9 DEF Handing, HandsOnFresh
<1>12. HandsOnOnce'
  <2> SUFFICES ASSUME NEW s \in Live, NEW t \in Live, NEW i \in run'[s].todo,
                      NEW j \in run'[t].todo, run'[s].events[i] = run'[t].events[j]
               PROVE  s = t /\ i = j
    BY <1>8 DEF HandsOnOnce
  <2>1. CASE s = r /\ t = r  BY <1>3, <1>5, <1>8, <2>1
  <2>2. CASE s # r /\ t # r  BY <1>8, <2>2 DEF Handing, HandsOnOnce
  <2>3. CASE s = r /\ t # r
    BY <1>3, <1>5, <1>8, <2>3 DEF Handing, HandsOnFresh
  <2>4. CASE s # r /\ t = r
    BY <1>3, <1>5, <1>8, <2>4 DEF Handing, HandsOnFresh
  <2> QED BY <2>1, <2>2, <2>3, <2>4
<1> QED BY <1>6, <1>7, <1>10, <1>11, <1>12 DEF Handing

LEMMA HandStep ==
    ASSUME IInv, NEW r \in Live, Hand(r) PROVE RunTypes' /\ Handing' /\ OtherTypes'
<1> USE DEF IInv
<1>1. run[r] \in Run /\ r \in Runs /\ run[r].step = "hand"  BY LiveRun DEF Hand
<1>2. PICK i \in run[r].todo :
         /\ handed' = [handed EXCEPT ![run[r].events[i]] = @ + 1]
         /\ run' = [run EXCEPT ![r].todo = @ \ {i}]
         /\ UNCHANGED <<cpaVars, dbVars, status, started, current>>
  BY DEF Hand
<1> DEFINE e == run[r].events[i]
           y == [run[r] EXCEPT !.todo = @ \ {i}]
<1>3. e \in stored /\ handed[e] = 0 /\ e \in Events
  BY <1>2 DEF Handing, HandsOnFresh, RunTypes
<1>4. /\ run' = [run EXCEPT ![r] = y]
      /\ y \in Run /\ y # NoRun /\ y.step = "hand" /\ y.events = run[r].events
      /\ y.new = run[r].new /\ y.todo = run[r].todo \ {i}
  BY <1>1, <1>2 DEF Run, NoRun
<1>5. \A d \in Events : handed'[d] = IF d = e THEN 1 ELSE handed[d]
  BY <1>2, <1>3 DEF RunTypes
<1> HIDE DEF y
<1>6. OtherTypes'  BY <1>2 DEF OtherTypes, cpaVars, dbVars
<1>7. RunTypes'
  <2>1. handed' \in [Events -> Nat]  BY <1>2, <1>3 DEF RunTypes
  <2>2. UNCHANGED <<started, stored>>  BY <1>2 DEF dbVars
  <2>3. run' \in [Runs -> Run \cup {NoRun}]  BY <1>4 DEF RunTypes
  <2>4. \A s \in Runs : run'[s] = NoRun <=> s > started
    BY <1>1, <1>4 DEF RunTypes, Live
  <2> QED BY <2>1, <2>2, <2>3, <2>4 DEF RunTypes
<1>8. /\ Live' = Live /\ UNCHANGED stored
      /\ \A s \in Live : run'[s] = IF s = r THEN y ELSE run[s]
  BY <1>1, <1>2, <1>4, LiveRun DEF RunTypes, Live, Runs, dbVars
<1>9. HandedOnce'  BY <1>3, <1>5, <1>8 DEF Handing, HandedOnce
<1>10. \A s \in Live : \A j \in run'[s].todo :
          /\ j \in run[s].todo /\ run'[s].events = run[s].events
          /\ run[s].events[j] # e
  <2> SUFFICES ASSUME NEW s \in Live, NEW j \in run'[s].todo
               PROVE  /\ j \in run[s].todo /\ run'[s].events = run[s].events
                      /\ run[s].events[j] # e
    OBVIOUS
  <2>1. j \in run[s].todo /\ run'[s].events = run[s].events /\ ~(s = r /\ j = i)
    BY <1>4, <1>8
  <2> QED BY <1>2, <2>1 DEF Handing, HandsOnOnce
<1>11. HandsOnFresh'
  <2> SUFFICES ASSUME NEW s \in Live
               PROVE  /\ run'[s].step # "hand" => run'[s].todo = {}
                      /\ run'[s].step = "hand" => run'[s].new \subseteq DOMAIN run'[s].events
                      /\ \A j \in run'[s].todo :
                            /\ j \in DOMAIN run'[s].events
                            /\ run'[s].events[j] \in stored'
                            /\ handed'[run'[s].events[j]] = 0
    BY <1>8 DEF HandsOnFresh
  <2>1. /\ run'[s].step # "hand" => run'[s].todo = {}
        /\ run'[s].step = "hand" => run'[s].new \subseteq DOMAIN run'[s].events
    BY <1>1, <1>4, <1>8 DEF Handing, HandsOnFresh
  <2>2. \A j \in run[s].todo : /\ j \in DOMAIN run[s].events
                               /\ run[s].events[j] \in stored
                               /\ run[s].events[j] \in Events
                               /\ handed[run[s].events[j]] = 0
    BY DEF Handing, HandsOnFresh, RunTypes
  <2> QED BY <1>5, <1>8, <1>10, <2>1, <2>2
<1>12. HandsOnOnce'  BY <1>8, <1>10 DEF Handing, HandsOnOnce
<1> QED BY <1>6, <1>7, <1>9, <1>11, <1>12 DEF Handing

\* A goroutine never counts more insertions than it took events.
LEMMA CountTypes ==
    ASSUME IInv, NEW r \in Live, run[r].step = "hand"
    PROVE  InsertedBy(r) \in Nat /\ Len(run[r].events) - InsertedBy(r) \in Nat
<1> USE DEF IInv
<1>1. run[r].events \in Seq(Events) /\ run[r].new \subseteq DOMAIN run[r].events
  BY LiveRun DEF Run, Handing, HandsOnFresh
<1>2. DOMAIN run[r].events = 1..Len(run[r].events) /\ Len(run[r].events) \in Nat
  BY <1>1, LenProperties
<1>3. /\ IsFiniteSet(1..Len(run[r].events))
      /\ Cardinality(1..Len(run[r].events)) = Len(run[r].events)
  BY <1>2, FS_Interval
<1>4. /\ IsFiniteSet(run[r].new)
      /\ Cardinality(run[r].new) <= Cardinality(1..Len(run[r].events))
  BY <1>1, <1>2, <1>3, FS_Subset
<1>5. Cardinality(run[r].new) \in Nat  BY <1>4, FS_CardinalityType
<1> QED BY <1>2, <1>3, <1>4, <1>5 DEF InsertedBy

LEMMA DoneHandingStep ==
    ASSUME IInv, NEW r \in Live, HandStops(r) \/ Count(r)
    PROVE  RunTypes' /\ Handing' /\ OtherTypes'
<1> USE DEF IInv
<1>1. run[r] \in Run /\ run[r].step = "hand"  BY LiveRun DEF HandStops, Count
<1>2. run[r].new \subseteq DOMAIN run[r].events  BY <1>1 DEF Handing, HandsOnFresh
<1>3. CASE HandStops(r)
  <2> DEFINE y == [run[r] EXCEPT !.todo = {}]
  <2>1. y \in Run /\ y.todo = {} /\ y.new \subseteq DOMAIN y.events
    BY <1>1, <1>2 DEF Run
  <2>2. run' = [run EXCEPT ![r] = y] /\ UNCHANGED <<stored, handed, started>>
    BY <1>3 DEF HandStops, dbVars
  <2>3. OtherTypes'  BY <1>3 DEF HandStops, OtherTypes, cpaVars, dbVars
  <2> HIDE DEF y
  <2> QED BY <2>1, <2>2, <2>3, QuietStep
<1>4. CASE Count(r)
  <2> DEFINE y == [run[r] EXCEPT !.step = "loop", !.events = <<>>, !.new = {}]
  <2>1. <<>> \in Seq(Events)  BY EmptySeq
  <2>2. y \in Run /\ y.todo = {} /\ y.step # "hand"
    BY <1>1, <1>4, <2>1 DEF Run, Count
  <2>3. run' = [run EXCEPT ![r] = y] /\ UNCHANGED <<stored, handed, started>>
    BY <1>4 DEF Count, dbVars
  <2>4. status' \in Status
    BY <1>1, <1>4, CountTypes, StatusCounts DEF Count, OtherTypes
  <2>5. OtherTypes'  BY <1>4, <2>4 DEF Count, OtherTypes, cpaVars, dbVars
  <2> HIDE DEF y
  <2> QED BY <2>2, <2>3, <2>5, QuietStep
<1> QED BY <1>3, <1>4

-----------------------------------------------------------------------------
(* The steps of CPA, the operator and the process *)

LEMMA StartStep ==
    ASSUME IInv, NEW mode \in Modes, Start(mode)
    PROVE  RunTypes' /\ Handing' /\ OtherTypes'
<1> USE DEF IInv
<1> DEFINE n == started + 1
           y == [step |-> "top", mode |-> mode, transport |-> FirstTransport(mode),
                 subscribed |-> FALSE, batch |-> <<>>, events |-> <<>>,
                 new |-> {}, todo |-> {}]
<1>1. /\ started' = n /\ current' = n /\ run' = [run EXCEPT ![n] = y]
      /\ status' = [status EXCEPT !.collector = "starting", !.transport = "none"]
      /\ UNCHANGED <<cpaVars, dbVars, handed>>
  BY DEF Start, SetStatus
<1>2. n \in Runs /\ n \in 0..MaxStarts /\ started \in Nat
  BY CollectorConstantsOK DEF Start, RunTypes, Runs
<1>3. y \in Run /\ y # NoRun /\ y.step # "hand" /\ y.todo = {}
  <2>1. <<>> \in Seq(Items) /\ <<>> \in Seq(Events)  BY EmptySeq
  <2>2. FirstTransport(mode) \in Transports
    BY CollectorConstantsOK DEF FirstTransport, Transports
  <2> QED BY <2>1, <2>2 DEF Run, NoRun
<1> HIDE DEF y
<1>4. RunTypes'
  <2>1. run' \in [Runs -> Run \cup {NoRun}]  BY <1>1, <1>3 DEF RunTypes
  <2>2. \A s \in Runs : run'[s] = NoRun <=> s > n
    BY <1>1, <1>2, <1>3, CollectorConstantsOK DEF RunTypes, Runs
  <2> QED BY <1>1, <1>2, <2>1, <2>2 DEF RunTypes, dbVars
<1>5. status' \in Status  BY <1>1 DEF OtherTypes, Status
<1>6. OtherTypes'  BY <1>1, <1>2, <1>5 DEF OtherTypes, cpaVars, dbVars
<1>7. \A s \in Live' : \/ s = n /\ run'[s] = y
                       \/ s \in Live /\ run'[s] = run[s]
  <2> TAKE s \in Live'
  <2>1. s \in 1..n /\ s \in Runs
    BY <1>1, <1>2, CollectorConstantsOK DEF Live, Runs
  <2>2. CASE s = n
    <3>1. run'[n] = y  BY <1>1, <1>2 DEF RunTypes
    <3> QED BY <2>2, <3>1
  <2>3. CASE s # n
    <3>1. s \in Live  BY <1>2, <2>1, <2>3 DEF Live
    <3>2. run'[s] = run[s]  BY <1>1, <2>1, <2>3 DEF RunTypes
    <3> QED BY <3>1, <3>2
  <2> QED BY <2>2, <2>3
<1>8. Handing'
  <2>1. HandedOnce'  BY <1>1 DEF Handing, HandedOnce, dbVars
  <2>2. HandsOnFresh'  BY <1>1, <1>3, <1>7 DEF Handing, HandsOnFresh, dbVars
  <2>3. HandsOnOnce'  BY <1>3, <1>7 DEF Handing, HandsOnOnce
  <2> QED BY <2>1, <2>2, <2>3 DEF Handing
<1> QED BY <1>4, <1>6, <1>8

\* Steps that leave the goroutines, the workers and the table alone.
LEMMA RunsKept ==
    ASSUME RunTypes, Handing, UNCHANGED <<stored, handed, started, run>>
    PROVE  RunTypes' /\ Handing'
  BY DEF RunTypes, Handing, HandedOnce, HandsOnFresh, HandsOnOnce, Live

LEMMA StopStep == ASSUME IInv, Stop PROVE RunTypes' /\ Handing' /\ OtherTypes'
<1> USE DEF IInv
<1>1. [status EXCEPT !.collector = "stopped"] \in Status  BY DEF OtherTypes, Status
<1>2. OtherTypes'  BY <1>1 DEF Stop, OtherTypes, RunTypes, cpaVars, dbVars
<1> QED BY <1>2, RunsKept DEF Stop, dbVars

LEMMA PublishStep ==
    ASSUME IInv, NEW x \in Items, Publish(x)
    PROVE  RunTypes' /\ Handing' /\ OtherTypes'
<1> USE DEF IInv
<1> DEFINE readers == {r \in 1..started : OnPubSub(r)}
<1>1. published' \in [Items -> 0..MaxCopies]
  BY CollectorConstantsOK DEF Publish, OtherTypes
<1>2. queue' \in Seq(Items) /\ Len(queue') <= MaxQueue
  <2>1. queue \in Seq(Items) /\ Len(queue) \in Nat /\ Len(queue) <= MaxQueue
    BY LenProperties DEF OtherTypes
  <2>2. Append(queue, x) \in Seq(Items) /\ Len(Append(queue, x)) = Len(queue) + 1
    BY <2>1, AppendProperties
  <2>3. queue' = queue \/ (Len(queue) < MaxQueue /\ queue' = Append(queue, x))
    BY DEF Publish
  <2> QED BY <2>1, <2>2, <2>3, CollectorConstantsOK
<1>3. inbox' \in [Runs -> Seq(Items)]
  <2>1. \A r \in Runs : inbox[r] \in Seq(Items) /\ Append(inbox[r], x) \in Seq(Items)
    BY AppendProperties DEF OtherTypes
  <2>2. inbox' = [r \in Runs |-> IF r \in readers THEN Append(inbox[r], x) ELSE inbox[r]]
    BY DEF Publish
  <2> HIDE DEF readers
  <2> QED BY <2>1, <2>2
<1>4. OtherTypes'  BY <1>1, <1>2, <1>3 DEF Publish, OtherTypes, dbVars
<1> QED BY <1>4, RunsKept DEF Publish, dbVars

LEMMA ImportStep ==
    ASSUME IInv, NEW e \in Events, Import(e)
    PROVE  RunTypes' /\ Handing' /\ OtherTypes'
<1> USE DEF IInv
<1>1. stored' = stored \cup {e} /\ UNCHANGED <<inserted, handed, started, run>>
  BY DEF Import
<1>2. RunTypes'  BY <1>1 DEF RunTypes
<1>3. OtherTypes'  BY <1>1 DEF Import, OtherTypes, cpaVars
<1>4. Handing'
  BY <1>1 DEF Handing, HandedOnce, HandsOnFresh, HandsOnOnce, Live
<1> QED BY <1>2, <1>3, <1>4

LEMMA RestartStep == ASSUME IInv, Restart PROVE RunTypes' /\ Handing' /\ OtherTypes'
<1> USE DEF IInv
<1> DEFINE Ended(r) == [run[r] EXCEPT !.step = "ended", !.batch = <<>>, !.events = <<>>,
                                      !.new = {}, !.todo = {}]
<1>0. <<>> \in Seq(Items) /\ <<>> \in Seq(Events)  BY EmptySeq
<1>1. \A r \in Live : /\ Ended(r) \in Run /\ Ended(r) # NoRun
                      /\ Ended(r).step # "hand" /\ Ended(r).todo = {}
  BY <1>0, LiveRun DEF Run, NoRun
<1>2. run' = [r \in Runs |-> IF r > started THEN NoRun ELSE Ended(r)]
  BY DEF Restart
<1>3. UNCHANGED <<stored, handed, started>>  BY DEF Restart
<1>4. Live \subseteq Runs /\ \A r \in Runs : r \notin Live <=> r > started
  BY CollectorConstantsOK DEF RunTypes, Live, Runs
<1> HIDE DEF Ended
<1>5. RunTypes'
  <2>1. run' \in [Runs -> Run \cup {NoRun}]  BY <1>1, <1>2, <1>4
  <2>2. \A r \in Runs : run'[r] = NoRun <=> r > started  BY <1>1, <1>2, <1>4
  <2> QED BY <1>3, <2>1, <2>2 DEF RunTypes
<1>6. Live' = Live /\ \A r \in Live : run'[r] = Ended(r)  BY <1>2, <1>3, <1>4 DEF Live
<1>7. Handing'
  BY <1>1, <1>3, <1>6 DEF Handing, HandedOnce, HandsOnFresh, HandsOnOnce
<1>8. OtherTypes'
  <2>1. StatusAtStart \in Status  BY DEF StatusAtStart, Status
  <2>2. status' = StatusAtStart /\ current' = 0 /\ inserted' = {}
        /\ inbox' = [r \in Runs |-> <<>>] /\ UNCHANGED <<published, queue, dead>>
    BY DEF Restart
  <2>3. inbox' \in [Runs -> Seq(Items)]  BY <1>0, <2>2
  <2>4. current' \in 0..started'  BY <1>3, <2>2, CollectorConstantsOK DEF RunTypes
  <2> QED BY <2>1, <2>2, <2>3, <2>4 DEF OtherTypes
<1> QED BY <1>5, <1>7, <1>8

-----------------------------------------------------------------------------

LEMMA InitOK == Init => IInv
<1> SUFFICES ASSUME Init PROVE IInv
  OBVIOUS
<1>0. <<>> \in Seq(Items) /\ Len(<<>>) = 0  BY EmptySeq
<1>1. Live = {}  BY DEF Init, Live
<1>2. RunTypes  BY CollectorConstantsOK DEF Init, RunTypes, Runs
<1>3. OtherTypes
  BY <1>0, CollectorConstantsOK DEF Init, OtherTypes, StatusAtStart, Status
<1>4. Handing  BY <1>1 DEF Init, Handing, HandedOnce, HandsOnFresh, HandsOnOnce
<1> QED BY <1>2, <1>3, <1>4 DEF IInv

LEMMA NextStep == IInv /\ [Next]_vars => IInv'
<1> SUFFICES ASSUME IInv, [Next]_vars PROVE IInv'
  OBVIOUS
<1>1. ASSUME NEW r \in 1..started, Step(r) PROVE IInv'
  <2>1. r \in Live  BY DEF Live
  <2>2. CASE Check(r)  BY <2>1, <2>2, CheckStep DEF IInv
  <2>3. CASE Dial(r) \/ DialFails(r) \/ Announce(r) \/ MarkFailure(r)
    BY <2>1, <2>3, ConnectStep DEF IInv
  <2>4. CASE Take(r)  BY <2>1, <2>4, TakeStep DEF IInv
  <2>5. CASE Sort(r)  BY <2>1, <2>5, SortStep DEF IInv
  <2>6. CASE Insert(r)  BY <2>1, <2>6, InsertStep DEF IInv
  <2>7. CASE InsertNothing(r) \/ InsertFails(r)  BY <2>1, <2>7, InsertFailedStep DEF IInv
  <2>8. CASE Hand(r)  BY <2>1, <2>8, HandStep DEF IInv
  <2>9. CASE HandStops(r) \/ Count(r)  BY <2>1, <2>9, DoneHandingStep DEF IInv
  <2> QED
    BY <1>1, <2>2, <2>3, <2>4, <2>5, <2>6, <2>7, <2>8, <2>9 DEF Step, ProcessItems
<1>2. CASE \E mode \in Modes : Start(mode)  BY <1>2, StartStep DEF IInv
<1>3. CASE Stop  BY <1>3, StopStep DEF IInv
<1>4. CASE \E x \in Items : Publish(x)  BY <1>4, PublishStep DEF IInv
<1>5. CASE \E e \in Events : Import(e)  BY <1>5, ImportStep DEF IInv
<1>6. CASE Restart  BY <1>6, RestartStep DEF IInv
<1>7. CASE UNCHANGED vars
  <2>1. OtherTypes'  BY <1>7 DEF IInv, OtherTypes, vars
  <2> QED BY <1>7, <2>1, RunsKept DEF IInv, vars
<1> QED BY <1>1, <1>2, <1>3, <1>4, <1>5, <1>6, <1>7 DEF Next

LEMMA Invariance == Spec => []IInv
  BY InitOK, NextStep, PTL DEF Spec

\* The collector's state is well-typed whatever CPA delivers and however often
\* it is started, stopped and restarted; dead letters are rejected payloads only.
THEOREM TypeCorrect == Spec => []TypeOK
  BY Invariance, TypesTogether, PTL DEF IInv

\* The workers hear of an event at most once, and only of stored events, for any
\* number of overlapping goroutines, duplicates, failures and restarts.
THEOREM HandedAtMostOnce == Spec => []HandedOnce
  BY Invariance, PTL DEF IInv, Handing

(***************************************************************************)
(* The counter of inserted rows.                                           *)
(***************************************************************************)

\* The events goroutine r has inserted and not yet counted.
UncountedBy(r) == EventsAt(run[r].events, run[r].new)

\* Only a goroutine that is handing on has something to count; it is of rows
\* inserted in this process, each once, and no two goroutines count the same.
CountsOwn ==
    /\ IsFiniteSet(inserted)
    /\ \A r \in Live :
          /\ run[r].step # "hand" => run[r].new = {}
          /\ UncountedBy(r) \subseteq inserted
          /\ \A i, j \in run[r].new : run[r].events[i] = run[r].events[j] => i = j
    /\ \A r, s \in Live : r # s => UncountedBy(r) \cap UncountedBy(s) = {}

CountInv == CountsOwn /\ InsertedIsCounted

LEMMA UncountedIsUnion == Uncounted = UNION {UncountedBy(r) : r \in Live}
  BY DEF Uncounted, UncountedBy, Live

LEMMA PositionsFinite ==
    ASSUME NEW events \in Seq(Events), NEW positions \in SUBSET DOMAIN events
    PROVE  IsFiniteSet(positions)
<1>1. DOMAIN events = 1..Len(events) /\ Len(events) \in Nat  BY LenProperties
<1>2. IsFiniteSet(1..Len(events))  BY <1>1, FS_Interval
<1> QED BY <1>1, <1>2, FS_Subset

LEMMA DisjointUnion ==
    ASSUME NEW S, NEW T, IsFiniteSet(S), IsFiniteSet(T), S \cap T = {}
    PROVE  Cardinality(S \cup T) = Cardinality(S) + Cardinality(T)
<1>1. Cardinality(S) \in Nat /\ Cardinality(T) \in Nat  BY FS_CardinalityType
<1>2. Cardinality(S \cap T) = 0  BY FS_EmptySet
<1>3. Cardinality(S \cup T) = Cardinality(S) + Cardinality(T) - Cardinality(S \cap T)
  BY FS_Union
<1> QED BY <1>1, <1>2, <1>3

\* A step that leaves what every goroutine has to count as it is, in its order.
LEMMA CountKept ==
    ASSUME CountInv, Live \subseteq Live', UNCHANGED inserted, status'.inserted = status.inserted,
           \A r \in Live' :
              \/ /\ r \in Live /\ run'[r].step = run[r].step
                 /\ run'[r].events = run[r].events /\ run'[r].new = run[r].new
              \/ run'[r].new = {} /\ (r \in Live => run[r].new = {})
    PROVE  CountInv'
<1>1. \A r \in Live' : UncountedBy(r)' = IF r \in Live THEN UncountedBy(r) ELSE {}
  BY DEF UncountedBy, EventsAt
<1>2. CountsOwn'  BY <1>1 DEF CountInv, CountsOwn
<1>3. UNION {UncountedBy(r)' : r \in Live'} = UNION {UncountedBy(r) : r \in Live}
  BY <1>1
<1>4. Uncounted' = Uncounted
  BY <1>3, UncountedIsUnion DEF Uncounted, UncountedBy, Live
<1> QED BY <1>2, <1>4 DEF CountInv, InsertedIsCounted

\* Most steps of a goroutine leave what it has to count alone.
LEMMA QuietCount ==
    ASSUME IInv, CountInv, NEW r \in Live, Step(r), ~Insert(r), ~Count(r)
    PROVE  CountInv'
<1> USE DEF IInv
<1>1. r \in Runs /\ run[r] \in Run /\ run \in [Runs -> Run \cup {NoRun}] /\ status \in Status
  BY LiveRun DEF RunTypes, OtherTypes
<1>2. CASE Hand(r) \/ HandStops(r)
  <2>1. /\ UNCHANGED <<inserted, status, started>>
        /\ \E todo : run' = [run EXCEPT ![r].todo = todo]
    BY <1>2 DEF Hand, HandStops, dbVars
  <2>2. Live' = Live  BY <2>1 DEF Live
  <2>3. \A s \in Live : /\ run'[s].step = run[s].step
                        /\ run'[s].events = run[s].events /\ run'[s].new = run[s].new
    BY <1>1, <2>1, LiveRun DEF Run
  <2> QED BY <2>1, <2>2, <2>3, CountKept
<1>3. CASE ~(Hand(r) \/ HandStops(r))
  <2> DEFINE quiet == Check(r) \/ Dial(r) \/ DialFails(r) \/ Announce(r) \/ MarkFailure(r)
                        \/ Take(r) \/ Sort(r) \/ InsertNothing(r) \/ InsertFails(r)
  <2>1. quiet  BY <1>3 DEF Step, ProcessItems
  <2>2. run[r].step # "hand" /\ UNCHANGED <<inserted, started>>
    BY <2>1 DEF Check, Dial, DialFails, Announce, MarkFailure, Take, ReadMessage, Pop, PopLost,
       PopRefused, PopUnsupported, Popping, Sort, InsertNothing, InsertFails, dbVars
  <2>3. status'.inserted = status.inserted
    <3>1. \/ UNCHANGED status \/ MarkError
          \/ \E c, t : SetStatus(c, t)
          \/ status' = [status EXCEPT !.deadLetters = @ + 1]
      BY <2>1 DEF Check, Dial, DialFails, Announce, MarkFailure, Take, ReadMessage, Pop,
         PopLost, PopRefused, PopUnsupported, Sort, InsertNothing, InsertFails
    <3> QED BY <1>1, <3>1 DEF SetStatus, MarkError, Status
  <2>4. \A s \in Live \ {r} : run'[s] = run[s]
    BY <1>1, <2>1, LiveRun DEF Check, Dial, DialFails, Announce, MarkFailure, Take, ReadMessage,
       Pop, PopLost, PopRefused, PopUnsupported, Sort, InsertNothing, InsertFails, GoTo, Fail
  <2>5. run'[r].new = run[r].new
    BY <1>1, <2>1 DEF Check, Dial, DialFails, Announce, MarkFailure, Take, ReadMessage,
       Pop, PopLost, PopRefused, PopUnsupported, Sort, InsertNothing, InsertFails, GoTo, Fail, Run
  <2>6. run[r].new = {}  BY <2>2 DEF CountInv, CountsOwn
  <2>7. Live' = Live  BY <2>2 DEF Live
  <2> QED BY <2>2, <2>3, <2>4, <2>5, <2>6, <2>7, CountKept
<1> QED BY <1>2, <1>3

\* What a goroutine inserts is new to the table, so it adds as many events to
\* those to be counted as to those inserted.
LEMMA InsertCount ==
    ASSUME IInv, CountInv, NEW r \in Live, Insert(r)
    PROVE  CountInv'
<1> USE DEF IInv
<1> DEFINE events == run[r].events
           new == NewPositions(events)
           rows == EventsAt(events, new)
<1>1. r \in Runs /\ run[r] \in Run /\ run \in [Runs -> Run \cup {NoRun}]
  BY LiveRun DEF RunTypes
<1>2. events \in Seq(Events)  BY <1>1 DEF Run
<1>3. /\ new \subseteq DOMAIN events
      /\ \A i \in new : events[i] \notin stored
      /\ \A i, j \in new : events[i] = events[j] => i = j
  BY <1>2, NewRows
<1>4. /\ inserted' = inserted \cup rows /\ UNCHANGED <<started, status>>
      /\ run' = [run EXCEPT ![r].step = "hand", ![r].new = new, ![r].todo = new]
  BY DEF Insert
<1>5. Live' = Live  BY <1>4 DEF Live
<1>6. /\ run'[r].step = "hand" /\ run'[r].new = new /\ run'[r].events = events
      /\ \A s \in Live \ {r} : run'[s] = run[s]
  BY <1>1, <1>4, LiveRun DEF Run
<1>7. /\ UncountedBy(r)' = rows
      /\ \A s \in Live \ {r} : UncountedBy(s)' = UncountedBy(s)
  BY <1>6 DEF UncountedBy, EventsAt
<1>8. rows \cap inserted = {}  BY <1>3 DEF OtherTypes, EventsAt
<1>9. UncountedBy(r) = {}
  <2>1. run[r].new = {}  BY DEF Insert, CountInv, CountsOwn
  <2> QED BY <2>1 DEF UncountedBy, EventsAt
<1>10. IsFiniteSet(rows)
  <2>1. IsFiniteSet(new)  BY <1>2, <1>3, PositionsFinite
  <2>2. [i \in new |-> events[i]] \in Surjection(new, rows)
    BY DEF Surjection, EventsAt
  <2> QED BY <2>1, <2>2, FS_Surjection
<1> HIDE DEF new, events, rows
<1>11. Uncounted' = Uncounted \cup rows
  <2>1. Uncounted' = UNION {UncountedBy(s)' : s \in Live'}
    BY DEF Uncounted, UncountedBy, Live
  <2> QED BY <1>5, <1>7, <1>9, <2>1, UncountedIsUnion
<1>12. CountsOwn'
  <2>1. IsFiniteSet(inserted')  BY <1>4, <1>10, FS_Union DEF CountInv, CountsOwn
  <2>2. \A s \in Live : UncountedBy(s)' \subseteq inserted'
    BY <1>4, <1>7 DEF CountInv, CountsOwn
  <2>3. \A s, t \in Live : s # t => UncountedBy(s)' \cap UncountedBy(t)' = {}
    BY <1>7, <1>8 DEF CountInv, CountsOwn
  <2>4. \A s \in Live :
          /\ run'[s].step # "hand" => run'[s].new = {}
          /\ \A i, j \in run'[s].new : run'[s].events[i] = run'[s].events[j] => i = j
    BY <1>3, <1>6 DEF CountInv, CountsOwn
  <2> QED BY <1>5, <2>1, <2>2, <2>3, <2>4 DEF CountsOwn
<1>13. InsertedIsCounted'
  <2>1. Uncounted \subseteq inserted /\ IsFiniteSet(Uncounted) /\ IsFiniteSet(inserted)
    BY UncountedIsUnion, FS_Subset DEF CountInv, CountsOwn
  <2>2. Cardinality(Uncounted') = Cardinality(Uncounted) + Cardinality(rows)
    BY <1>8, <1>10, <1>11, <2>1, DisjointUnion
  <2>3. Cardinality(inserted') = Cardinality(inserted) + Cardinality(rows)
    BY <1>4, <1>8, <1>10, <2>1, DisjointUnion
  <2>4. /\ Cardinality(Uncounted) \in Nat /\ Cardinality(inserted) \in Nat
        /\ Cardinality(rows) \in Nat /\ status.inserted \in Nat
    BY <1>10, <2>1, FS_CardinalityType DEF OtherTypes, Status
  <2> QED BY <1>4, <2>2, <2>3, <2>4 DEF CountInv, InsertedIsCounted
<1> QED BY <1>12, <1>13 DEF CountInv

\* Counting takes from the uncounted exactly the events the counter gains.
LEMMA CountCount ==
    ASSUME IInv, CountInv, NEW r \in Live, Count(r)
    PROVE  CountInv'
<1> USE DEF IInv
<1> DEFINE rows == UncountedBy(r)
<1>1. r \in Runs /\ run[r] \in Run /\ run \in [Runs -> Run \cup {NoRun}] /\ status \in Status
  BY LiveRun DEF RunTypes, OtherTypes
<1>2. InsertedBy(r) \in Nat  BY CountTypes DEF Count
<1>3. /\ status'.inserted = status.inserted + InsertedBy(r)
      /\ UNCHANGED <<started, inserted>>
      /\ run' = [run EXCEPT ![r].step = "loop", ![r].events = <<>>, ![r].new = {}]
  BY <1>1 DEF Count, Status, dbVars
<1>4. Live' = Live  BY <1>3 DEF Live
<1>5. /\ run'[r].step = "loop" /\ run'[r].new = {}
      /\ \A s \in Live \ {r} : run'[s] = run[s]
  BY <1>1, <1>3, LiveRun DEF Run
<1>6. /\ UncountedBy(r)' = {}
      /\ \A s \in Live \ {r} : UncountedBy(s)' = UncountedBy(s)
  BY <1>5 DEF UncountedBy, EventsAt
<1>7. CountsOwn'
  <2>1. UNCHANGED inserted  BY <1>3
  <2>2. \A s \in Live :
          /\ run'[s].step # "hand" => run'[s].new = {}
          /\ UncountedBy(s)' \subseteq inserted
          /\ \A i, j \in run'[s].new : run'[s].events[i] = run'[s].events[j] => i = j
    BY <1>5, <1>6 DEF CountInv, CountsOwn
  <2>3. \A s, t \in Live : s # t => UncountedBy(s)' \cap UncountedBy(t)' = {}
    BY <1>6 DEF CountInv, CountsOwn
  <2> QED BY <1>4, <2>1, <2>2, <2>3 DEF CountInv, CountsOwn
<1>8. Uncounted' = Uncounted \ rows /\ rows \subseteq Uncounted
  <2>1. Uncounted' = UNION {UncountedBy(s)' : s \in Live'}
    BY DEF Uncounted, UncountedBy, Live
  <2> QED BY <1>4, <1>6, <2>1, UncountedIsUnion DEF CountInv, CountsOwn
<1>9. Cardinality(rows) = InsertedBy(r) /\ IsFiniteSet(rows)
  <2> DEFINE f == [i \in run[r].new |-> run[r].events[i]]
  <2>1. f \in Bijection(run[r].new, rows)
    BY DEF Bijection, Injection, IsInjective, Surjection, UncountedBy, EventsAt, CountInv, CountsOwn
  <2>2. IsFiniteSet(run[r].new)
    <3>1. run[r].events \in Seq(Events) /\ run[r].new \subseteq DOMAIN run[r].events
      BY <1>1 DEF Run, Count, Handing, HandsOnFresh
    <3> QED BY <3>1, PositionsFinite
  <2>3. ExistsBijection(run[r].new, rows)  BY <2>1 DEF ExistsBijection
  <2> QED BY <2>2, <2>3, FS_Bijection DEF InsertedBy
<1>10. InsertedIsCounted'
  <2>1. IsFiniteSet(Uncounted)
    BY UncountedIsUnion, FS_Subset DEF CountInv, CountsOwn
  <2>2. Uncounted \cap rows = rows  BY <1>8
  <2>3. Cardinality(Uncounted \ rows) = Cardinality(Uncounted) - Cardinality(Uncounted \cap rows)
    BY <2>1, FS_Difference
  <2> HIDE DEF rows
  <2>4. Cardinality(Uncounted') = Cardinality(Uncounted) - InsertedBy(r)
    BY <1>8, <1>9, <2>2, <2>3
  <2>5. Cardinality(Uncounted) \in Nat /\ status.inserted \in Nat
    BY <1>1, <2>1, FS_CardinalityType DEF Status
  <2> QED BY <1>2, <1>3, <2>4, <2>5 DEF CountInv, InsertedIsCounted
<1> QED BY <1>7, <1>10 DEF CountInv

LEMMA CountStep == ASSUME IInv, CountInv, [Next]_vars PROVE CountInv'
<1> USE DEF IInv
<1>1. CASE \E r \in 1..started : Step(r)
  <2>1. PICK r \in Live : Step(r)  BY <1>1 DEF Live
  <2> QED BY <2>1, QuietCount, InsertCount, CountCount
<1>2. CASE \E mode \in Modes : Start(mode)
  <2>1. PICK mode \in Modes : Start(mode)  BY <1>2
  <2>2. /\ status'.inserted = status.inserted /\ started' = started + 1
        /\ UNCHANGED inserted
    BY <2>1 DEF Start, SetStatus, OtherTypes, Status, dbVars
  <2>3. Live' = Live \cup {started + 1} /\ started + 1 \notin Live
    BY <2>2, CollectorConstantsOK DEF Live, RunTypes
  <2>4. started + 1 \in Runs
    BY <2>1, CollectorConstantsOK DEF Start, Runs, RunTypes
  <2>5. run'[started + 1].new = {} /\ \A s \in Live : run'[s] = run[s]
    BY <2>1, <2>3, <2>4, LiveRun DEF Start, RunTypes
  <2> QED BY <2>2, <2>3, <2>5, CountKept
<1>3. CASE Restart
  <2>1. /\ status'.inserted = 0 /\ inserted' = {} /\ Live' = Live
        /\ \A r \in Live : run'[r].new = {}
    <3>1. \A r \in Live : r \in Runs /\ ~(r > started) /\ run[r] \in Run
      BY LiveRun, CollectorConstantsOK DEF Live, RunTypes
    <3>2. \A r \in Live : run'[r] = [run[r] EXCEPT !.step = "ended", !.batch = <<>>,
                                        !.events = <<>>, !.new = {}, !.todo = {}]
      BY <1>3, <3>1 DEF Restart
    <3>3. \A r \in Live : run'[r].new = {}  BY <3>1, <3>2 DEF Run
    <3> QED BY <1>3, <3>3 DEF Restart, StatusAtStart, Live
  <2>2. \A r \in Live : UncountedBy(r)' = {}  BY <2>1 DEF UncountedBy, EventsAt
  <2>3. Uncounted' = {}
    <3>1. Uncounted' = UNION {UncountedBy(r)' : r \in Live'}
      BY DEF Uncounted, UncountedBy, Live
    <3> QED BY <2>1, <2>2, <3>1
  <2> QED BY <2>1, <2>2, <2>3, FS_EmptySet DEF CountInv, CountsOwn, InsertedIsCounted
<1>4. ASSUME UNCHANGED <<run, started, inserted>>, status'.inserted = status.inserted
      PROVE  CountInv'
  BY <1>4, CountKept DEF Live
<1>5. CASE Stop
  BY <1>4, <1>5 DEF Stop, dbVars, OtherTypes, Status
<1>6. CASE (\E x \in Items : Publish(x)) \/ (\E e \in Events : Import(e)) \/ UNCHANGED vars
  BY <1>4, <1>6 DEF Publish, Import, dbVars, vars
<1> QED BY <1>1, <1>2, <1>3, <1>5, <1>6 DEF Next

\* TotalInserted never counts a row twice nor misses one, for any number of
\* overlapping goroutines, cancellations and restarts: what it says, and what
\* goroutines are about to add to it, is what was inserted in this process.
THEOREM CountedOnce == Spec => []InsertedIsCounted
<1>1. Init => CountInv
  <2> SUFFICES ASSUME Init PROVE CountInv
    OBVIOUS
  <2>1. Live = {}  BY DEF Init, Live
  <2>2. Uncounted = {}  BY <2>1, UncountedIsUnion
  <2> QED BY <2>1, <2>2, FS_EmptySet
          DEF Init, StatusAtStart, CountInv, CountsOwn, InsertedIsCounted
<1> QED BY <1>1, CountStep, Invariance, PTL DEF Spec, CountInv
=============================================================================
