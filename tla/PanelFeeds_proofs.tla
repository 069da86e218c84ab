--------------------------- MODULE PanelFeeds_proofs ---------------------------
(***************************************************************************)
(* Theorems about the pages that follow what goes on elsewhere: the        *)
(* sign-ins, the monitoring centre and the log, for any number of          *)
(* attempts, requests and lines.                                           *)
(***************************************************************************)
EXTENDS OAuthPanel, MonitoringPanel, LogsTail, SequenceTheorems, WellFoundedInduction, TLAPS

(***************************************************************************)
(* The sign-ins.                                                           *)
(***************************************************************************)

CardType ==
    [status : {"none", "waiting", "success", "error"}, attempt : {NoAttempt} \cup Attempts,
     link : BOOLEAN, polling : BOOLEAN, submitting : BOOLEAN]

\* While an attempt is left, there is a next one.
LEMMA NextAttemptExists ==
    ASSUME Begun # Attempts PROVE NextAttempt \in Attempts
<1> DEFINE T == Attempts \ Begun
<1>1. T # {} /\ T \subseteq Nat
  BY OAuthAssumption DEF Attempts, Begun
<1>2. \E a \in T : \A b \in T : ~(b < a)
  <2>1. \E a \in T : \A b \in T : <<b, a>> \notin OpToRel(<, Nat)
    BY <1>1, NatLessThanWellFounded, WFMin
  <2> QED BY <1>1, <2>1 DEF OpToRel
<1>3. \A a, b \in T : ~(b < a) => a <= b
  BY <1>1
<1> QED BY <1>2, <1>3 DEF NextAttempt

LEMMA OAuthInitOK == OAuthInit => OAuthTypeOK /\ WaitingIsPolled
<1> SUFFICES ASSUME OAuthInit PROVE OAuthTypeOK /\ WaitingIsPolled
  OBVIOUS
<1>1. card \in CardType /\ card.status = "none"
  BY DEF OAuthInit, CardType, EmptyCard
<1>2. 0 \in 0 .. MaxPolls /\ 0 \in 0 .. MaxCallbacks
  BY OAuthAssumption
<1> QED BY <1>1, <1>2 DEF OAuthInit, OAuthTypeOK, CardType, WaitingIsPolled

LEMMA OAuthStep ==
    ASSUME OAuthTypeOK, WaitingIsPolled, [OAuthNext]_oauthVars
    PROVE  OAuthTypeOK' /\ WaitingIsPolled'
<1>0. /\ card \in CardType /\ starting \subseteq Attempts /\ intervals \subseteq Attempts
      /\ timer \in {NoAttempt} \cup Attempts /\ callbacks \in 0 .. MaxCallbacks
      /\ polls \in [Attempts -> 0 .. MaxPolls] /\ MaxPolls \in Nat /\ MaxCallbacks \in Nat
      /\ cpa \in [Attempts -> {"none", "asked", "pending", "done", "failed"}]
      /\ resetDue \in BOOLEAN
  BY OAuthAssumption DEF OAuthTypeOK, CardType
<1> DEFINE Kept == /\ card' \in CardType /\ WaitingIsPolled'
                   /\ starting' \subseteq Attempts /\ intervals' \subseteq Attempts
                   /\ timer' \in {NoAttempt} \cup Attempts
                   /\ cpa' \in [Attempts -> {"none", "asked", "pending", "done", "failed"}]
                   /\ polls' \in [Attempts -> 0 .. MaxPolls]
                   /\ callbacks' \in 0 .. MaxCallbacks /\ resetDue' \in BOOLEAN
<1>1. SUFFICES Kept
  BY DEF OAuthTypeOK, CardType
<1>2. CASE StartAuth
  <2>1. NextAttempt \in Attempts  BY <1>2, NextAttemptExists DEF StartAuth
  <2>2. card' \in CardType /\ card'.status = "waiting" /\ card'.attempt = NoAttempt
    <3>1. card' = [card EXCEPT !.status = "waiting", !.attempt = NoAttempt, !.link = FALSE,
                               !.polling = TRUE]
      BY <1>2 DEF StartAuth
    <3> QED BY <1>0, <3>1 DEF CardType
  <2>3. starting' # {}  BY <1>2 DEF StartAuth
  <2> QED BY <1>0, <1>2, <2>1, <2>2, <2>3 DEF StartAuth, WaitingIsPolled
<1>3. ASSUME NEW a \in Attempts, StartAnswers(a) PROVE Kept
  <2>1. card' \in CardType /\ card'.attempt = a
    <3>1. card' = [card EXCEPT !.status = "waiting", !.attempt = a, !.link = TRUE, !.polling = TRUE]
      BY <1>3 DEF StartAnswers
    <3> QED BY <1>0, <3>1 DEF CardType
  <2> QED BY <1>0, <1>3, <2>1 DEF StartAnswers, StartPolling, WaitingIsPolled
<1>4. ASSUME NEW a \in Attempts, StartFails(a) PROVE Kept
  <2>1. card' \in CardType /\ card'.status = "error"
    <3>1. CASE card' = [card EXCEPT !.status = "error", !.polling = FALSE]
      BY <1>0, <3>1 DEF CardType
    <3>2. CASE card' = [card EXCEPT !.status = "error", !.polling = FALSE, !.attempt = NoAttempt,
                                    !.link = TRUE]
      BY <1>0, <3>2 DEF CardType
    <3> QED BY <1>4, <3>1, <3>2 DEF StartFails
  <2> QED BY <1>0, <1>4, <2>1 DEF StartFails, WaitingIsPolled
<1>5. ASSUME NEW a \in Attempts, Finish(a) PROVE Kept
  BY <1>0, <1>5 DEF Finish, WaitingIsPolled
<1>6. ASSUME NEW a \in Attempts, Tick(a) PROVE Kept
  BY <1>0, <1>6 DEF Tick, WaitingIsPolled
<1>7. ASSUME NEW a \in Attempts, PollEnds(a)
      PROVE  polls' \in [Attempts -> 0 .. MaxPolls] /\ UNCHANGED <<cpa, starting, callbacks>>
  BY <1>0, <1>7 DEF PollEnds
<1>8. ASSUME NEW a \in Attempts, PollSaysWait(a) PROVE Kept
  BY <1>0, <1>7, <1>8 DEF PollSaysWait, WaitingIsPolled
<1>9. ASSUME NEW a \in Attempts, PollSaysOk(a) PROVE Kept
  <2>1. card' \in CardType /\ card'.status = "success"
    <3>1. card' = [EmptyCard EXCEPT !.status = "success"]  BY <1>9 DEF PollSaysOk
    <3> QED BY <3>1 DEF CardType, EmptyCard
  <2> QED BY <1>0, <1>7, <1>9, <2>1 DEF PollSaysOk, WaitingIsPolled
<1>10. ASSUME NEW a \in Attempts, PollFails(a) PROVE Kept
  <2>1. card' \in CardType /\ card'.status = "error"
    <3>1. card' = [card EXCEPT !.status = "error", !.polling = FALSE]  BY <1>10 DEF PollFails
    <3> QED BY <1>0, <3>1 DEF CardType
  <2> QED BY <1>0, <1>7, <1>10, <2>1 DEF PollFails, WaitingIsPolled
<1>11. CASE ResetProviderAttempt
  <2>1. card' \in CardType /\ card'.status = "none"
    BY <1>11 DEF ResetProviderAttempt, CardType, EmptyCard
  <2> QED BY <1>0, <1>11, <2>1 DEF ResetProviderAttempt, WaitingIsPolled
<1>12. CASE SubmitCallback \/ CallbackEnds
  <2>1. card' \in CardType /\ card'.status = card.status /\ card'.attempt = card.attempt
    <3>1. \E b \in BOOLEAN : card' = [card EXCEPT !.submitting = b]
      BY <1>12 DEF SubmitCallback, CallbackEnds
    <3> QED BY <1>0, <3>1 DEF CardType
  <2> QED BY <1>0, <1>12, <2>1 DEF SubmitCallback, CallbackEnds, WaitingIsPolled
<1>13. CASE UNCHANGED oauthVars  BY <1>0, <1>13 DEF oauthVars, WaitingIsPolled
<1> QED
  BY <1>2, <1>3, <1>4, <1>5, <1>6, <1>8, <1>9, <1>10, <1>11, <1>12, <1>13
  DEF OAuthNext, PollAnswers

\* The state of a sign-in card has its type.
THEOREM OAuthTyped == OAuthSpec => []OAuthTypeOK
BY OAuthInitOK, OAuthStep, PTL DEF OAuthSpec

\* A card that waits hears of the end, for any number of attempts whose late
\* answers stop and forget each other's intervals (startPolling,
\* completeProviderAuth and the poll's own clearInterval in OAuthPage.tsx).
THEOREM WaitersArePolled == OAuthSpec => []WaitingIsPolled
BY OAuthInitOK, OAuthStep, PTL DEF OAuthSpec

(***************************************************************************)
(* The monitoring centre.  What makes a list that shows neither loading    *)
(* nor an error the answer to its filter: while the hook waits, the one    *)
(* request that counts is of the filter that is set and of the list's      *)
(* place in it, and every call of refresh() ends with the hook waiting or  *)
(* with monitoring unavailable.                                            *)
(***************************************************************************)

DataType == [scope : Scopes \cup {""}, of : Scopes \cup {""}, page : Pages]
QueryType == [scope : Scopes \cup {""}, page : Pages, id : 0 .. MaxQueries]
Keys == {<<>>} \cup (Pages \X Pages)
EventsType ==
    [scope : Scopes \cup {""}, page : Pages, items : SUBSET [of : Scopes, page : Pages],
     more : BOOLEAN, loadingMore : BOOLEAN, key : Keys]

ItemsOwn(e) == \A item \in e.items : item.of = e.scope

\* The hook: its flags, its data, its requests.
HookType ==
    /\ data \in DataType /\ data.of = data.scope
    /\ analyticsLoading \in BOOLEAN /\ failed \in BOOLEAN
    /\ requestId \in 0 .. MaxQueries /\ inFlight \in QueryType
    /\ queries \subseteq [scope : Scopes, page : Pages, id : 1 .. MaxQueries]

\* The latest request, if it is under way, is the one that is waited for.
QueriesOK ==
    \A q \in queries : q.id <= requestId /\ (q.id = requestId => q = inFlight)

\* The hook waits for the answer to filter s at place p.
Awaits(s, p) ==
    /\ inFlight.id = requestId /\ inFlight \in queries /\ analyticsLoading
    /\ inFlight.scope = s /\ inFlight.page = p

MonitoringInv ==
    /\ scope \in Scopes /\ now \in 0 .. MaxNow /\ enabled \in BOOLEAN
    /\ HookType /\ QueriesOK
    /\ events \in EventsType /\ ItemsOwn(events)
    /\ inFlight.id # 0 => enabled /\ Awaits(scope, Active(events, scope).page)
    /\ enabled /\ ~analyticsLoading /\ ~failed =>
          data.of = scope /\ data.page = Active(events, scope).page

LEMMA ActiveKeeps ==
    ASSUME NEW e \in EventsType, NEW s \in Scopes, ItemsOwn(e)
    PROVE  Active(e, s) \in EventsType /\ Active(e, s).scope = s /\ ItemsOwn(Active(e, s))
<1>1. 0 \in Pages /\ <<>> \in Keys  BY MonitoringAssumption DEF Pages, Keys
<1>2. NoEvents(s) \in EventsType /\ NoEvents(s).scope = s /\ NoEvents(s).items = {}
  BY <1>1 DEF NoEvents, EventsType
<1> QED BY <1>2 DEF Active, ItemsOwn

\* A page that arrives is of the list's filter, and leaves its place.
LEMMA PageArrivesKeeps ==
    ASSUME NEW e \in EventsType, NEW s \in Scopes, NEW d \in DataType, d.of = d.scope, ItemsOwn(e)
    PROVE  /\ PageArrives(e, s, d) \in EventsType /\ ItemsOwn(PageArrives(e, s, d))
           /\ Active(PageArrives(e, s, d), s).page = Active(e, s).page
<1> DEFINE base == Active(e, s)
           key == <<base.page, d.page>>
           item == [of |-> d.of, page |-> d.page]
           left == d.page < LastPage
           grown == [base EXCEPT !.items = @ \cup {item}, !.more = left,
                                 !.loadingMore = FALSE, !.key = key]
<1>1. base \in EventsType /\ base.scope = s /\ ItemsOwn(base)  BY ActiveKeeps
<1>2. Active(base, s) = base  BY <1>1 DEF Active
<1>3. key \in Keys
  <2>1. base.page \in Pages /\ d.page \in Pages  BY <1>1 DEF EventsType, DataType
  <2> QED BY <2>1 DEF Keys
<1> HIDE DEF base
<1>4. d.scope = s => item \in [of : Scopes, page : Pages] /\ item.of = s
  BY DEF DataType
<1>5. CASE d.scope = s
  <2>0. left \in BOOLEAN
    OBVIOUS
  <2> HIDE DEF key, item, left
  <2>1. /\ grown \in EventsType /\ grown.scope = s /\ grown.page = base.page
        /\ grown.items = base.items \cup {item}
    BY <1>1, <1>3, <1>4, <1>5, <2>0 DEF EventsType
  <2>2. ItemsOwn(grown)  BY <1>1, <1>4, <1>5, <2>1 DEF ItemsOwn
  <2>3. Active(grown, s) = grown  BY <2>1 DEF Active
  <2>4. PageArrives(e, s, d) \in {e, base, grown}
    BY DEF PageArrives, base, key, item, left
  <2> HIDE DEF grown
  <2> QED BY <1>1, <1>2, <2>1, <2>2, <2>3, <2>4 DEF base
<1>6. CASE d.scope # s
  BY <1>6 DEF PageArrives
<1> QED BY <1>5, <1>6

\* refresh() leaves the hook waiting for what it was asked, or, while
\* monitoring is unavailable, for nothing.
LEMMA RefreshKeeps ==
    ASSUME HookType, QueriesOK, NEW on \in BOOLEAN, NEW s \in Scopes, NEW p \in Pages,
           inFlight.id # 0 => Awaits(inFlight.scope, inFlight.page), Refresh(on, s, p)
    PROVE  /\ HookType' /\ QueriesOK'
           /\ on => Awaits(s, p)'
           /\ ~on => inFlight'.id = 0
<1>0. MaxQueries \in Nat /\ 0 \in Pages  BY MonitoringAssumption DEF Pages
<1>1. CASE ~on
  <2>1. /\ requestId < MaxQueries /\ requestId' = requestId + 1
        /\ inFlight' = NoQuery /\ data' = NoData /\ analyticsLoading' = FALSE
        /\ UNCHANGED <<failed, queries>>
    BY <1>1 DEF Refresh
  <2>2. NoQuery \in QueryType /\ NoQuery.id = 0 /\ NoData \in DataType /\ NoData.of = NoData.scope
    BY <1>0 DEF NoQuery, NoData, QueryType, DataType
  <2>3. requestId' \in 0 .. MaxQueries /\ \A q \in queries : q.id < requestId'
    BY <1>0, <2>1 DEF HookType, QueriesOK
  <2>4. HookType'  BY <2>1, <2>2, <2>3 DEF HookType
  <2>5. QueriesOK'
    <3>1. \A q \in queries : q.id \in Nat /\ requestId' \in Nat
      BY <1>0, <2>3 DEF HookType
    <3> QED BY <2>1, <2>3, <3>1 DEF QueriesOK
  <2> QED BY <1>1, <2>1, <2>2, <2>4, <2>5
<1>2. CASE on /\ inFlight.id # 0 /\ inFlight.scope = s /\ inFlight.page = p
  <2>1. UNCHANGED <<requestId, inFlight, data, analyticsLoading, failed, queries>>
    BY <1>2 DEF Refresh
  <2> QED BY <1>2, <2>1 DEF HookType, QueriesOK, Awaits
<1>3. CASE on /\ ~(inFlight.id # 0 /\ inFlight.scope = s /\ inFlight.page = p)
  <2> DEFINE new == [scope |-> s, page |-> p, id |-> requestId + 1]
  <2>1. /\ requestId < MaxQueries /\ requestId' = requestId + 1 /\ inFlight' = new
        /\ queries' = queries \cup {new} /\ analyticsLoading' = TRUE /\ failed' = FALSE
        /\ UNCHANGED data
    BY <1>3 DEF Refresh
  <2>2. requestId' \in 1 .. MaxQueries /\ requestId' \in 0 .. MaxQueries /\ requestId' \in Nat
    BY <1>0, <2>1 DEF HookType
  <2>3. /\ new \in [scope : Scopes, page : Pages, id : 1 .. MaxQueries] /\ new \in QueryType
        /\ new.scope = s /\ new.page = p /\ new.id = requestId'
    <3>1. new = [scope |-> s, page |-> p, id |-> requestId']  BY <2>1
    <3> QED BY <2>2, <3>1 DEF QueryType
  <2> HIDE DEF new
  <2>4. \A q \in queries : q.id < requestId' /\ q.id \in Nat
    BY <1>0, <2>1 DEF HookType, QueriesOK
  <2>5. HookType'  BY <2>1, <2>2, <2>3 DEF HookType
  <2>6. QueriesOK'
    BY <2>1, <2>2, <2>3, <2>4 DEF QueriesOK
  <2>7. Awaits(s, p)'  BY <2>1, <2>3 DEF Awaits
  <2> QED BY <1>3, <2>5, <2>6, <2>7
<1> QED BY <1>1, <1>2, <1>3

LEMMA MonitoringInitOK == MonitoringInit => MonitoringInv
<1> SUFFICES ASSUME MonitoringInit PROVE MonitoringInv
  OBVIOUS
<1>1. 0 \in Pages /\ 0 \in 0 .. MaxQueries /\ 0 \in 0 .. MaxNow /\ <<>> \in Keys
  BY MonitoringAssumption DEF Pages, Keys
<1>2. events \in EventsType /\ ItemsOwn(events)
  BY <1>1 DEF MonitoringInit, NoEvents, EventsType, ItemsOwn
<1>3. HookType /\ QueriesOK /\ inFlight.id = 0
  BY <1>1 DEF MonitoringInit, HookType, QueriesOK, NoData, NoQuery, DataType, QueryType
<1> QED BY <1>1, <1>2, <1>3 DEF MonitoringInit, MonitoringInv

LEMMA MonitoringStep ==
    ASSUME MonitoringInv, [MonitoringNext]_monitoringVars PROVE MonitoringInv'
<1> DEFINE place == Active(events, scope).page
<1>0. /\ scope \in Scopes /\ now \in 0 .. MaxNow /\ enabled \in BOOLEAN
      /\ HookType /\ QueriesOK /\ events \in EventsType /\ ItemsOwn(events)
      /\ inFlight.id # 0 => Awaits(inFlight.scope, inFlight.page)
      /\ place \in Pages /\ MaxNow \in Nat
  <2>1. place \in Pages  BY ActiveKeeps DEF MonitoringInv, EventsType
  <2> QED BY <2>1, MonitoringAssumption DEF MonitoringInv, Awaits
\* After a call of refresh() for the filter and the place that are then set.
<1>1. ASSUME NEW on \in BOOLEAN, NEW s \in Scopes, NEW p \in Pages, Refresh(on, s, p),
             scope' = s, enabled' = on, now' \in 0 .. MaxNow,
             events' \in EventsType, ItemsOwn(events'), Active(events', s).page = p
      PROVE  MonitoringInv'
  <2>1. /\ HookType' /\ QueriesOK' /\ (on => Awaits(s, p)') /\ (~on => inFlight'.id = 0)
    BY <1>0, <1>1, RefreshKeeps
  <2>2. on => analyticsLoading'  BY <2>1 DEF Awaits
  <2> QED BY <1>1, <2>1, <2>2 DEF MonitoringInv, Awaits
<1>2. ASSUME NEW s \in Scopes, ChangeScope(s) PROVE MonitoringInv'
  <2>1. /\ Refresh(enabled, s, Active(events, s).page) /\ scope' = s
        /\ events' = PageArrives(events, s, data') /\ UNCHANGED <<now, enabled>>
    BY <1>2 DEF ChangeScope
  <2>2. Active(events, s).page \in Pages  BY <1>0, ActiveKeeps DEF EventsType
  <2>3. data' \in DataType /\ data'.of = data'.scope
    BY <1>0, <2>1, <2>2, RefreshKeeps DEF HookType
  <2>4. /\ events' \in EventsType /\ ItemsOwn(events')
        /\ Active(events', s).page = Active(events, s).page
    BY <1>0, <2>1, <2>3, PageArrivesKeeps
  <2> QED BY <1>0, <1>1, <2>1, <2>2, <2>4
<1>3. CASE ChangeAvailability
  BY <1>0, <1>1, <1>3 DEF ChangeAvailability
<1>4. CASE RefreshMeta
  <2> DEFINE rewound == [events EXCEPT !.page = 0, !.loadingMore = FALSE]
  <2>1. /\ now' = now + 1 /\ now < MaxNow /\ Refresh(enabled, scope, 0)
        /\ UNCHANGED <<scope, enabled>>
        /\ events' = IF events.page = 0 THEN rewound ELSE PageArrives(rewound, scope, data')
    BY <1>4 DEF RefreshMeta
  <2>2. 0 \in Pages  BY MonitoringAssumption DEF Pages
  <2>3. /\ rewound \in EventsType /\ ItemsOwn(rewound) /\ rewound.page = 0
        /\ rewound.scope = events.scope
    BY <1>0, <2>2 DEF EventsType, ItemsOwn
  <2> HIDE DEF rewound
  <2>4. Active(rewound, scope).page = 0  BY <2>3 DEF Active, NoEvents
  <2>5. data' \in DataType /\ data'.of = data'.scope
    BY <1>0, <2>1, <2>2, RefreshKeeps DEF HookType
  <2>6. events' \in EventsType /\ ItemsOwn(events') /\ Active(events', scope).page = 0
    BY <1>0, <2>1, <2>3, <2>4, <2>5, PageArrivesKeeps
  <2> QED BY <1>0, <1>1, <2>1, <2>2, <2>6
<1>5. CASE LoadMoreEvents
  <2> DEFINE here == Active(events, scope)
             moved == [here EXCEPT !.page = data.page + 1, !.loadingMore = TRUE]
  <2>1. /\ data.page < LastPage /\ UNCHANGED <<scope, now, enabled>>
        /\ IF moved.page = here.page
           THEN /\ events' = moved
                /\ UNCHANGED <<data, analyticsLoading, failed, requestId, inFlight, queries>>
           ELSE /\ Refresh(enabled, scope, moved.page)
                /\ events' = PageArrives(moved, scope, data')
    BY <1>5 DEF LoadMoreEvents
  <2>2. here \in EventsType /\ here.scope = scope /\ ItemsOwn(here)  BY <1>0, ActiveKeeps
  <2>3. data.page + 1 \in Pages
    <3>1. data.page \in Pages  BY <1>0 DEF HookType, DataType
    <3> QED BY <2>1, <3>1, MonitoringAssumption DEF Pages
  <2> HIDE DEF here
  <2>4. /\ moved \in EventsType /\ ItemsOwn(moved) /\ moved.scope = scope
        /\ moved.page \in Pages
    BY <2>2, <2>3 DEF EventsType, ItemsOwn
  <2>5. Active(moved, scope) = moved  BY <2>4 DEF Active
  <2> HIDE DEF moved
  <2>6. CASE moved.page = here.page
    <3>1. /\ events' = moved
          /\ UNCHANGED <<scope, now, enabled, data, analyticsLoading, failed, requestId,
                         inFlight, queries>>
      BY <2>1, <2>6
    <3>2. Active(events', scope').page = place
      BY <2>5, <2>6, <3>1 DEF here
    <3> QED BY <2>4, <3>1, <3>2 DEF MonitoringInv, HookType, QueriesOK, Awaits
  <2>7. CASE moved.page # here.page
    <3>1. Refresh(enabled, scope, moved.page) /\ events' = PageArrives(moved, scope, data')
      BY <2>1, <2>7
    <3>2. data' \in DataType /\ data'.of = data'.scope
      BY <1>0, <2>4, <3>1, RefreshKeeps DEF HookType
    <3>3. /\ events' \in EventsType /\ ItemsOwn(events')
          /\ Active(events', scope).page = moved.page
      BY <1>0, <2>4, <2>5, <3>1, <3>2, PageArrivesKeeps
    <3> QED BY <1>0, <1>1, <2>1, <2>4, <3>1, <3>3
  <2> QED BY <2>6, <2>7
\* An answer or a failure: the latest request is the one that is waited for.
<1>6. ASSUME NEW q \in queries, QueryEnds(q) PROVE
             /\ UNCHANGED <<scope, now, enabled, requestId>>
             /\ inFlight' \in QueryType /\ analyticsLoading' \in BOOLEAN
             /\ queries' \subseteq queries /\ QueriesOK'
             /\ IsCurrent(q) => /\ inFlight'.id = 0 /\ q = inFlight /\ q.id # 0
             /\ ~IsCurrent(q) => UNCHANGED <<inFlight, analyticsLoading>> /\
                                 (inFlight.id # 0 => inFlight \in queries')
  <2>1. q.id # 0 /\ q.id <= requestId /\ (q.id = requestId => q = inFlight)
    BY <1>0 DEF HookType, QueriesOK
  <2>2. /\ UNCHANGED <<scope, now, enabled, requestId>> /\ queries' = queries \ {q}
        /\ inFlight' = IF inFlight.id = q.id THEN NoQuery ELSE inFlight
        /\ analyticsLoading' = IF IsCurrent(q) THEN FALSE ELSE analyticsLoading
    BY <1>6 DEF QueryEnds
  <2>3. NoQuery \in QueryType /\ NoQuery.id = 0
    BY MonitoringAssumption DEF NoQuery, QueryType, Pages
  <2>4. inFlight.id = q.id => q.id = requestId
    BY <1>0, <2>1 DEF Awaits
  <2>5. QueriesOK'
    BY <1>0, <2>1, <2>2, <2>4 DEF QueriesOK
  <2> QED BY <1>0, <2>1, <2>2, <2>3, <2>4, <2>5 DEF IsCurrent, HookType, Awaits
<1>7. ASSUME NEW q \in queries, QueryAnswers(q) PROVE MonitoringInv'
  <2>0. QueryEnds(q) /\ UNCHANGED failed  BY <1>7 DEF QueryAnswers
  <2>1. CASE IsCurrent(q)
    <3>1. data' = Answered(q) /\ events' = PageArrives(events, scope, data')
      BY <1>7, <2>1 DEF QueryAnswers
    <3>2. /\ data' \in DataType /\ data'.of = q.scope /\ data'.scope = q.scope
          /\ data'.page = q.page
      BY <1>0, <3>1 DEF Answered, HookType, DataType
    <3>3. /\ events' \in EventsType /\ ItemsOwn(events')
          /\ Active(events', scope).page = place
      BY <1>0, <3>1, <3>2, PageArrivesKeeps
    <3>4. q.scope = scope /\ q.page = place
      BY <1>6, <2>0, <2>1 DEF MonitoringInv, Awaits
    <3> QED BY <1>0, <1>6, <2>0, <2>1, <3>2, <3>3, <3>4 DEF MonitoringInv, HookType
  <2>2. CASE ~IsCurrent(q)
    <3>1. UNCHANGED <<data, events>>  BY <1>7, <2>2 DEF QueryAnswers
    <3> QED BY <1>6, <2>0, <2>2, <3>1 DEF MonitoringInv, HookType, Awaits
  <2> QED BY <2>1, <2>2
<1>8. ASSUME NEW q \in queries, QueryFails(q) PROVE MonitoringInv'
  <2>0. QueryEnds(q) /\ UNCHANGED data /\ failed' = (failed \/ IsCurrent(q))
    BY <1>8 DEF QueryFails
  <2>1. CASE IsCurrent(q)
    <3>1. events' = [events EXCEPT !.loadingMore = FALSE] /\ failed' = TRUE
      BY <1>8, <2>1 DEF QueryFails
    <3>2. events' \in EventsType /\ ItemsOwn(events')
      BY <1>0, <3>1 DEF EventsType, ItemsOwn
    <3> QED BY <1>0, <1>6, <2>0, <2>1, <3>1, <3>2 DEF MonitoringInv, HookType
  <2>2. CASE ~IsCurrent(q)
    <3>1. UNCHANGED <<events>> /\ failed' = failed
      BY <1>0, <1>8, <2>0, <2>2 DEF QueryFails, HookType
    <3> QED BY <1>6, <2>0, <2>2, <3>1 DEF MonitoringInv, HookType, Awaits
  <2> QED BY <2>1, <2>2
<1>9. CASE UNCHANGED monitoringVars
  BY <1>9 DEF monitoringVars, MonitoringInv, HookType, QueriesOK, Awaits
<1> QED BY <1>2, <1>3, <1>4, <1>5, <1>7, <1>8, <1>9 DEF MonitoringNext

LEMMA MonitoringTypes == ASSUME MonitoringInv PROVE MonitoringTypeOK
BY DEF MonitoringInv, MonitoringTypeOK, HookType, DataType, EventsType

\* The state of the monitoring centre has its type.
THEOREM MonitoringTyped == MonitoringSpec => []MonitoringTypeOK
BY MonitoringTypes, MonitoringInitOK, MonitoringStep, PTL DEF MonitoringSpec

\* The events listed are of the filter that is set, and a page that shows
\* neither loading nor an error shows the answer to that filter at that place,
\* for any number of requests under way and in whatever order they are answered
\* (useMonitoringAnalytics and the events page of MonitoringCenterPage.tsx).
THEOREM RowsAnswer == MonitoringSpec => []RowsAnswerTheFilter
<1>1. MonitoringInv => RowsAnswerTheFilter
  <2> SUFFICES ASSUME MonitoringInv PROVE RowsAnswerTheFilter
    OBVIOUS
  <2>1. Active(events, scope).scope = scope /\ ItemsOwn(Active(events, scope))
    BY ActiveKeeps DEF MonitoringInv
  <2> QED BY <2>1 DEF MonitoringInv, RowsAnswerTheFilter, ItemsOwn
<1> QED BY <1>1, MonitoringInitOK, MonitoringStep, PTL DEF MonitoringSpec

(***************************************************************************)
(* The logs page.  The buffer is one stretch of the log because the answer *)
(* to a poll goes on where the buffer ends: between its last line and the  *)
(* position asked from CPA holds no line, and between that position and    *)
(* the first line of the answer none either, unless the answer fills the   *)
(* buffer by itself.  Lines that are written and clears leave that true.   *)
(* A reload starts over, so that it may find the buffer without a          *)
(* position; if it fails, the lines it leaves are adrift.                  *)
(***************************************************************************)

LogType == {l \in [first : 1 .. MaxLines + 1, last : 0 .. MaxLines] : l.first <= l.last + 1}
LoadType ==
    [kind : {"none", "full", "poll"}, after : Positions, served : BOOLEAN,
     lines : Seq(1 .. MaxLines), next : Positions, reset : BOOLEAN]

\* The log l holds no line after a up to b.
Clean(l, a, b) == \A line \in l.first .. l.last : line <= a \/ line > b
\* Nor one between two neighbours of s.
Stretch(l, s) ==
    \A i \in 1 .. Len(s) - 1 : s[i] < s[i + 1] /\ Clean(l, s[i], s[i + 1] - 1)
\* Position p is where the lines b end.
Meets(l, b, p) ==
    b # <<>> => p # NoPosition /\ b[Len(b)] <= p /\ Clean(l, b[Len(b)], p)
Consecutive(s) == \A i \in 1 .. Len(s) - 1 : s[i + 1] = s[i] + 1
Follows(l, p, s, next) ==
    IF s = <<>> THEN next # NoPosition => p <= next /\ Clean(l, p, next)
    ELSE p < s[1] /\ (Len(s) = Buffered \/ Clean(l, p, s[1] - 1))
\* What the answer r to a request from p has to do with the log.
Reply(l, c, p, r) ==
    /\ r.lines \in Seq(1 .. l.last) /\ Len(r.lines) <= Buffered /\ Consecutive(r.lines)
    /\ r.next \in NoPosition .. l.last
    /\ r.lines # <<>> => r.lines[Len(r.lines)] = r.next
    /\ r.next = NoPosition => ~c /\ r.lines = <<>>
    /\ p # NoPosition /\ ~r.reset => Follows(l, p, r.lines, r.next)

\* The buffer b is a stretch, and what goes on from it goes on where it ends:
\* the next poll, or the poll under way, or nothing before it has been replaced.
Placed(l, b, p, ld, full) ==
    /\ Stretch(l, b)
    /\ ld.kind = "none" => Meets(l, b, p)
    /\ ld.kind = "full" => p = NoPosition \/ Meets(l, b, p)
    /\ ld.kind = "poll" =>
          /\ Meets(l, b, ld.after)
          /\ p = ld.after \/ b = <<>> \/ (full /\ p = NoPosition)

LogsInv ==
    /\ cursors \in BOOLEAN /\ logsTab \in BOOLEAN /\ pendingFull \in BOOLEAN /\ adrift \in BOOLEAN
    /\ clear \in {"none", "sent", "served"}
    /\ log \in LogType
    /\ buffer \in Seq(1 .. log.last) /\ Len(buffer) <= Buffered
    /\ position \in NoPosition .. log.last
    /\ load \in LoadType /\ load.after \in NoPosition .. log.last
    /\ load.kind = "none" => ~load.served /\ ~pendingFull
    /\ load.kind = "full" => load.after = NoPosition
    /\ load.served => Reply(log, cursors, load.after, load)
    /\ ~adrift => Placed(log, buffer, position, load, pendingFull)

LEMMA LogTypes ==
    ASSUME NEW l \in LogType
    PROVE  /\ l.first \in Nat \ {0} /\ l.last \in Nat /\ l.first <= l.last + 1
           /\ l.last <= MaxLines /\ NoPosition \in Int /\ Buffered \in Nat /\ MaxLines \in Nat
           /\ 0 < Buffered
BY LogsAssumption DEF LogType, NoPosition

LEMMA Widen ==
    ASSUME NEW m \in Nat, NEW n \in Nat, m <= n, NEW s \in Seq(1 .. m)
    PROVE  s \in Seq(1 .. n)
<1>1. 1 .. m \subseteq 1 .. n
  OBVIOUS
<1>2. s \in [1 .. Len(s) -> 1 .. n] /\ Len(s) \in Nat  BY <1>1, LenProperties
<1> QED BY <1>2

\* The newest lines are the last ones, each shifted by as much.
Cut(s) == Len(s) - Len(Newest(s))

LEMMA NewestIs ==
    ASSUME NEW n \in Nat, NEW s \in Seq(1 .. n)
    PROVE  /\ Newest(s) \in Seq(1 .. n) /\ Len(Newest(s)) <= Buffered
           /\ Len(s) <= Buffered => Newest(s) = s
           /\ Len(s) > Buffered => Len(Newest(s)) = Buffered
           /\ Cut(s) \in Nat /\ \A i \in 1 .. Len(Newest(s)) : Newest(s)[i] = s[i + Cut(s)]
<1>0. Len(s) \in Nat /\ Buffered \in Nat \ {0}  BY LogsAssumption
<1>1. CASE Len(s) <= Buffered
  <2>1. Newest(s) = s  BY <1>1 DEF Newest
  <2>2. Cut(s) = 0  BY <1>0, <2>1 DEF Cut
  <2>3. \A i \in 1 .. Len(s) : i + 0 = i
    BY <1>0
  <2> QED BY <1>0, <1>1, <2>1, <2>2, <2>3
<1>2. CASE Len(s) > Buffered
  <2> DEFINE k == Len(s) - Buffered + 1
             t == SubSeq(s, k, Len(s))
  <2>1. k \in Int /\ 1 <= k /\ k <= Len(s) /\ Len(s) - k + 1 = Buffered
    BY <1>0, <1>2
  <2>2. \A i \in k .. Len(s) : s[i] \in 1 .. n
    BY <2>1, ElementOfSeq
  <2>3. Newest(s) = t
    <3>1. ~(Len(s) <= Buffered)  BY <1>0, <1>2
    <3> QED BY <3>1 DEF Newest
  <2>4. /\ t \in Seq(1 .. n) /\ Len(t) = (IF k <= Len(s) THEN Len(s) - k + 1 ELSE 0)
        /\ \A i \in 1 .. Len(s) - k + 1 : t[i] = s[k + i - 1]
    <3> HIDE DEF k
    <3> QED BY <1>0, <2>1, <2>2, SubSeqProperties
  <2>5. Len(t) = Buffered  BY <2>1, <2>4
  <2>6. Cut(s) = Len(s) - Buffered  BY <2>3, <2>5 DEF Cut
  <2>7. \A i \in 1 .. Buffered : k + i - 1 = i + Cut(s)
    BY <1>0, <2>6
  <2>8. Cut(s) \in Nat  BY <1>0, <1>2, <2>6
  <2> HIDE DEF k, t
  <2>9. \A i \in 1 .. Buffered : t[i] = s[i + Cut(s)]
    BY <2>1, <2>4, <2>7
  <2> QED BY <1>0, <1>2, <2>3, <2>4, <2>5, <2>8, <2>9
<1> QED BY <1>0, <1>1, <1>2

LEMMA LinesAre ==
    ASSUME NEW a \in Nat \ {0}, NEW b \in Nat
    PROVE  /\ Lines(a, b) \in Seq(1 .. b)
           /\ b < a => Lines(a, b) = <<>> /\ Len(Lines(a, b)) = 0
           /\ a <= b => Len(Lines(a, b)) = b - a + 1
           /\ \A i \in 1 .. Len(Lines(a, b)) : Lines(a, b)[i] = a + i - 1
<1>1. CASE b < a
  <2>1. Lines(a, b) = [i \in 1 .. 0 |-> a + i - 1]  BY <1>1 DEF Lines
  <2>2. 1 .. 0 = {}
    OBVIOUS
  <2>3. Lines(a, b) = <<>>  BY <2>1, <2>2
  <2> QED BY <1>1, <2>3, EmptySeq
<1>2. CASE a <= b
  <2> DEFINE m == b - a + 1
  <2>1. m \in Nat /\ \A i \in 1 .. m : a + i - 1 \in 1 .. b
    BY <1>2
  <2>2. Lines(a, b) = [i \in 1 .. m |-> a + i - 1]  BY <1>2 DEF Lines
  <2> HIDE DEF m
  <2>3. Lines(a, b) \in [1 .. m -> 1 .. b]  BY <2>1, <2>2
  <2>4. Lines(a, b) \in Seq(1 .. b) /\ Len(Lines(a, b)) = m  BY <2>1, <2>2, <2>3
  <2> QED BY <1>2, <2>1, <2>2, <2>4 DEF m
<1> QED BY <1>1, <1>2

LEMMA NewestStretch ==
    ASSUME NEW n \in Nat, NEW s \in Seq(1 .. n), NEW l,
           \A i \in Cut(s) + 1 .. Len(s) - 1 : s[i] < s[i + 1] /\ Clean(l, s[i], s[i + 1] - 1)
    PROVE  /\ Stretch(l, Newest(s))
           /\ Newest(s) # <<>> => Newest(s)[Len(Newest(s))] = s[Len(s)]
<1> DEFINE t == Newest(s)
           k == Cut(s)
<1>1. /\ t \in Seq(1 .. n) /\ k \in Nat /\ Len(t) \in Nat /\ Len(s) \in Nat /\ Len(s) = Len(t) + k
      /\ \A i \in 1 .. Len(t) : t[i] = s[i + k]
  BY NewestIs DEF Cut
<1>2. t # <<>> => Len(t) \in 1 .. Len(t)  BY <1>1
<1> HIDE DEF t, k
<1>3. Stretch(l, t)
  <2> SUFFICES ASSUME NEW i \in 1 .. Len(t) - 1
               PROVE  t[i] < t[i + 1] /\ Clean(l, t[i], t[i + 1] - 1)
    BY DEF Stretch
  <2>1. /\ i \in 1 .. Len(t) /\ i + 1 \in 1 .. Len(t) /\ i + k \in k + 1 .. Len(s) - 1
        /\ (i + 1) + k = (i + k) + 1
    BY <1>1
  <2>2. t[i] = s[i + k] /\ t[i + 1] = s[(i + k) + 1]  BY <1>1, <2>1
  <2>3. s[i + k] < s[(i + k) + 1] /\ Clean(l, s[i + k], s[(i + k) + 1] - 1)
    BY <2>1 DEF k
  <2> QED BY <2>2, <2>3
<1>4. t # <<>> => t[Len(t)] = s[Len(s)]
  BY <1>1, <1>2
<1> QED BY <1>3, <1>4 DEF t

\* CPA's answer to a request is one stretch that goes on from its position.
LEMMA RepliesAre ==
    ASSUME cursors \in BOOLEAN, log \in LogType,
           NEW p \in NoPosition .. log.last, NEW r \in LogReplies(p)
    PROVE  Reply(log, cursors, p, r) /\ r.reset \in BOOLEAN
<1> DEFINE since == IF p = NoPosition \/ (cursors /\ ~CursorHolds(p)) THEN log.first
                    ELSE IF p < log.first THEN log.first ELSE p + 1
           all == Lines(since, log.last)
<1>0. /\ log.first \in Nat \ {0} /\ log.last \in Nat /\ log.first <= log.last + 1
      /\ Buffered \in Nat \ {0} /\ NoPosition = -1 /\ p \in Int
  BY LogTypes DEF NoPosition
<1>1. since \in Nat \ {0} /\ since >= log.first /\ since <= log.last + 1
  BY <1>0
<1>2. /\ r.lines = Newest(all) /\ r.reset = (cursors /\ p # NoPosition /\ ~CursorHolds(p))
      /\ r.next \in IF cursors THEN {log.last}
                    ELSE IF r.lines # <<>> THEN {log.last}
                    ELSE IF log.first > log.last THEN {NoPosition} ELSE {log.last, NoPosition}
  BY DEF LogReplies
<1>3. /\ p # NoPosition /\ ~r.reset => p < since
      /\ p # NoPosition /\ ~r.reset /\ p < log.first => since = log.first
      /\ p # NoPosition /\ ~r.reset /\ p >= log.first => since = p + 1
      /\ r.reset \in BOOLEAN
  <2>1. CursorHolds(p) => p >= log.first  BY <1>0 DEF CursorHolds
  <2> QED BY <1>0, <1>2, <2>1
<1> HIDE DEF since
<1>4. /\ all \in Seq(1 .. log.last) /\ Len(all) \in Nat
      /\ log.last < since => all = <<>> /\ Len(all) = 0
      /\ since <= log.last => Len(all) = log.last - since + 1
      /\ \A i \in 1 .. Len(all) : all[i] = since + i - 1
  <2>1. Len(Lines(since, log.last)) \in Nat  BY <1>0, <1>1, LinesAre, LenProperties
  <2> QED BY <1>0, <1>1, <2>1, LinesAre
<1> HIDE DEF all
<1>5. /\ r.lines \in Seq(1 .. log.last) /\ Len(r.lines) <= Buffered /\ Len(r.lines) \in Nat
      /\ Cut(all) \in Nat /\ Len(r.lines) = Len(all) - Cut(all)
      /\ \A i \in 1 .. Len(r.lines) : r.lines[i] = since + (i + Cut(all)) - 1
      /\ Len(r.lines) # Buffered => Cut(all) = 0 /\ r.lines = all
      /\ all = <<>> => r.lines = <<>>
  <2>1. /\ r.lines \in Seq(1 .. log.last) /\ Len(r.lines) <= Buffered
        /\ Cut(all) \in Nat /\ Len(r.lines) = Len(all) - Cut(all) /\ Len(r.lines) \in Nat
        /\ \A i \in 1 .. Len(r.lines) : r.lines[i] = all[i + Cut(all)]
        /\ Len(r.lines) # Buffered => r.lines = all
    BY <1>0, <1>2, <1>4, NewestIs DEF Cut
  <2>2. \A i \in 1 .. Len(r.lines) : i + Cut(all) \in 1 .. Len(all)
    BY <1>4, <2>1
  <2>3. all = <<>> => r.lines = <<>>
    <3>1. all = <<>> => Len(r.lines) = 0  BY <1>4, <2>1
    <3> QED BY <2>1, <3>1, EmptySeq
  <2>4. r.lines = all => Cut(all) = 0
    BY <1>4, <2>1
  <2> QED BY <1>4, <2>1, <2>2, <2>3, <2>4
<1>6. Consecutive(r.lines)
  <2> SUFFICES ASSUME NEW i \in 1 .. Len(r.lines) - 1 PROVE r.lines[i + 1] = r.lines[i] + 1
    BY DEF Consecutive
  <2>1. i \in 1 .. Len(r.lines) /\ i + 1 \in 1 .. Len(r.lines)
    BY <1>5
  <2>2. /\ r.lines[i] = since + (i + Cut(all)) - 1
        /\ r.lines[i + 1] = since + ((i + 1) + Cut(all)) - 1
    BY <1>5, <2>1
  <2> QED BY <1>1, <1>5, <2>2
<1>7. r.lines # <<>> => Len(r.lines) \in 1 .. Len(r.lines) /\ since <= log.last
                        /\ r.lines[Len(r.lines)] = log.last /\ r.next = log.last
  <2> SUFFICES ASSUME r.lines # <<>>
               PROVE  Len(r.lines) \in 1 .. Len(r.lines) /\ since <= log.last
                      /\ r.lines[Len(r.lines)] = log.last /\ r.next = log.last
    OBVIOUS
  <2>1. Len(r.lines) \in 1 .. Len(r.lines)  BY <1>5
  <2>2. since <= log.last  BY <1>0, <1>1, <1>4, <1>5
  <2>3. r.lines[Len(r.lines)] = since + (Len(r.lines) + Cut(all)) - 1  BY <1>5, <2>1
  <2>4. Len(all) = log.last - since + 1  BY <1>4, <2>2
  <2>5. since + (Len(r.lines) + Cut(all)) - 1 = log.last
    BY <1>0, <1>1, <1>4, <1>5, <2>4
  <2> QED BY <1>2, <2>1, <2>2, <2>3, <2>5
<1>8. /\ r.next \in NoPosition .. log.last /\ r.next \in {log.last, NoPosition}
      /\ r.next = NoPosition => ~cursors /\ r.lines = <<>>
  BY <1>0, <1>2
<1>9. ASSUME p # NoPosition, ~r.reset PROVE Follows(log, p, r.lines, r.next)
  <2>1. CASE r.lines = <<>>
    <3>1. log.last < since
      <4>1. Len(r.lines) = 0  BY <2>1
      <4>2. Len(all) = 0  BY <1>0, <1>5, <4>1
      <4> QED BY <1>0, <1>1, <1>4, <4>2
    <3>2. r.next # NoPosition => p <= r.next /\ Clean(log, p, r.next)
      BY <1>0, <1>3, <1>8, <1>9, <3>1 DEF Clean
    <3> QED BY <2>1, <3>2 DEF Follows
  <2>2. CASE r.lines # <<>>
    <3>1. 1 \in 1 .. Len(r.lines)  BY <1>5, <1>7, <2>2
    <3>2. r.lines[1] = since + (1 + Cut(all)) - 1  BY <1>5, <3>1
    <3>3. r.lines[1] = since + Cut(all)  BY <1>1, <1>5, <3>2
    <3>4. p < r.lines[1]  BY <1>0, <1>1, <1>3, <1>5, <1>9, <3>3
    <3>5. Len(r.lines) # Buffered => Clean(log, p, r.lines[1] - 1)
      <4>1. Len(r.lines) # Buffered => r.lines[1] = since  BY <1>1, <1>5, <3>3
      <4>2. \A line \in log.first .. log.last : line <= p \/ line >= since
        BY <1>0, <1>1, <1>3, <1>9
      <4> QED BY <1>0, <1>1, <4>1, <4>2 DEF Clean
    <3> QED BY <2>2, <3>4, <3>5 DEF Follows
  <2> QED BY <2>1, <2>2
<1> QED BY <1>3, <1>5, <1>6, <1>7, <1>8, <1>9 DEF Reply

LEMMA Places ==
    ASSUME NEW m \in Nat \ {0}, NEW n \in Nat \ {0}, NEW c \in Nat, NEW i \in c + 1 .. (m + n) - 1
    PROVE  /\ i \in Nat /\ i > c /\ i \in 1 .. m + n /\ i + 1 \in 1 .. m + n
           /\ i < m => i \in 1 .. m - 1 /\ i <= m /\ i + 1 <= m
           /\ i = m => i <= m /\ ~(i + 1 <= m) /\ (i + 1) - m = 1
           /\ i > m => /\ i - m \in 1 .. n - 1 /\ (i + 1) - m = (i - m) + 1
                       /\ ~(i <= m) /\ ~(i + 1 <= m)
OBVIOUS

\* Two stretches, the second of which goes on from the first, or fills a buffer.
LEMMA JoinStretch ==
    ASSUME NEW n \in Nat, NEW s \in Seq(1 .. n), NEW t \in Seq(1 .. n), NEW l,
           s # <<>>, t # <<>>, Stretch(l, s), Stretch(l, t), Len(t) <= Buffered,
           s[Len(s)] < t[1], Len(t) = Buffered \/ Clean(l, s[Len(s)], t[1] - 1)
    PROVE  /\ Newest(s \o t) \in Seq(1 .. n) /\ Len(Newest(s \o t)) <= Buffered
           /\ Stretch(l, Newest(s \o t))
           /\ Newest(s \o t) # <<>> => Newest(s \o t)[Len(Newest(s \o t))] = t[Len(t)]
<1> DEFINE all == s \o t
<1>1. /\ Len(s) \in Nat \ {0} /\ Len(t) \in Nat \ {0} /\ Buffered \in Nat
      /\ all \in Seq(1 .. n) /\ Len(all) = Len(s) + Len(t)
  BY ConcatProperties, EmptySeq, LogsAssumption
<1>0. \A i \in 1 .. Len(s) + Len(t) : all[i] = IF i <= Len(s) THEN s[i] ELSE t[i - Len(s)]
  BY ConcatProperties
<1> HIDE DEF all
<1>2. /\ Newest(all) \in Seq(1 .. n) /\ Len(Newest(all)) <= Buffered
      /\ Len(Newest(all)) \in Nat /\ Cut(all) = Len(all) - Len(Newest(all)) /\ Cut(all) \in Nat
  BY <1>1, NewestIs, LenProperties DEF Cut
<1>3. Len(t) = Buffered => Cut(all) >= Len(s)
  BY <1>1, <1>2
<1>4. ASSUME NEW i \in Cut(all) + 1 .. Len(all) - 1
      PROVE  all[i] < all[i + 1] /\ Clean(l, all[i], all[i + 1] - 1)
  <2>0. /\ i \in Nat /\ i > Cut(all) /\ i \in 1 .. Len(s) + Len(t) /\ i + 1 \in 1 .. Len(s) + Len(t)
        /\ i < Len(s) => i \in 1 .. Len(s) - 1 /\ i <= Len(s) /\ i + 1 <= Len(s)
        /\ i = Len(s) => i <= Len(s) /\ ~(i + 1 <= Len(s)) /\ (i + 1) - Len(s) = 1
        /\ i > Len(s) => /\ i - Len(s) \in 1 .. Len(t) - 1 /\ (i + 1) - Len(s) = (i - Len(s)) + 1
                         /\ ~(i <= Len(s)) /\ ~(i + 1 <= Len(s))
    BY <1>1, <1>2, Places
  <2>1. CASE i < Len(s)
    <3>1. i \in 1 .. Len(s) - 1 /\ i <= Len(s) /\ i + 1 <= Len(s)  BY <2>0, <2>1
    <3>2. all[i] = s[i] /\ all[i + 1] = s[i + 1]
      BY <1>0, <2>0, <3>1
    <3> QED BY <3>1, <3>2 DEF Stretch
  <2>2. CASE i = Len(s)
    <3>1. i <= Len(s) /\ ~(i + 1 <= Len(s)) /\ (i + 1) - Len(s) = 1  BY <2>0, <2>2
    <3>2. all[i] = s[Len(s)] /\ all[i + 1] = t[1]
      BY <1>0, <2>0, <2>2, <3>1
    <3>3. Len(t) # Buffered  BY <1>1, <1>2, <1>3, <2>0, <2>2
    <3> QED BY <3>2, <3>3
  <2>3. CASE i > Len(s)
    <3>1. /\ i - Len(s) \in 1 .. Len(t) - 1 /\ (i + 1) - Len(s) = (i - Len(s)) + 1
          /\ ~(i <= Len(s)) /\ ~(i + 1 <= Len(s))
      BY <2>0, <2>3
    <3>2. all[i] = t[i - Len(s)] /\ all[i + 1] = t[(i + 1) - Len(s)]
      BY <1>0, <2>0, <3>1
    <3>3. all[i] = t[i - Len(s)] /\ all[i + 1] = t[(i - Len(s)) + 1]
      BY <3>1, <3>2
    <3> QED BY <3>1, <3>3 DEF Stretch
  <2> QED BY <1>1, <2>0, <2>1, <2>2, <2>3
<1>5. all[Len(all)] = t[Len(t)]
  <2>1. /\ Len(all) \in 1 .. Len(s) + Len(t) /\ ~(Len(all) <= Len(s))
        /\ Len(all) - Len(s) = Len(t)
    BY <1>1
  <2> QED BY <1>0, <2>1
<1>6. /\ Stretch(l, Newest(all))
      /\ Newest(all) # <<>> => Newest(all)[Len(Newest(all))] = all[Len(all)]
  BY <1>1, <1>4, NewestStretch
<1> QED BY <1>2, <1>5, <1>6 DEF all

\* What the answer that has come makes of the buffer and of the position.
LEMMA BufferGoesOn ==
    ASSUME LogsInv, load.served
    PROVE  /\ Extended \in Seq(1 .. log.last) /\ Len(Extended) <= Buffered
           /\ NextPosition \in NoPosition .. log.last
           /\ ~(adrift /\ load.kind = "poll" /\ ~load.reset) =>
                /\ Stretch(log, Extended)
                /\ Meets(log, Extended, NextPosition) \/ (pendingFull /\ NextPosition = NoPosition)
<1> DEFINE new == load.lines
<1>0. /\ log \in LogType /\ Reply(log, cursors, load.after, load) /\ load.kind \in {"full", "poll"}
      /\ load.after \in NoPosition .. log.last /\ load.reset \in BOOLEAN
      /\ cursors \in BOOLEAN
  BY DEF LogsInv, LoadType
<1>1. /\ log.first \in Nat \ {0} /\ log.last \in Nat /\ Buffered \in Nat \ {0} /\ NoPosition = -1
      /\ load.next \in Int /\ load.after \in Int /\ position \in NoPosition .. log.last
      /\ buffer \in Seq(1 .. log.last) /\ Len(buffer) \in Nat /\ Len(buffer) <= Buffered
      /\ new \in Seq(1 .. log.last) /\ Len(new) \in Nat /\ Len(new) <= Buffered
      /\ load.next \in NoPosition .. log.last
  <2>1. log.first \in Nat \ {0} /\ log.last \in Nat /\ Buffered \in Nat \ {0} /\ NoPosition = -1
    BY <1>0, LogTypes DEF NoPosition
  <2>2. load.next \in NoPosition .. log.last /\ new \in Seq(1 .. log.last) /\ Len(new) <= Buffered
    BY <1>0 DEF Reply
  <2>3. Len(new) \in Nat /\ Len(buffer) \in Nat  BY <2>2, LenProperties DEF LogsInv
  <2> QED BY <1>0, <2>1, <2>2, <2>3 DEF LogsInv
<1>2. /\ \A i \in 1 .. Len(new) : new[i] \in 1 .. log.last
      /\ \A i \in 1 .. Len(buffer) : buffer[i] \in 1 .. log.last
  BY <1>1, ElementOfSeq
<1>3. NextPosition \in NoPosition .. log.last
  BY <1>1 DEF NextPosition
<1>4. Stretch(log, new)
  <2> SUFFICES ASSUME NEW i \in 1 .. Len(new) - 1
               PROVE  new[i] < new[i + 1] /\ Clean(log, new[i], new[i + 1] - 1)
    BY DEF Stretch
  <2>1. new[i + 1] = new[i] + 1  BY <1>0 DEF Reply, Consecutive
  <2>2. new[i] \in Int
    <3>1. i \in 1 .. Len(new)  BY <1>1
    <3> QED BY <1>1, <1>2, <3>1
  <2> HIDE DEF new
  <2> QED BY <1>1, <2>1, <2>2 DEF Clean
<1>5. new # <<>> =>
        /\ Len(new) \in 1 .. Len(new) /\ new[Len(new)] = load.next /\ load.next # NoPosition
        /\ NextPosition = load.next /\ load.next \in Int
  <2> SUFFICES ASSUME new # <<>>
               PROVE  /\ Len(new) \in 1 .. Len(new) /\ new[Len(new)] = load.next
                      /\ load.next # NoPosition
                      /\ NextPosition = load.next /\ load.next \in Int
    OBVIOUS
  <2>1. Len(new) \in 1 .. Len(new)  BY <1>1
  <2>2. new[Len(new)] = load.next  BY <1>0 DEF Reply
  <2>3. load.next # NoPosition  BY <1>1, <1>2, <2>1, <2>2
  <2> QED BY <1>1, <2>1, <2>2, <2>3 DEF NextPosition
<1>6. \A s \in Seq(1 .. log.last) : s # <<>> /\ s[Len(s)] = load.next /\ new # <<>>
                                       => Meets(log, s, NextPosition)
  BY <1>1, <1>5 DEF Meets, Clean
<1>7. CASE load.kind = "full" \/ load.reset
  <2>1. Extended = new  BY <1>1, <1>7, NewestIs DEF Extended
  <2>2. Meets(log, new, NextPosition)  BY <1>1, <1>5, <1>6 DEF Meets
  <2> QED BY <1>1, <1>3, <1>4, <2>1, <2>2
<1>9. CASE load.kind = "poll" /\ ~load.reset /\ adrift
  <2>1. buffer \o new \in Seq(1 .. log.last)  BY <1>1, ConcatProperties
  <2>2. Extended = Newest(buffer \o new)  BY <1>9 DEF Extended
  <2>3. Extended \in Seq(1 .. log.last) /\ Len(Extended) <= Buffered
    BY <1>1, <2>1, <2>2, NewestIs
  <2> QED BY <1>3, <1>9, <2>3
<1>8. CASE load.kind = "poll" /\ ~load.reset /\ ~adrift
  <2> DEFINE all == buffer \o new
  <2>0. /\ Meets(log, buffer, load.after) /\ Stretch(log, buffer)
        /\ position = load.after \/ buffer = <<>> \/ (pendingFull /\ position = NoPosition)
    BY <1>8 DEF LogsInv, Placed
  <2>1. Extended = Newest(all)  BY <1>8 DEF Extended
  <2>2. CASE buffer = <<>>
    <3>1. Extended = new  BY <1>1, <2>1, <2>2, ConcatEmptySeq, NewestIs
    <3>2. Meets(log, new, NextPosition)  BY <1>1, <1>5, <1>6 DEF Meets
    <3> QED BY <1>1, <1>3, <1>4, <3>1, <3>2
  <2>3. CASE buffer # <<>> /\ new = <<>>
    <3>1. Extended = buffer  BY <1>1, <2>1, <2>3, ConcatEmptySeq, NewestIs
    <3>2. /\ load.after # NoPosition /\ buffer[Len(buffer)] <= load.after
          /\ Clean(log, buffer[Len(buffer)], load.after)
          /\ buffer[Len(buffer)] \in Int
      <4>1. Len(buffer) \in 1 .. Len(buffer)  BY <1>1, <2>3
      <4> QED BY <1>1, <1>2, <2>0, <2>3, <4>1 DEF Meets
    <3>3. load.next # NoPosition => load.after <= load.next /\ Clean(log, load.after, load.next)
      BY <1>0, <1>8, <2>3, <3>2 DEF Reply, Follows
    <3>4. CASE load.next # NoPosition
      <4>1. NextPosition = load.next  BY <3>4 DEF NextPosition
      <4>2. Meets(log, buffer, load.next)
        BY <1>1, <3>2, <3>3, <3>4 DEF Meets, Clean
      <4> QED BY <1>3, <2>0, <3>1, <4>1, <4>2 DEF LogsInv
    <3>5. CASE load.next = NoPosition
      <4>1. NextPosition = position  BY <1>0, <1>8, <3>5 DEF NextPosition, Reply
      <4>2. Meets(log, buffer, position) \/ (pendingFull /\ position = NoPosition)
        BY <2>0, <2>3
      <4> QED BY <1>3, <2>0, <3>1, <4>1, <4>2 DEF LogsInv
    <3> QED BY <3>4, <3>5
  <2>4. CASE buffer # <<>> /\ new # <<>>
    <3> DEFINE m == Len(buffer)
    <3>1. /\ load.after # NoPosition /\ buffer[m] <= load.after
          /\ Clean(log, buffer[m], load.after)
      BY <2>0, <2>4 DEF Meets
    <3>2. load.after < new[1] /\ (Len(new) = Buffered \/ Clean(log, load.after, new[1] - 1))
      BY <1>0, <1>8, <2>4, <3>1 DEF Reply, Follows
    <3>3. /\ m \in 1 .. m /\ 1 \in 1 .. Len(new) /\ m \in Nat
          /\ buffer[m] \in Int /\ new[1] \in Int
      <4>1. m \in 1 .. m /\ 1 \in 1 .. Len(new)  BY <1>1, <2>4
      <4> QED BY <1>1, <1>2, <4>1
    <3>4. buffer[m] < new[1] /\ (Len(new) = Buffered \/ Clean(log, buffer[m], new[1] - 1))
      BY <1>1, <3>1, <3>2, <3>3 DEF Clean
    <3>6. /\ Newest(all) \in Seq(1 .. log.last) /\ Len(Newest(all)) <= Buffered
          /\ Newest(all) # <<>> => Newest(all)[Len(Newest(all))] = load.next
          /\ Stretch(log, Newest(all))
      BY <1>1, <1>4, <1>5, <2>0, <2>4, <3>4, JoinStretch
    <3> HIDE DEF all, m
    <3>7. Meets(log, Newest(all), NextPosition)
      BY <1>6, <2>4, <3>6 DEF Meets
    <3> QED BY <1>3, <2>1, <3>6, <3>7
  <2> QED BY <2>2, <2>3, <2>4
<1> QED BY <1>0, <1>7, <1>8, <1>9

\* A line that is written, and a clear, undo nothing of this.
LEMMA LogMovesOn ==
    ASSUME NEW l \in LogType, NEW m \in LogType, l.first <= m.first, l.last <= m.last
    PROVE  /\ \A a \in Int : \A b \in Int : b <= l.last /\ Clean(l, a, b) => Clean(m, a, b)
           /\ \A s \in Seq(1 .. l.last) :
                s \in Seq(1 .. m.last) /\ (Stretch(l, s) => Stretch(m, s))
           /\ \A s \in Seq(1 .. l.last) : \A p \in NoPosition .. l.last :
                Meets(l, s, p) => Meets(m, s, p)
<1>0. /\ l.first \in Nat /\ l.last \in Nat /\ m.first \in Nat /\ m.last \in Nat /\ NoPosition = -1
  BY LogTypes DEF NoPosition
<1>1. ASSUME NEW a \in Int, NEW b \in Int, b <= l.last, Clean(l, a, b) PROVE Clean(m, a, b)
  BY <1>0, <1>1 DEF Clean
<1>2. ASSUME NEW s \in Seq(1 .. l.last)
      PROVE  s \in Seq(1 .. m.last) /\ (Stretch(l, s) => Stretch(m, s))
  <2>1. s \in Seq(1 .. m.last)  BY <1>0, Widen
  <2>2. ASSUME Stretch(l, s), NEW i \in 1 .. Len(s) - 1
        PROVE  s[i] < s[i + 1] /\ Clean(m, s[i], s[i + 1] - 1)
    <3>1. s[i] < s[i + 1] /\ Clean(l, s[i], s[i + 1] - 1)  BY <2>2 DEF Stretch
    <3>2. s[i] \in 1 .. l.last /\ s[i + 1] \in 1 .. l.last
      <4>1. Len(s) \in Nat  BY LenProperties
      <4>2. i \in 1 .. Len(s) /\ i + 1 \in 1 .. Len(s)  BY <4>1
      <4> QED BY <4>2, ElementOfSeq
    <3>3. s[i] \in Int /\ s[i + 1] - 1 \in Int /\ s[i + 1] - 1 <= l.last  BY <1>0, <3>2
    <3> QED BY <1>1, <3>1, <3>3
  <2> QED BY <2>1, <2>2 DEF Stretch
<1>3. ASSUME NEW s \in Seq(1 .. l.last), NEW p \in NoPosition .. l.last, Meets(l, s, p)
      PROVE  Meets(m, s, p)
  <2> SUFFICES ASSUME s # <<>>
               PROVE  p # NoPosition /\ s[Len(s)] <= p /\ Clean(m, s[Len(s)], p)
    BY DEF Meets
  <2>1. p # NoPosition /\ s[Len(s)] <= p /\ Clean(l, s[Len(s)], p)  BY <1>3 DEF Meets
  <2>2. Len(s) \in 1 .. Len(s)
    <3>1. Len(s) \in Nat \ {0}  BY EmptySeq
    <3> QED BY <3>1
  <2>3. s[Len(s)] \in 1 .. l.last  BY <2>2, ElementOfSeq
  <2>4. s[Len(s)] \in Int /\ p \in Int /\ p <= l.last  BY <1>0, <2>3
  <2> QED BY <1>1, <2>1, <2>4
<1> QED BY <1>1, <1>2, <1>3

LEMMA ReplyStands ==
    ASSUME NEW l \in LogType, NEW m \in LogType, l.first <= m.first, l.last <= m.last,
           NEW c, NEW p \in NoPosition .. l.last, NEW r, Reply(l, c, p, r)
    PROVE  Reply(m, c, p, r)
<1>0. /\ l.first \in Nat /\ l.last \in Nat /\ m.first \in Nat /\ m.last \in Nat /\ NoPosition = -1
  BY LogTypes DEF NoPosition
<1>1. /\ r.lines \in Seq(1 .. l.last) /\ r.lines \in Seq(1 .. m.last)
      /\ r.next \in NoPosition .. l.last /\ r.next \in NoPosition .. m.last
  <2>1. r.lines \in Seq(1 .. l.last) /\ r.next \in NoPosition .. l.last  BY DEF Reply
  <2>2. r.next \in NoPosition .. m.last  BY <1>0, <2>1
  <2> QED BY <2>1, <2>2, LogMovesOn
<1>2. ASSUME Follows(l, p, r.lines, r.next) PROVE Follows(m, p, r.lines, r.next)
  <2>1. CASE r.lines = <<>>
    <3>1. r.next \in Int /\ r.next <= l.last /\ p \in Int  BY <1>0, <1>1
    <3> QED BY <1>2, <2>1, <3>1, LogMovesOn DEF Follows
  <2>2. CASE r.lines # <<>>
    <3>1. Len(r.lines) \in Nat \ {0}  BY <1>1, <2>2, EmptySeq
    <3>2. 1 \in 1 .. Len(r.lines)  BY <3>1
    <3>3. r.lines[1] \in 1 .. l.last  BY <1>1, <3>2, ElementOfSeq
    <3>4. r.lines[1] - 1 \in Int /\ r.lines[1] - 1 <= l.last /\ p \in Int  BY <1>0, <3>3
    <3> QED BY <1>2, <2>2, <3>4, LogMovesOn DEF Follows
  <2> QED BY <2>1, <2>2
<1> QED BY <1>1, <1>2 DEF Reply

\* A request that is made.
LEMMA AskedIs ==
    ASSUME NEW kind \in {"full", "poll"}, NEW at
    PROVE  Asked(kind, at) =
             [kind |-> kind, after |-> IF kind = "full" THEN NoPosition ELSE at, served |-> FALSE,
              lines |-> <<>>, next |-> NoPosition, reset |-> FALSE]
<1> DEFINE after == IF kind = "full" THEN NoPosition ELSE at
           none == <<>>
<1>1. Asked(kind, at) = [Idle EXCEPT !.kind = kind, !.after = after]
  BY DEF Asked
<1>2. Idle = [kind |-> "none", after |-> NoPosition, served |-> FALSE, lines |-> none,
              next |-> NoPosition, reset |-> FALSE]
  BY DEF Idle
<1> HIDE DEF after, none
<1>3. Asked(kind, at) = [kind |-> kind, after |-> after, served |-> FALSE, lines |-> none,
                         next |-> NoPosition, reset |-> FALSE]
  BY <1>1, <1>2
<1> QED BY <1>3 DEF after, none

LEMMA LogsInitOK == LogsInit => LogsInv
<1> SUFFICES ASSUME LogsInit PROVE LogsInv
  OBVIOUS
<1>1. log = [first |-> 1, last |-> 0] /\ log \in LogType
  BY LogsAssumption DEF LogsInit, LogType
<1>2. /\ load = [kind |-> "full", after |-> NoPosition, served |-> FALSE, lines |-> <<>>,
                 next |-> NoPosition, reset |-> FALSE]
      /\ NoPosition \in Positions /\ NoPosition \in NoPosition .. 0 /\ <<>> \in Seq(1 .. MaxLines)
      /\ <<>> \in Seq(1 .. 0) /\ Len(<<>>) = 0
  <2>1. load = Asked("full", NoPosition)  BY DEF LogsInit
  <2> QED BY <2>1, AskedIs, LogsAssumption, EmptySeq DEF NoPosition, Positions
<1>3. load \in LoadType  BY <1>2 DEF LoadType
<1>4. Stretch(log, <<>>) /\ Len(<<>>) <= Buffered
  BY <1>2, LogsAssumption DEF Stretch
<1>5. /\ load.kind = "full" /\ load.after = NoPosition /\ ~load.served
      /\ NoPosition \in NoPosition .. log.last /\ buffer \in Seq(1 .. log.last)
  BY <1>1, <1>2 DEF LogsInit
<1>6. Placed(log, buffer, position, load, pendingFull)
  BY <1>1, <1>4, <1>5 DEF LogsInit, Placed
<1> QED BY <1>1, <1>3, <1>4, <1>5, <1>6 DEF LogsInit, LogsInv

LEMMA LogsStep ==
    ASSUME LogsInv, [LogsNext]_logsVars PROVE LogsInv'
<1>0. /\ log \in LogType /\ load \in LoadType /\ NoPosition = -1
      /\ log.first \in Nat \ {0} /\ log.last \in Nat /\ log.last <= MaxLines
      /\ MaxLines \in Nat /\ Buffered \in Nat /\ 0 < Buffered
      /\ position \in NoPosition .. log.last /\ position \in Positions
      /\ NoPosition \in Positions /\ NoPosition \in NoPosition .. log.last
      /\ NoPosition .. log.last \subseteq Positions
  <2>1. /\ log \in LogType /\ load \in LoadType /\ position \in NoPosition .. log.last
    BY DEF LogsInv
  <2>2. /\ NoPosition = -1 /\ log.first \in Nat \ {0} /\ log.last \in Nat /\ log.last <= MaxLines
        /\ MaxLines \in Nat /\ Buffered \in Nat /\ 0 < Buffered
    BY <2>1, LogTypes DEF NoPosition
  <2>3. NoPosition .. log.last \subseteq Positions /\ NoPosition \in NoPosition .. log.last
    BY <2>2 DEF Positions
  <2> QED BY <2>1, <2>2, <2>3
\* A request.
<1>1. ASSUME NEW kind \in {"full", "poll"}, NEW at \in NoPosition .. log.last
      PROVE  LET ld == Asked(kind, at) IN
             /\ ld \in LoadType /\ ld.kind = kind /\ ~ld.served
             /\ ld.after = IF kind = "full" THEN NoPosition ELSE at
             /\ ld.after \in NoPosition .. log.last
  <2> DEFINE after == IF kind = "full" THEN NoPosition ELSE at
  <2>1. Asked(kind, at) = [kind |-> kind, after |-> after, served |-> FALSE, lines |-> <<>>,
                           next |-> NoPosition, reset |-> FALSE]
    BY AskedIs
  <2>2. after \in NoPosition .. log.last /\ after \in Positions  BY <1>0
  <2>3. <<>> \in Seq(1 .. MaxLines)  BY EmptySeq
  <2> HIDE DEF after
  <2>4. Asked(kind, at) \in LoadType  BY <1>0, <2>1, <2>2, <2>3 DEF LoadType
  <2> QED BY <2>1, <2>2, <2>4 DEF after
<1>2. ASSUME NEW kind \in {"full", "poll"}, LoadLogs(kind, IF kind = "full" THEN NoPosition ELSE position),
             kind = "full" \/ position' = position, position' \in {NoPosition, position},
             UNCHANGED <<cursors, log, buffer, clear, adrift>>, logsTab' \in BOOLEAN
      PROVE  LogsInv'
  <2> DEFINE at == IF kind = "full" THEN NoPosition ELSE position
  <2>0. at \in NoPosition .. log.last /\ position' \in NoPosition .. log.last
    BY <1>0, <1>2
  <2>1. CASE load.kind = "none"
    <3>1. load' = Asked(kind, at) /\ UNCHANGED pendingFull
      BY <1>2, <2>1 DEF LoadLogs
    <3>2. /\ load' \in LoadType /\ load'.kind = kind /\ ~load'.served
          /\ load'.after = at /\ load'.after \in NoPosition .. log.last
      BY <1>1, <2>0, <3>1
    <3>3. ~adrift => Placed(log, buffer, position', load', pendingFull)
      BY <1>2, <2>1, <3>2 DEF LogsInv, Placed
    <3> QED BY <1>2, <2>0, <2>1, <3>1, <3>2, <3>3 DEF LogsInv
  <2>2. CASE load.kind # "none"
    <3>1. /\ pendingFull' = (pendingFull \/ kind = "full") /\ UNCHANGED load
      BY <1>2, <2>2 DEF LoadLogs
    <3>2. pendingFull' \in BOOLEAN
      BY <3>1
    <3>3. kind = "full" => pendingFull'
      BY <3>1
    <3>4. pendingFull => pendingFull'
      BY <3>1
    <3>5. ~adrift => Placed(log, buffer, position', load, pendingFull')
      BY <1>2, <2>2, <3>3, <3>4 DEF LogsInv, Placed
    <3> QED BY <1>2, <2>0, <2>2, <3>1, <3>2, <3>5 DEF LogsInv
  <2> QED BY <2>1, <2>2
\* The end of a load.
<1>3. ASSUME LoadEnds, UNCHANGED <<cursors, log, logsTab, clear>>, adrift' \in BOOLEAN,
             buffer' \in Seq(1 .. log.last), Len(buffer') <= Buffered,
             position' \in NoPosition .. log.last,
             ~adrift' => /\ Stretch(log, buffer')
                         /\ Meets(log, buffer', position')
                            \/ (pendingFull /\ position' = NoPosition)
      PROVE  LogsInv'
  <2>0. pendingFull' = FALSE  BY <1>3 DEF LoadEnds
  <2>1. CASE pendingFull
    <3>1. load' = Asked("full", NoPosition)  BY <1>3, <2>1 DEF LoadEnds
    <3>2. /\ load' \in LoadType /\ load'.kind = "full" /\ ~load'.served /\ load'.after = NoPosition
      BY <1>0, <1>1, <3>1
    <3>3. ~adrift' => Placed(log, buffer', position', load', pendingFull')
      BY <1>3, <3>2 DEF Placed
    <3> QED BY <1>0, <1>3, <2>0, <3>2, <3>3 DEF LogsInv
  <2>2. CASE ~pendingFull
    <3>1. load' = Idle  BY <1>3, <2>2 DEF LoadEnds
    <3>2. <<>> \in Seq(1 .. MaxLines)  BY EmptySeq
    <3>3. /\ load' \in LoadType /\ load'.kind = "none" /\ ~load'.served /\ load'.after = NoPosition
      BY <1>0, <3>1, <3>2 DEF Idle, LoadType
    <3>4. ~adrift' => Placed(log, buffer', position', load', pendingFull')
      BY <1>3, <2>2, <3>3 DEF Placed
    <3> QED BY <1>0, <1>3, <2>0, <2>2, <3>3, <3>4 DEF LogsInv
  <2> QED BY <2>1, <2>2
\* The log moves on under the page.
<1>4. ASSUME log' \in LogType, log.first <= log'.first, log.last <= log'.last,
             UNCHANGED <<cursors, logsTab, buffer, position, load, pendingFull, adrift>>,
             clear' \in {"none", "sent", "served"}
      PROVE  LogsInv'
  <2>1. NoPosition .. log.last \subseteq NoPosition .. log'.last
    <3>1. log'.last \in Nat  BY <1>4, LogTypes
    <3> QED BY <1>0, <1>4, <3>1
  <2>2. /\ buffer \in Seq(1 .. log'.last)
        /\ Stretch(log, buffer) => Stretch(log', buffer)
        /\ Meets(log, buffer, position) => Meets(log', buffer, position)
        /\ Meets(log, buffer, load.after) => Meets(log', buffer, load.after)
    BY <1>0, <1>4, LogMovesOn DEF LogsInv
  <2>3. load.served => Reply(log', cursors, load.after, load)
    BY <1>0, <1>4, ReplyStands DEF LogsInv
  <2>4. Placed(log, buffer, position, load, pendingFull) =>
          Placed(log', buffer, position, load, pendingFull)
    BY <2>2 DEF Placed
  <2> QED BY <1>4, <2>1, <2>2, <2>3, <2>4 DEF LogsInv
<1>5. CASE Poll
  BY <1>2, <1>5 DEF Poll, LogsInv
<1>6. CASE RefreshLogs
  <2>1. LoadLogs("full", NoPosition)  BY <1>6 DEF RefreshLogs, LoadLogs, Asked
  <2> QED BY <1>2, <1>6, <2>1 DEF RefreshLogs, LogsInv
<1>7. CASE LeaveLogsTab
  BY <1>7 DEF LeaveLogsTab, LogsInv
<1>8. CASE ReturnToLogsTab
  BY <1>2, <1>8 DEF ReturnToLogsTab
<1>9. CASE ServeLogs
  <2>1. load.after \in NoPosition .. log.last /\ cursors \in BOOLEAN  BY DEF LogsInv
  <2>2. PICK r \in LogReplies(load.after) :
          load' = [load EXCEPT !.served = TRUE, !.lines = r.lines, !.next = r.next, !.reset = r.reset]
    BY <1>9 DEF ServeLogs
  <2>3. Reply(log, cursors, load.after, r) /\ r.reset \in BOOLEAN  BY <1>0, <2>1, RepliesAre
  <2>4. r.lines \in Seq(1 .. MaxLines) /\ r.next \in Positions
    <3>1. r.lines \in Seq(1 .. log.last) /\ r.next \in NoPosition .. log.last  BY <2>3 DEF Reply
    <3> QED BY <1>0, <3>1, Widen
  <2>5. /\ load' \in LoadType /\ load'.kind = load.kind /\ load'.after = load.after /\ load'.served
        /\ load'.lines = r.lines /\ load'.next = r.next /\ load'.reset = r.reset
    BY <1>0, <2>2, <2>3, <2>4 DEF LoadType
  <2>6. Reply(log, cursors, load.after, load')  BY <2>3, <2>5 DEF Reply
  <2>7. /\ load.kind # "none"
        /\ UNCHANGED <<cursors, log, logsTab, buffer, position, pendingFull, clear, adrift>>
    BY <1>9 DEF ServeLogs
  <2>8. Placed(log, buffer, position, load, pendingFull) =>
          Placed(log, buffer, position, load', pendingFull)
    BY <2>5 DEF Placed
  <2> QED BY <2>5, <2>6, <2>7, <2>8 DEF LogsInv
<1>10. CASE WriteLine
  <2>1. /\ log' = [log EXCEPT !.last = @ + 1] /\ log.last < MaxLines
        /\ UNCHANGED <<cursors, logsTab, buffer, position, load, pendingFull, clear, adrift>>
    BY <1>10 DEF WriteLine
  <2>2. log \in [first : 1 .. MaxLines + 1, last : 0 .. MaxLines] /\ log.first <= log.last + 1
    BY <1>0 DEF LogType
  <2>3. /\ log' \in [first : 1 .. MaxLines + 1, last : 0 .. MaxLines]
        /\ log'.first = log.first /\ log'.last = log.last + 1
    BY <1>0, <2>1, <2>2
  <2>4. log' \in LogType /\ log.first <= log'.first /\ log.last <= log'.last
    BY <1>0, <2>2, <2>3 DEF LogType
  <2> QED BY <1>4, <2>1, <2>4 DEF LogsInv
<1>11. CASE LogCleared
  <2>1. /\ log' = [log EXCEPT !.first = log.last + 1]
        /\ clear' \in (IF clear = "sent" THEN {"sent", "served"} ELSE {clear})
        /\ UNCHANGED <<cursors, logsTab, buffer, position, load, pendingFull, adrift>>
    BY <1>11 DEF LogCleared
  <2>2. log \in [first : 1 .. MaxLines + 1, last : 0 .. MaxLines] /\ log.first <= log.last + 1
    BY <1>0 DEF LogType
  <2>3. /\ log' \in [first : 1 .. MaxLines + 1, last : 0 .. MaxLines]
        /\ log'.first = log.last + 1 /\ log'.last = log.last
    BY <1>0, <2>1, <2>2
  <2>4. log' \in LogType /\ log.first <= log'.first /\ log.last <= log'.last
    BY <1>0, <2>2, <2>3 DEF LogType
  <2>5. clear' \in {"none", "sent", "served"}  BY <2>1 DEF LogsInv
  <2> QED BY <1>4, <2>1, <2>4, <2>5
<1>12. CASE LogsAnswer
  <2>1. adrift' = (adrift /\ load.kind = "poll" /\ ~load.reset)  BY <1>12 DEF LogsAnswer
  <2>2. adrift' \in BOOLEAN  BY <2>1
  <2> QED BY <1>3, <1>12, <2>1, <2>2, BufferGoesOn DEF LogsAnswer
<1>13. CASE LogsFail
  <2>1. /\ load.kind # "none" /\ LoadEnds
        /\ adrift' = (adrift \/ (load.kind = "full" /\ position = NoPosition /\ buffer # <<>>))
        /\ UNCHANGED <<cursors, log, logsTab, buffer, position, clear>>
    BY <1>13 DEF LogsFail
  <2>2. adrift' \in BOOLEAN  BY <2>1
  <2>3. ~adrift' => ~adrift /\ (load.kind = "full" => position # NoPosition \/ buffer = <<>>)
    BY <2>1
  <2>4. load.kind \in {"full", "poll"}  BY <1>0, <2>1 DEF LoadType
  <2>5. ~adrift' => /\ Stretch(log, buffer)
                    /\ Meets(log, buffer, position) \/ (pendingFull /\ position = NoPosition)
    BY <2>3, <2>4 DEF LogsInv, Placed, Meets
  <2> QED BY <1>3, <2>1, <2>2, <2>5 DEF LogsInv
<1>14. CASE ClearLogs
  BY <1>14 DEF ClearLogs, LogsInv
<1>15. CASE ClearAnswers
  <2>1. clear' = "none" /\ UNCHANGED <<cursors, log, logsTab, load, pendingFull>>
    BY <1>15 DEF ClearAnswers
  <2>2. CASE UNCHANGED <<buffer, position, adrift>>
    BY <2>1, <2>2 DEF LogsInv
  <2>3. CASE buffer' = <<>> /\ position' = NoPosition /\ adrift' = FALSE
    <3>1. /\ <<>> \in Seq(1 .. log.last) /\ Len(<<>>) = 0 /\ Stretch(log, <<>>)
          /\ \A p : Meets(log, <<>>, p)
      BY EmptySeq DEF Stretch, Meets
    <3>2. Placed(log, <<>>, NoPosition, load, pendingFull)
      BY <3>1 DEF Placed
    <3>3. adrift' \in BOOLEAN  BY <2>3
    <3>4. Placed(log', buffer', position', load', pendingFull')  BY <2>1, <2>3, <3>2
    <3>5. /\ buffer' \in Seq(1 .. log'.last) /\ Len(buffer') <= Buffered
          /\ position' \in NoPosition .. log'.last
      BY <1>0, <2>1, <2>3, <3>1
    <3>6. UNCHANGED <<cursors, log, logsTab, load, pendingFull>> /\ clear' \in {"none", "sent", "served"}
      BY <2>1
    <3> QED BY <3>3, <3>4, <3>5, <3>6 DEF LogsInv
  <2> QED BY <1>15, <2>2, <2>3 DEF ClearAnswers
<1>16. CASE UNCHANGED logsVars
  BY <1>16 DEF logsVars, LogsInv
<1> QED BY <1>5, <1>6, <1>7, <1>8, <1>9, <1>10, <1>11, <1>12, <1>13, <1>14, <1>15, <1>16
        DEF LogsNext

LEMMA LogsTypes == ASSUME LogsInv PROVE LogsTypeOK
<1>1. log.last \in Nat /\ log.last <= MaxLines /\ MaxLines \in Nat /\ NoPosition = -1
  BY LogTypes DEF LogsInv, NoPosition
<1>2. position \in Positions  BY <1>1 DEF LogsInv, Positions
<1>3. buffer \in Seq(1 .. MaxLines)  BY <1>1, Widen DEF LogsInv
<1> QED BY <1>2, <1>3 DEF LogsInv, LogsTypeOK, LogType, LoadType

\* The state of the logs page has its type: no line it shows was not written,
\* and the buffer keeps to its limit.
THEOREM LogsTyped == LogsSpec => []LogsTypeOK
BY LogsInitOK, LogsStep, LogsTypes, PTL DEF LogsSpec

\* What the logs page shows is one stretch of CPA's log, of whatever length the
\* log and the buffer are and however polls, reloads, changes of the tab, clears
\* and failures overlap: unless a reload that failed left lines without a
\* position to go on from, and then again from the first answer that replaces
\* them (loadLogs, logsPolling.ts and clearLogs in LogsPage.tsx).
THEOREM LogShownWhole == LogsSpec => []LogIsOneStretch
<1>1. LogsInv => LogIsOneStretch
  <2> SUFFICES ASSUME LogsInv, ~adrift, NEW i \in 1 .. Len(buffer) - 1,
                      NEW line \in log.first .. log.last
               PROVE  buffer[i] < buffer[i + 1] /\ (line <= buffer[i] \/ line >= buffer[i + 1])
    BY DEF LogIsOneStretch, OneStretch, LogsInv, Placed, Stretch
  <2>1. buffer[i] < buffer[i + 1] /\ Clean(log, buffer[i], buffer[i + 1] - 1)
    BY DEF LogsInv, Placed, Stretch
  <2>2. buffer \in Seq(1 .. log.last) /\ Len(buffer) \in Nat
    BY LenProperties DEF LogsInv
  <2>3. i + 1 \in 1 .. Len(buffer)  BY <2>2
  <2>4. buffer[i + 1] \in Int /\ line \in Int
    <3>1. buffer[i + 1] \in 1 .. log.last  BY <2>2, <2>3, ElementOfSeq
    <3> QED BY <3>1
  <2> QED BY <2>1, <2>4 DEF Clean
<1>2. LogsInv /\ [LogsNext]_logsVars => LogsInv'
  BY LogsStep
<1> QED BY <1>1, <1>2, LogsInitOK, PTL DEF LogsSpec

================================================================================
