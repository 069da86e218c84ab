----------------------------- MODULE MonitoringPanel -----------------------------
(***************************************************************************)
(* The monitoring centre's analytics: a hook that asks the Manager Server  *)
(* for what the page's filters and its place in the list of events call    *)
(* for, and the list itself, gathered page by page.  A change of filter,   *)
(* of place or of time is a new request; answers come in any order.        *)
(***************************************************************************)
EXTENDS Integers

CONSTANTS
    Scopes,          \* filters: range, search and what else narrows the query
    LastPage,        \* the last page of events of each filter
    MaxQueries,      \* bound: requests and resets of the hook
    MaxNow           \* bound: refreshes of the page

ASSUME MonitoringAssumption ==
    Scopes # {} /\ LastPage \in Nat /\ MaxQueries \in Nat /\ MaxNow \in Nat

Pages == 0 .. LastPage
NoData == [scope |-> "", of |-> "", page |-> 0]
NoQuery == [scope |-> "", page |-> 0, id |-> 0]

VARIABLES
    scope,         \* eventsScopeKey
    now,           \* analyticsNowMs
    enabled,       \* monitoring is available
    data,          \* the hook's data: the scope it is filed under, and that it is of
    analyticsLoading,   \* the hook's loading flag
    failed,        \* the hook shows an error
    requestId,     \* requestIdRef
    inFlight,      \* inFlightRequestIdentityKeyRef and inFlightRequestIdRef
    queries,       \* requests under way
    events         \* eventsPageState; items are pages of events and the filter they are of

monitoringVars == <<scope, now, enabled, data, analyticsLoading, failed, requestId, inFlight, queries, events>>

\* createEventsPageState()
NoEvents(s) == [scope |-> s, page |-> 0, items |-> {}, more |-> FALSE, loadingMore |-> FALSE, key |-> <<>>]

\* activeEventsPageState: a state kept for another filter does not count.
Active(e, s) == IF e.scope = s THEN e ELSE NoEvents(s)

MonitoringInit ==
    /\ scope \in Scopes
    /\ now = 0
    /\ enabled = FALSE
    /\ data = NoData
    /\ analyticsLoading = FALSE /\ failed = FALSE
    /\ requestId = 0 /\ inFlight = NoQuery /\ queries = {}
    /\ events = NoEvents("")

-----------------------------------------------------------------------------
\* refresh() of the hook: nothing is asked while monitoring is unavailable, nor
\* what is being asked for already.
Refresh(on, s, p) ==
    IF ~on
    THEN /\ requestId < MaxQueries
         /\ requestId' = requestId + 1
         /\ inFlight' = NoQuery
         /\ data' = NoData /\ analyticsLoading' = FALSE
         /\ UNCHANGED <<failed, queries>>
    ELSE IF inFlight.id # 0 /\ inFlight.scope = s /\ inFlight.page = p
    THEN UNCHANGED <<requestId, inFlight, data, analyticsLoading, failed, queries>>
    ELSE /\ requestId < MaxQueries
         /\ requestId' = requestId + 1
         /\ inFlight' = [scope |-> s, page |-> p, id |-> requestId + 1]
         /\ queries' = queries \cup {inFlight'}
         /\ analyticsLoading' = TRUE /\ failed' = FALSE
         /\ UNCHANGED data

\* Mutated form: an answer is taken in whatever filter is set by now.
AnyPage(e, s, d) ==
    LET base == Active(e, s) IN
    IF d = NoData THEN e
    ELSE [base EXCEPT !.items = @ \cup {[of |-> d.of, page |-> d.page]}, !.more = d.page < LastPage,
                      !.loadingMore = FALSE, !.key = <<base.page, d.page>>]

\* The effect that adds the page of events in data to the list: not under a
\* filter it is not of, nor twice at one place.
PageArrives(e, s, d) ==
    LET base == Active(e, s)
        key == <<base.page, d.page>>
    IN  IF d = NoData \/ d.scope # s THEN e
        ELSE IF base.key = key THEN base
        ELSE [base EXCEPT !.items = @ \cup {[of |-> d.of, page |-> d.page]}, !.more = d.page < LastPage,
                          !.loadingMore = FALSE, !.key = key]

\* The filters change: the hook asks, and data it has of that filter is shown.
ChangeScope(s) ==
    /\ s # scope
    /\ scope' = s
    /\ Refresh(enabled, s, Active(events, s).page)
    /\ events' = PageArrives(events, s, data')
    /\ UNCHANGED <<now, enabled>>

ChangeAvailability ==
    /\ enabled' = ~enabled
    /\ Refresh(enabled', scope, Active(events, scope).page)
    /\ UNCHANGED <<scope, now, events>>

\* refreshMeta(), by its button, the header or the timer: back to the first page.
RefreshMeta ==
    /\ now < MaxNow
    /\ now' = now + 1
    /\ Refresh(enabled, scope, 0)
    /\ LET rewound == [events EXCEPT !.page = 0, !.loadingMore = FALSE] IN
       events' = IF events.page = 0 THEN rewound ELSE PageArrives(rewound, scope, data')
    /\ UNCHANGED <<scope, enabled>>

\* loadMoreEvents(): the place moves on, and with it the request.
LoadMoreEvents ==
    LET here == Active(events, scope) IN
    /\ ~analyticsLoading /\ ~here.loadingMore /\ here.more
    /\ data.scope = scope /\ data.page < LastPage
    /\ LET moved == [here EXCEPT !.page = data.page + 1, !.loadingMore = TRUE] IN
       IF moved.page = here.page
       THEN /\ events' = moved
            /\ UNCHANGED <<data, analyticsLoading, failed, requestId, inFlight, queries>>
       ELSE /\ Refresh(enabled, scope, moved.page)
            /\ events' = PageArrives(moved, scope, data')
    /\ UNCHANGED <<scope, now, enabled>>

-----------------------------------------------------------------------------
\* Only the latest request counts.
IsCurrent(q) == requestId = q.id

\* The scope its answer is filed under: the one the request was made with.
Answered(q) == [scope |-> q.scope, of |-> q.scope, page |-> q.page]

QueryEnds(q) ==
    /\ queries' = queries \ {q}
    /\ inFlight' = IF inFlight.id = q.id THEN NoQuery ELSE inFlight
    /\ analyticsLoading' = IF IsCurrent(q) THEN FALSE ELSE analyticsLoading
    /\ UNCHANGED <<scope, now, enabled, requestId>>

QueryAnswers(q) ==
    /\ QueryEnds(q)
    /\ data' = IF IsCurrent(q) THEN Answered(q) ELSE data
    /\ events' = IF IsCurrent(q) THEN PageArrives(events, scope, data') ELSE events
    /\ UNCHANGED failed

QueryFails(q) ==
    /\ QueryEnds(q)
    /\ failed' = (failed \/ IsCurrent(q))
    /\ events' = IF IsCurrent(q) THEN [events EXCEPT !.loadingMore = FALSE] ELSE events
    /\ UNCHANGED data

MonitoringNext ==
    \/ \E s \in Scopes : ChangeScope(s)
    \/ ChangeAvailability \/ RefreshMeta \/ LoadMoreEvents
    \/ \E q \in queries : QueryAnswers(q) \/ QueryFails(q)

MonitoringSpec == MonitoringInit /\ [][MonitoringNext]_monitoringVars

-----------------------------------------------------------------------------
MonitoringTypeOK ==
    /\ scope \in Scopes /\ now \in 0 .. MaxNow /\ enabled \in BOOLEAN
    /\ data \in [scope : Scopes \cup {""}, of : Scopes \cup {""}, page : Pages]
    /\ analyticsLoading \in BOOLEAN /\ failed \in BOOLEAN
    /\ requestId \in 0 .. MaxQueries
    /\ queries \subseteq [scope : Scopes, page : Pages, id : 1 .. MaxQueries]
    /\ events.page \in Pages /\ events.items \subseteq [of : Scopes, page : Pages]

\* The events listed are of the filter that is set, and a page that shows
\* neither loading nor an error shows the answer to that filter at that place:
\* no late answer of another filter is taken for it, and no request that was
\* skipped, overtaken or reset leaves it waiting for nothing.
RowsAnswerTheFilter ==
    /\ \A item \in Active(events, scope).items : item.of = scope
    /\ enabled /\ ~analyticsLoading /\ ~failed =>
        data.of = scope /\ data.page = Active(events, scope).page
=============================================================================
