-------------------------- MODULE FeatureAvailability --------------------------
(***************************************************************************)
(* Which features the panel offers: usePanelFeatureAvailability, a hook    *)
(* that several pages use at once over one module-wide cache.  A detection *)
(* asks the panel's own host what it is and, if it is a Manager Server,    *)
(* for its configuration; it is shared by whoever asks under the same key  *)
(* while it is under way, and its outcome is cached for that key.          *)
(***************************************************************************)
EXTENDS Integers, FiniteSets

CONSTANTS
    AvailKeys,       \* request keys: the panel's and the API's address with a management key
    Hooks,           \* mounted uses of the hook
    MaxDetections    \* bound: detections started

ASSUME AvailabilityAssumption ==
    AvailKeys # {} /\ "none" \notin AvailKeys /\ MaxDetections \in Nat

NoKey == "no key"
AvailKeyOrNone == AvailKeys \cup {NoKey}

\* The host of the panel: not a Manager Server, or one in some configuration.
Hosts == {"other", "unset", "collecting", "not collecting"}

\* What a detection concludes: the features, or why there are none.
Reasons == {"none", "checking", "service_not_configured", "service_unavailable", "monitoring_disabled"}
Availability == [for : AvailKeyOrNone, checking : BOOLEAN, managed : BOOLEAN,
                 monitoring : BOOLEAN, reason : Reasons]
InitialAvailability ==
    [for |-> NoKey, checking |-> TRUE, managed |-> FALSE, monitoring |-> FALSE, reason |-> "checking"]
Unknown == [InitialAvailability EXCEPT !.checking = FALSE]

VARIABLES
    availKey,     \* the key of the session; NoKey when logged out
    hooks,        \* per hook: mounted, what it shows, the detection its effect waits for (0: none)
    cache,        \* the module's cache: the key it holds, and the outcome
    detecting,    \* inFlightAvailabilityRequest: the key and the id; id 0 when null
    latestKey,    \* latestAvailabilityRequestKey
    detections,   \* detections under way
    detected,     \* number of detections started so far
    host          \* what the panel's host is

availVars == <<availKey, hooks, cache, detecting, latestKey, detections, detected, host>>

NoDetection == [key |-> "none", id |-> 0]
Unmounted == [mounted |-> FALSE, shows |-> InitialAvailability, waits |-> 0]

AvailInit ==
    /\ availKey = NoKey
    /\ hooks = [h \in Hooks |-> Unmounted]
    /\ cache = [key |-> "none", answer |-> Unknown]
    /\ detecting = NoDetection
    /\ latestKey = "none"
    /\ detections = {} /\ detected = 0
    /\ host = "collecting"

-----------------------------------------------------------------------------
\* Mutated form: a cached answer of any key will do.
AnyCacheHit(key) == cache.key # "none"

\* The effect's request finds the key in the cache.
CacheHit(key) == cache.key = key

\* resolvePanelFeatureAvailability(): a Manager Server offers its features;
\* monitoring needs the connection to CPA and an enabled collector.
Unavailable(key, reason) == [Unknown EXCEPT !.for = key, !.reason = reason]
Resolved(key, monitoring, reason) ==
    [for |-> key, checking |-> FALSE, managed |-> TRUE, monitoring |-> monitoring, reason |-> reason]

ResolvePanelFeatureAvailability(key, found) ==
    IF key = NoKey \/ found = "other" THEN Unavailable(key, "service_not_configured")
    ELSE CASE found = "unreachable"    -> Unavailable(key, "service_unavailable")
           [] found = "unset"          -> Resolved(key, FALSE, "service_not_configured")
           [] found = "not collecting" -> Resolved(key, FALSE, "monitoring_disabled")
           [] found = "collecting"     -> Resolved(key, TRUE, "none")

\* What the probes of a detection can find: a failed first probe counts as
\* "other", a later failure as "unreachable".
Findings == {host, "other"} \cup (IF host = "other" THEN {} ELSE {"unreachable"})

\* requestPanelFeatureAvailability(): cached, joined, or started.
StartsDetection(key) == ~CacheHit(key) /\ detecting.key # key
RequestId(key) == CASE CacheHit(key) -> 0
                    [] ~CacheHit(key) /\ detecting.key = key -> detecting.id
                    [] OTHER -> detected + 1
RequestPanelFeatureAvailability(key) ==
    IF StartsDetection(key)
    THEN /\ detected < MaxDetections
         /\ detected' = detected + 1
         /\ latestKey' = key
         /\ detecting' = [key |-> key, id |-> detected + 1]
         /\ detections' = detections \cup {[key |-> key, id |-> detected + 1]}
    ELSE UNCHANGED <<detected, latestKey, detecting, detections>>

\* The hook's effect under a key: the cached outcome, or what was shown before
\* with checking set, until the detection answers.
Subscribed(shows, key) ==
    [mounted |-> TRUE, waits |-> RequestId(key),
     shows |-> IF CacheHit(key) THEN cache.answer
               ELSE [shows EXCEPT !.checking = TRUE, !.reason = "checking"]]

Mount(h) ==
    /\ ~hooks[h].mounted
    /\ hooks' = [hooks EXCEPT ![h] = Subscribed(InitialAvailability, availKey)]
    /\ RequestPanelFeatureAvailability(availKey)
    /\ UNCHANGED <<availKey, cache, host>>

Unmount(h) ==
    /\ hooks[h].mounted
    /\ hooks' = [hooks EXCEPT ![h] = Unmounted]
    /\ UNCHANGED <<availKey, cache, detecting, latestKey, detections, detected, host>>

\* A login, a logout or another connection: every mounted hook cancels its
\* effect and runs it again; the first to ask starts the detection.
ChangeKey(key) ==
    /\ key # availKey
    /\ availKey' = key
    /\ hooks' = [h \in Hooks |-> IF hooks[h].mounted THEN Subscribed(hooks[h].shows, key) ELSE hooks[h]]
    /\ IF \E h \in Hooks : hooks[h].mounted
       THEN RequestPanelFeatureAvailability(key)
       ELSE UNCHANGED <<detected, latestKey, detecting, detections>>
    /\ UNCHANGED <<cache, host>>

\* The hooks a detection still answers: not those that were cancelled.
Waiting(d) == {h \in Hooks : hooks[h].waits = d.id}

\* The continuation of a detection: the cache, if its key was asked for last;
\* its slot, if it holds the key; and the hooks that wait.
Detected(d) ==
    \E found \in Findings :
        LET outcome == ResolvePanelFeatureAvailability(d.key, found) IN
        /\ detections' = detections \ {d}
        /\ cache' = IF latestKey = d.key THEN [key |-> d.key, answer |-> outcome] ELSE cache
        /\ detecting' = IF detecting.key = d.key THEN NoDetection ELSE detecting
        /\ hooks' = [h \in Hooks |-> IF h \in Waiting(d)
                                     THEN [hooks[h] EXCEPT !.shows = outcome, !.waits = 0]
                                     ELSE hooks[h]]
        /\ UNCHANGED <<availKey, latestKey, detected, host>>

HostChanges(to) ==
    /\ to # host
    /\ host' = to
    /\ UNCHANGED <<availKey, hooks, cache, detecting, latestKey, detections, detected>>

AvailAnswers == \E d \in detections : Detected(d)

AvailNext ==
    \/ AvailAnswers
    \/ \E h \in Hooks : Mount(h) \/ Unmount(h)
    \/ \E k \in AvailKeyOrNone : ChangeKey(k)
    \/ \E to \in Hosts : HostChanges(to)

AvailSpec == AvailInit /\ [][AvailNext]_availVars

-----------------------------------------------------------------------------
AvailTypeOK ==
    /\ availKey \in AvailKeyOrNone
    /\ hooks \in [Hooks -> [mounted : BOOLEAN, shows : Availability, waits : 0 .. MaxDetections]]
    /\ cache \in [key : AvailKeyOrNone \cup {"none"}, answer : Availability]
    /\ detecting \in [key : AvailKeyOrNone \cup {"none"}, id : 0 .. MaxDetections]
    /\ latestKey \in AvailKeyOrNone \cup {"none"}
    /\ detections \subseteq [key : AvailKeyOrNone, id : 1 .. MaxDetections]
    /\ detected \in 0 .. MaxDetections
    /\ host \in Hosts

\* A page that says it is checking waits for a detection of its key which is
\* under way; any other shows what was found under the session's own key: no
\* answer of an earlier session reaches it, and none it waits for is lost,
\* whether a detection was joined, cached, cancelled or overtaken.
ShownForThisKey ==
    \A h \in Hooks : hooks[h].mounted =>
        IF hooks[h].shows.checking
        THEN [key |-> availKey, id |-> hooks[h].waits] \in detections
        ELSE hooks[h].shows.for = availKey
=============================================================================
