----------------------- MODULE FeatureAvailability_proofs -----------------------
(***************************************************************************)
(* Proof that a hook shows what was found under the session's own key, or  *)
(* waits for it, for any number of keys, hooks and detections; and the     *)
(* types of the panel's session and of its features together.              *)
(***************************************************************************)
EXTENDS MCPanelSession, PanelSession_proofs, TLAPS

\* What a hook waits for, if anything, is a detection of the key in use.
Waits(h) ==
    IF hooks[h].mounted /\ hooks[h].shows.checking
    THEN [key |-> availKey, id |-> hooks[h].waits] \in detections
    ELSE hooks[h].waits = 0

\* The inductive invariant: a hook that says it is not checking shows an answer
\* to its key and waits for nothing, the cache holds an answer to its own key,
\* what can be joined is under way, and no two detections have one number.
AvailInv ==
    /\ AvailTypeOK
    /\ \A h \in Hooks : Waits(h)
    /\ \A h \in Hooks : hooks[h].mounted /\ ~hooks[h].shows.checking => hooks[h].shows.for = availKey
    /\ cache.key # "none" => cache.answer.for = cache.key /\ ~cache.answer.checking
    /\ detecting = NoDetection \/ detecting \in detections
    /\ \A d \in detections : d.id <= detected
    /\ \A d, e \in detections : d.id = e.id => d = e

LEMMA Keys == /\ "none" \notin AvailKeyOrNone
              /\ NoDetection.key = "none" /\ NoDetection.id = 0
  BY AvailabilityAssumption DEF AvailKeyOrNone, NoKey, NoDetection

\* An outcome is of the key it was asked for, and final.
LEMMA Outcome ==
    ASSUME NEW key \in AvailKeyOrNone, NEW found \in Findings, host \in Hosts
    PROVE  LET o == ResolvePanelFeatureAvailability(key, found) IN
           o \in Availability /\ o.for = key /\ ~o.checking
<1>1. found \in {"other", "unset", "collecting", "not collecting", "unreachable"}
  BY DEF Findings, Hosts
<1>2. \A r \in Reasons : /\ Unavailable(key, r) \in Availability
                         /\ Unavailable(key, r).for = key /\ ~Unavailable(key, r).checking
  BY DEF Unavailable, Unknown, InitialAvailability, Availability
<1>3. \A m \in BOOLEAN, r \in Reasons :
          /\ Resolved(key, m, r) \in Availability
          /\ Resolved(key, m, r).for = key /\ ~Resolved(key, m, r).checking
  BY DEF Resolved, Availability
<1>4. {"service_not_configured", "service_unavailable", "monitoring_disabled", "none"} \subseteq Reasons
  BY DEF Reasons
<1>5. CASE key = NoKey \/ found = "other"
  BY <1>2, <1>4, <1>5 DEF ResolvePanelFeatureAvailability
<1>6. CASE key # NoKey /\ found = "unreachable"
  BY <1>2, <1>4, <1>6 DEF ResolvePanelFeatureAvailability
<1>7. CASE key # NoKey /\ found = "unset"
  BY <1>3, <1>4, <1>7 DEF ResolvePanelFeatureAvailability
<1>8. CASE key # NoKey /\ found = "not collecting"
  BY <1>3, <1>4, <1>8 DEF ResolvePanelFeatureAvailability
<1>9. CASE key # NoKey /\ found = "collecting"
  BY <1>3, <1>4, <1>9 DEF ResolvePanelFeatureAvailability
<1> QED BY <1>1, <1>5, <1>6, <1>7, <1>8, <1>9

\* What a request under a key leaves: types, the numbers, and what it answers
\* with is cached or under way.
LEMMA Requested ==
    ASSUME AvailInv, NEW key \in AvailKeyOrNone, RequestPanelFeatureAvailability(key)
    PROVE  /\ detecting' \in [key : AvailKeyOrNone \cup {"none"}, id : 0 .. MaxDetections]
           /\ latestKey' \in AvailKeyOrNone \cup {"none"}
           /\ detections' \subseteq [key : AvailKeyOrNone, id : 1 .. MaxDetections]
           /\ detected' \in 0 .. MaxDetections
           /\ detections \subseteq detections'
           /\ detecting' = NoDetection \/ detecting' \in detections'
           /\ \A d \in detections' : d.id <= detected'
           /\ \A d, e \in detections' : d.id = e.id => d = e
           /\ CacheHit(key) => RequestId(key) = 0
           /\ ~CacheHit(key) => [key |-> key, id |-> RequestId(key)] \in detections'
           /\ RequestId(key) \in 0 .. MaxDetections
<1> USE AvailabilityAssumption
<1> DEFINE new == [key |-> key, id |-> detected + 1]
<1>1. CASE StartsDetection(key)
  <2>1. /\ detected < MaxDetections /\ detected' = detected + 1 /\ latestKey' = key
        /\ detecting' = new /\ detections' = detections \cup {new}
    BY <1>1 DEF RequestPanelFeatureAvailability
  <2>2. detected \in 0 .. MaxDetections /\ detected + 1 \in 1 .. MaxDetections
    BY <2>1 DEF AvailInv, AvailTypeOK
  <2>3. new \in [key : AvailKeyOrNone, id : 1 .. MaxDetections] /\ new.id = detected + 1
    BY <2>2
  <2>4. \A d \in detections : d.id \in 1 .. MaxDetections /\ d.id <= detected
    BY DEF AvailInv, AvailTypeOK
  <2>5. \A d \in detections' : d.id <= detected'
    BY <2>1, <2>2, <2>3, <2>4
  <2>6. \A d, e \in detections' : d.id = e.id => d = e
    BY <2>1, <2>2, <2>3, <2>4 DEF AvailInv
  <2>7. RequestId(key) = detected + 1 /\ ~CacheHit(key)
    BY <1>1 DEF RequestId, StartsDetection
  <2>8. detections \subseteq [key : AvailKeyOrNone, id : 1 .. MaxDetections]
    BY DEF AvailInv, AvailTypeOK
  <2>9. detecting' \in [key : AvailKeyOrNone \cup {"none"}, id : 0 .. MaxDetections]
    BY <2>1, <2>2
  <2>10. detected' \in 0 .. MaxDetections
    BY <2>1, <2>2
  <2>11. detections' \subseteq [key : AvailKeyOrNone, id : 1 .. MaxDetections]
    BY <2>1, <2>3, <2>8
  <2> QED BY <2>1, <2>2, <2>3, <2>5, <2>6, <2>7, <2>9, <2>10, <2>11
<1>2. CASE ~StartsDetection(key)
  <2>1. UNCHANGED <<detected, latestKey, detecting, detections>>
    BY <1>2 DEF RequestPanelFeatureAvailability
  <2>2. CASE CacheHit(key)
    BY <2>1, <2>2 DEF AvailInv, AvailTypeOK, RequestId
  <2>3. CASE ~CacheHit(key)
    <3>1. detecting.key = key /\ RequestId(key) = detecting.id
      BY <1>2, <2>3 DEF StartsDetection, RequestId
    <3>2. detecting \in detections
      BY <3>1, Keys DEF AvailInv
    <3>3. detecting = [key |-> key, id |-> detecting.id]
      BY <3>1, <3>2 DEF AvailInv, AvailTypeOK
    <3> QED BY <2>1, <2>3, <3>1, <3>2, <3>3 DEF AvailInv, AvailTypeOK
  <2> QED BY <2>2, <2>3
<1> QED BY <1>1, <1>2

\* A hook whose effect runs under a key shows the cached answer or waits.
LEMMA Effect ==
    ASSUME AvailInv, NEW key \in AvailKeyOrNone, RequestPanelFeatureAvailability(key),
           NEW shows \in Availability
    PROVE  LET s == Subscribed(shows, key) IN
           /\ s \in [mounted : BOOLEAN, shows : Availability, waits : 0 .. MaxDetections]
           /\ s.mounted
           /\ IF s.shows.checking THEN [key |-> key, id |-> s.waits] \in detections' ELSE s.waits = 0
           /\ ~s.shows.checking => s.shows.for = key
<1>1. "checking" \in Reasons BY DEF Reasons
<1>2. CASE CacheHit(key)
  <2>1. Subscribed(shows, key) = [mounted |-> TRUE, waits |-> 0, shows |-> cache.answer]
    BY <1>2, Requested DEF Subscribed
  <2>2. cache.key = key /\ key # "none"
    BY <1>2, Keys DEF CacheHit
  <2>3. cache.answer \in Availability /\ cache.answer.for = key /\ ~cache.answer.checking
    BY <2>2 DEF AvailInv, AvailTypeOK
  <2> QED BY <2>1, <2>3, AvailabilityAssumption
<1>3. CASE ~CacheHit(key)
  <2> DEFINE id == RequestId(key)
             shown == [shows EXCEPT !.checking = TRUE, !.reason = "checking"]
  <2>1. id \in 0 .. MaxDetections /\ [key |-> key, id |-> id] \in detections'
    BY <1>3, Requested
  <2>2. Subscribed(shows, key) = [mounted |-> TRUE, waits |-> id, shows |-> shown]
    BY <1>3 DEF Subscribed
  <2>3. shown \in Availability /\ shown.checking = TRUE
    BY <1>1 DEF Availability
  <2> HIDE DEF id, shown
  <2> QED BY <2>1, <2>2, <2>3
<1> QED BY <1>2, <1>3

\* The state the panel starts in.
LEMMA AvailInitOK == AvailInit => AvailInv
<1> SUFFICES ASSUME AvailInit PROVE AvailInv OBVIOUS
<1>1. InitialAvailability \in Availability /\ Unknown \in Availability
  BY DEF InitialAvailability, Unknown, Availability, AvailKeyOrNone, Reasons
<1>2. Unmounted \in [mounted : BOOLEAN, shows : Availability, waits : 0 .. MaxDetections]
  BY <1>1, AvailabilityAssumption DEF Unmounted
<1>3. AvailTypeOK
  BY <1>1, <1>2, AvailabilityAssumption DEF AvailInit, AvailTypeOK, AvailKeyOrNone, NoDetection, Hosts
<1> QED BY <1>3 DEF AvailInit, AvailInv, Waits, Unmounted

LEMMA MountStep == ASSUME AvailInv, NEW h \in Hooks, Mount(h) PROVE AvailInv'
<1> DEFINE s == Subscribed(InitialAvailability, availKey)
<1>1. availKey \in AvailKeyOrNone /\ InitialAvailability \in Availability
  BY DEF AvailInv, AvailTypeOK, InitialAvailability, Availability, AvailKeyOrNone, Reasons
<1>2. RequestPanelFeatureAvailability(availKey) /\ UNCHANGED <<availKey, cache, host>>
      /\ hooks' = [hooks EXCEPT ![h] = s]
  BY DEF Mount
<1>3. /\ s \in [mounted : BOOLEAN, shows : Availability, waits : 0 .. MaxDetections]
      /\ s.mounted
      /\ IF s.shows.checking THEN [key |-> availKey, id |-> s.waits] \in detections' ELSE s.waits = 0
      /\ ~s.shows.checking => s.shows.for = availKey
  BY <1>1, <1>2, Effect
<1> HIDE DEF s
<1>4. hooks' \in [Hooks -> [mounted : BOOLEAN, shows : Availability, waits : 0 .. MaxDetections]]
  BY <1>2, <1>3 DEF AvailInv, AvailTypeOK
<1>5. hooks'[h] = s /\ \A g \in Hooks : g # h => hooks'[g] = hooks[g]
  BY <1>2 DEF AvailInv, AvailTypeOK
<1>6. AvailTypeOK'
  BY <1>1, <1>2, <1>4, Requested DEF AvailInv, AvailTypeOK
<1>7. detections \subseteq detections'
  BY <1>1, <1>2, Requested
<1>8. \A g \in Hooks : Waits(g)'
  BY <1>2, <1>3, <1>5, <1>7 DEF AvailInv, Waits
<1>9. \A g \in Hooks : hooks'[g].mounted /\ ~hooks'[g].shows.checking => hooks'[g].shows.for = availKey'
  BY <1>2, <1>3, <1>5 DEF AvailInv
<1>10. /\ detecting' = NoDetection \/ detecting' \in detections'
       /\ \A d \in detections' : d.id <= detected'
       /\ \A d, e \in detections' : d.id = e.id => d = e
  BY <1>1, <1>2, Requested
<1> QED BY <1>2, <1>6, <1>8, <1>9, <1>10 DEF AvailInv

LEMMA UnmountStep == ASSUME AvailInv, NEW h \in Hooks, Unmount(h) PROVE AvailInv'
<1>1. UNCHANGED <<availKey, cache, detecting, latestKey, detections, detected, host>>
      /\ hooks' = [hooks EXCEPT ![h] = Unmounted]
  BY DEF Unmount
<1>2. Unmounted \in [mounted : BOOLEAN, shows : Availability, waits : 0 .. MaxDetections]
  BY AvailabilityAssumption
  DEF Unmounted, InitialAvailability, Availability, AvailKeyOrNone, Reasons
<1>3. AvailTypeOK'
  BY <1>1, <1>2 DEF AvailInv, AvailTypeOK
<1>4. hooks'[h] = Unmounted /\ \A g \in Hooks : g # h => hooks'[g] = hooks[g]
  BY <1>1 DEF AvailInv, AvailTypeOK
<1>5. ~Unmounted.mounted /\ Unmounted.waits = 0 BY DEF Unmounted
<1>6. \A g \in Hooks : Waits(g)'
  <2>1. ASSUME NEW g \in Hooks PROVE Waits(g)'
    <3>1. Waits(g) BY DEF AvailInv
    <3>2. availKey' = availKey /\ detections' = detections BY <1>1
    <3>3. CASE g = h BY <1>4, <1>5, <3>3 DEF Waits
    <3>4. CASE g # h
      <4>1. hooks'[g] = hooks[g] BY <1>4, <3>4
      <4> QED BY <3>1, <3>2, <4>1 DEF Waits
    <3> QED BY <3>3, <3>4
  <2> QED BY <2>1
<1>7. \A g \in Hooks : hooks'[g].mounted /\ ~hooks'[g].shows.checking => hooks'[g].shows.for = availKey'
  BY <1>1, <1>4, <1>5 DEF AvailInv
<1> QED BY <1>1, <1>3, <1>6, <1>7 DEF AvailInv

LEMMA ChangeKeyStep == ASSUME AvailInv, NEW key \in AvailKeyOrNone, ChangeKey(key) PROVE AvailInv'
<1>1. availKey' = key /\ UNCHANGED <<cache, host>>
  BY DEF ChangeKey
<1>2. hooks' = [h \in Hooks |-> IF hooks[h].mounted THEN Subscribed(hooks[h].shows, key) ELSE hooks[h]]
  BY DEF ChangeKey
<1>3. CASE \E h \in Hooks : hooks[h].mounted
  <2>1. RequestPanelFeatureAvailability(key)
    BY <1>3 DEF ChangeKey
  <2>2. ASSUME NEW h \in Hooks
        PROVE /\ hooks'[h] \in [mounted : BOOLEAN, shows : Availability, waits : 0 .. MaxDetections]
              /\ Waits(h)'
              /\ hooks'[h].mounted /\ ~hooks'[h].shows.checking => hooks'[h].shows.for = key
    <3>1. hooks[h].shows \in Availability
      BY DEF AvailInv, AvailTypeOK
    <3>2. CASE hooks[h].mounted
      <4>1. hooks'[h] = Subscribed(hooks[h].shows, key)
        BY <1>2, <3>2
      <4> QED BY <1>1, <2>1, <3>1, <4>1, Effect DEF Waits
    <3>3. CASE ~hooks[h].mounted
      BY <1>1, <1>2, <3>3 DEF AvailInv, AvailTypeOK, Waits
    <3> QED BY <3>2, <3>3
  <2>3. hooks' \in [Hooks -> [mounted : BOOLEAN, shows : Availability, waits : 0 .. MaxDetections]]
    BY <1>2, <2>2
  <2>4. AvailTypeOK'
    BY <1>1, <2>1, <2>3, Requested DEF AvailInv, AvailTypeOK
  <2>5. /\ detecting' = NoDetection \/ detecting' \in detections'
        /\ \A d \in detections' : d.id <= detected'
        /\ \A d, e \in detections' : d.id = e.id => d = e
    BY <2>1, Requested
  <2> QED BY <1>1, <2>2, <2>4, <2>5 DEF AvailInv
<1>4. CASE \A h \in Hooks : ~hooks[h].mounted
  <2>1. UNCHANGED <<detected, latestKey, detecting, detections>>
    BY <1>4 DEF ChangeKey
  <2>2. \A h \in Hooks : hooks'[h] = hooks[h]
    BY <1>2, <1>4
  <2>3. AvailTypeOK'
    BY <1>1, <1>2, <1>4, <2>1, <2>2 DEF AvailInv, AvailTypeOK
  <2> QED BY <1>1, <1>4, <2>1, <2>2, <2>3 DEF AvailInv, Waits
<1> QED BY <1>3, <1>4

LEMMA DetectedStep == ASSUME AvailInv, NEW d \in detections, Detected(d) PROVE AvailInv'
<1>1. PICK found \in Findings :
        LET outcome == ResolvePanelFeatureAvailability(d.key, found) IN
        /\ detections' = detections \ {d}
        /\ cache' = IF latestKey = d.key THEN [key |-> d.key, answer |-> outcome] ELSE cache
        /\ detecting' = IF detecting.key = d.key THEN NoDetection ELSE detecting
        /\ hooks' = [h \in Hooks |-> IF h \in Waiting(d)
                                     THEN [hooks[h] EXCEPT !.shows = outcome, !.waits = 0]
                                     ELSE hooks[h]]
        /\ UNCHANGED <<availKey, latestKey, detected, host>>
  BY DEF Detected
<1>2. d \in [key : AvailKeyOrNone, id : 1 .. MaxDetections] /\ host \in Hosts
  BY DEF AvailInv, AvailTypeOK
<1>3. PICK outcome : outcome = ResolvePanelFeatureAvailability(d.key, found)
  OBVIOUS
<1>4. outcome \in Availability /\ outcome.for = d.key /\ ~outcome.checking
  BY <1>2, <1>3, Outcome
<1>5. /\ detections' = detections \ {d}
      /\ cache' = IF latestKey = d.key THEN [key |-> d.key, answer |-> outcome] ELSE cache
      /\ detecting' = IF detecting.key = d.key THEN NoDetection ELSE detecting
      /\ hooks' = [h \in Hooks |-> IF h \in Waiting(d)
                                   THEN [hooks[h] EXCEPT !.shows = outcome, !.waits = 0]
                                   ELSE hooks[h]]
      /\ UNCHANGED <<availKey, latestKey, detected, host>>
  BY <1>1, <1>3
<1>6. ASSUME NEW h \in Hooks
      PROVE /\ hooks'[h] \in [mounted : BOOLEAN, shows : Availability, waits : 0 .. MaxDetections]
            /\ Waits(h)'
            /\ hooks'[h].mounted /\ ~hooks'[h].shows.checking => hooks'[h].shows.for = availKey
  <2>1. hooks[h] \in [mounted : BOOLEAN, shows : Availability, waits : 0 .. MaxDetections]
    BY DEF AvailInv, AvailTypeOK
  <2>2. Waits(h) BY DEF AvailInv
  <2>3. d.id # 0 BY <1>2
  <2>4. CASE hooks[h].waits = d.id
    <3>1. hooks[h].mounted /\ hooks[h].shows.checking
      BY <2>2, <2>3, <2>4 DEF Waits
    <3>2. [key |-> availKey, id |-> hooks[h].waits] \in detections
      BY <2>2, <3>1 DEF Waits
    <3>3. d.key = availKey
      BY <2>4, <3>2 DEF AvailInv
    <3>4. hooks'[h] = [hooks[h] EXCEPT !.shows = outcome, !.waits = 0]
      BY <1>5, <2>4 DEF Waiting
    <3>5. hooks'[h].shows = outcome /\ hooks'[h].waits = 0
      BY <2>1, <3>4
    <3>6. Waits(h)'
      BY <1>4, <3>5 DEF Waits
    <3>7. hooks'[h] \in [mounted : BOOLEAN, shows : Availability, waits : 0 .. MaxDetections]
      <4>1. hooks'[h] = [mounted |-> hooks[h].mounted, shows |-> outcome, waits |-> 0]
        BY <2>1, <3>4
      <4>2. 0 \in 0 .. MaxDetections
        BY AvailabilityAssumption
      <4> QED BY <1>4, <2>1, <4>1, <4>2
    <3> QED BY <1>4, <3>3, <3>5, <3>6, <3>7
  <2>5. CASE hooks[h].waits # d.id
    <3>1. hooks'[h] = hooks[h]
      BY <1>5, <2>5 DEF Waiting
    <3>2. [key |-> availKey, id |-> hooks[h].waits] # d
      BY <2>5
    <3>3. availKey' = availKey /\ detections' = detections \ {d}
      BY <1>5
    <3>4. Waits(h)'
      BY <2>2, <3>1, <3>2, <3>3 DEF Waits
    <3> QED BY <2>1, <3>1, <3>4 DEF AvailInv
  <2> QED BY <2>4, <2>5
<1>7. hooks' \in [Hooks -> [mounted : BOOLEAN, shows : Availability, waits : 0 .. MaxDetections]]
  BY <1>5, <1>6
<1>8. cache' \in [key : AvailKeyOrNone \cup {"none"}, answer : Availability]
  BY <1>2, <1>4, <1>5 DEF AvailInv, AvailTypeOK
<1>9. detecting' \in [key : AvailKeyOrNone \cup {"none"}, id : 0 .. MaxDetections]
  <2>1. detecting \in [key : AvailKeyOrNone \cup {"none"}, id : 0 .. MaxDetections]
    BY DEF AvailInv, AvailTypeOK
  <2>2. NoDetection \in [key : AvailKeyOrNone \cup {"none"}, id : 0 .. MaxDetections]
    BY AvailabilityAssumption DEF NoDetection
  <2> QED BY <1>5, <2>1, <2>2
<1>10. AvailTypeOK'
  BY <1>5, <1>7, <1>8, <1>9 DEF AvailInv, AvailTypeOK
<1>11. cache'.key # "none" => cache'.answer.for = cache'.key /\ ~cache'.answer.checking
  BY <1>4, <1>5 DEF AvailInv
<1>12. detecting' = NoDetection \/ detecting' \in detections'
  BY <1>5 DEF AvailInv
<1> QED BY <1>5, <1>6, <1>10, <1>11, <1>12 DEF AvailInv

LEMMA HostStep == ASSUME AvailInv, NEW to \in Hosts, HostChanges(to) PROVE AvailInv'
<1>1. host' = to /\ UNCHANGED <<availKey, hooks, cache, detecting, latestKey, detections, detected>>
  BY DEF HostChanges
<1>2. AvailTypeOK' BY <1>1 DEF AvailInv, AvailTypeOK
<1> QED BY <1>1, <1>2 DEF AvailInv, Waits

LEMMA AvailStep == ASSUME AvailInv, [AvailNext]_availVars PROVE AvailInv'
<1>1. CASE UNCHANGED availVars
  BY <1>1 DEF availVars, AvailInv, AvailTypeOK, Waits
<1>2. CASE AvailNext
  <2>1. CASE AvailAnswers BY <2>1, DetectedStep DEF AvailAnswers
  <2>2. CASE \E h \in Hooks : Mount(h) \/ Unmount(h) BY <2>2, MountStep, UnmountStep
  <2>3. CASE \E k \in AvailKeyOrNone : ChangeKey(k) BY <2>3, ChangeKeyStep
  <2>4. CASE \E to \in Hosts : HostChanges(to) BY <2>4, HostStep
  <2> QED BY <1>2, <2>1, <2>2, <2>3, <2>4 DEF AvailNext
<1> QED BY <1>1, <1>2

\* Every hook shows an answer to the session's key, or waits for one under way
\* (usePanelFeatureAvailability.ts, its cache and its shared request).
THEOREM ShownForKey == AvailSpec => []ShownForThisKey
<1>1. AvailInv => ShownForThisKey
  BY DEF AvailInv, Waits, ShownForThisKey
<1> QED BY <1>1, AvailInitOK, AvailStep, PTL DEF AvailSpec

\* The panel, of which a behaviour uses one part: the session's state and that
\* of the features have their types, whatever the one does.
THEOREM PanelTyped == Spec => []TypeOK
<1> DEFINE PanelInv == TypeInv /\ AvailInv
<1>1. Init => PanelInv
  BY InitTypes, AvailInitOK DEF Init
<1>2. ASSUME PanelInv, [Next]_vars PROVE PanelInv'
  <2>1. [SessionNext]_sessionVars /\ [AvailNext]_availVars
    BY <1>2 DEF Next, SessionPart, FeaturesPart, vars
  <2>2. TypeInv'  BY <1>2, <2>1, TypeStep
  <2>3. AvailInv'  BY <1>2, <2>1, AvailStep
  <2> QED BY <2>2, <2>3
<1>3. PanelInv => TypeOK
  BY DEF TypeInv, AvailInv, TypeOK
<1> HIDE DEF PanelInv
<1> QED BY <1>1, <1>2, <1>3, PTL DEF Spec
=============================================================================
