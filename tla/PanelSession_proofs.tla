-------------------------- MODULE PanelSession_proofs --------------------------
(***************************************************************************)
(* Theorems about the panel's session, for any number of connections,      *)
(* requests, saves and sessions.                                           *)
(***************************************************************************)
EXTENDS PanelSession, TLAPS

(***************************************************************************)
(* Types, in four groups, and the configuration requests' ids.             *)
(***************************************************************************)

AuthType == [ok : BOOLEAN, conn : ConnOrNone, remember : BOOLEAN, mode : Modes \cup {NoMode},
             status : {"disconnected", "connecting", "connected", "error"}]
ConfigType == [data : Data, cached : BOOLEAN, token : Nat, inFlight : Nat, takenOver : BOOLEAN]

StoreOK == auth \in AuthType /\ flag \in BOOLEAN /\ client \in ConnOrNone /\ config \in ConfigType
CallsOK == fetches \subseteq Fetch /\ readers \subseteq {f.id : f \in fetches} /\ logins \subseteq Login
PlaceOK == /\ restore \in {"none", "pending", "done", "failed"}
           /\ page \in {"probing", "restoring", "splash", "form", "submitting", "panel"}
           /\ route \in {"idle", "probing"}
ServerOK == /\ saving \in Save /\ others \in [ConnOrNone -> 0 .. MaxOthers]
            /\ served \in [Conns -> 0 .. MaxSaves] /\ written \in [ConnOrNone -> 0 .. MaxSaves]
            /\ verified \subseteq ConnOrNone

LEMMA Groups == SessionTypeOK <=> StoreOK /\ CallsOK /\ PlaceOK /\ ServerOK
  BY DEF SessionTypeOK, StoreOK, CallsOK, PlaceOK, ServerOK, AuthType, ConfigType

\* The request pages may join is the latest one, under way, and has an id of
\* its own, as every request has.
TokenInv ==
    /\ config.inFlight \in {0, config.token}
    /\ config.inFlight # 0 => \E f \in fetches : f.id = config.inFlight
    /\ \A f \in fetches : f.id # 0 /\ f.id <= config.token
                          /\ (f.id = config.token => f.id = config.inFlight)
    /\ \A f, g \in fetches : f.id = g.id => f = g

TypeInv == SessionTypeOK /\ TokenInv

\* The stores with the configuration cleared, and a session that has ended.
LEMMA Cleared ==
    ASSUME config \in ConfigType
    PROVE  /\ ClearedConfig \in ConfigType
           /\ ClearedConfig.data = NoData /\ ClearedConfig.inFlight = 0
           /\ ClearedConfig.token = config.token + 1 /\ ClearedConfig.takenOver = FALSE
<1>1. NoData \in Data
  BY SessionAssumption DEF NoData, Data, ConnOrNone
<1>2. PICK n \in Nat : n = config.token + 1
  BY DEF ConfigType
<1>3. ClearedConfig = [config EXCEPT !.data = NoData, !.cached = FALSE, !.token = n, !.inFlight = 0,
                                     !.takenOver = FALSE]
  BY <1>2 DEF ClearedConfig
<1> QED BY <1>1, <1>2, <1>3 DEF ConfigType

LEMMA Ended ==
    ASSUME auth \in AuthType
    PROVE  LoggedOut \in AuthType /\ LoggedOut.ok = FALSE /\ LoggedOut.conn = NoConn
  BY DEF LoggedOut, AuthType, ConnOrNone

\* With the token raised and nothing to join, every request is an old one.
LEMMA Renewed ==
    ASSUME TypeInv, fetches' \subseteq fetches, config'.token = config.token + 1,
           config'.inFlight = 0
    PROVE  TokenInv'
<1>1. config.token \in Nat /\ \A f \in fetches : f.id \in Nat
  BY DEF TypeInv, SessionTypeOK, Fetch
<1>2. \A f \in fetches : f.id # 0 /\ f.id <= config.token
  BY DEF TypeInv, TokenInv
<1>3. \A f, g \in fetches : f.id = g.id => f = g
  BY DEF TypeInv, TokenInv
<1> QED BY <1>1, <1>2, <1>3 DEF TokenInv

\* A request that has ended, of which the store has taken note.
LEMMA OneLess ==
    ASSUME TypeInv, NEW f \in fetches, fetches' = fetches \ {f},
           config'.token = config.token,
           config'.inFlight = IF f.id = config.inFlight THEN 0 ELSE config.inFlight
    PROVE  TokenInv'
<1>1. \A g, h \in fetches : g.id = h.id => g = h
  BY DEF TypeInv, TokenInv
<1>2. \A g \in fetches : /\ g.id # 0 /\ g.id <= config.token
                         /\ (g.id = config.token => g.id = config.inFlight)
  BY DEF TypeInv, TokenInv
<1>3. config.inFlight \in {0, config.token}
      /\ (config.inFlight # 0 => \E g \in fetches : g.id = config.inFlight)
  BY DEF TypeInv, TokenInv
<1>4. CASE f.id = config.inFlight
  <2>1. config'.inFlight = 0 BY <1>4
  <2>2. \A g \in fetches' : g.id # config.token
    BY <1>1, <1>2, <1>4
  <2> QED BY <1>1, <1>2, <2>1, <2>2 DEF TokenInv
<1>5. CASE f.id # config.inFlight
  <2>1. config'.inFlight = config.inFlight BY <1>5
  <2>2. config.inFlight # 0 => \E g \in fetches' : g.id = config.inFlight
    BY <1>3, <1>5
  <2> QED BY <1>1, <1>2, <1>3, <2>1, <2>2 DEF TokenInv
<1> QED BY <1>4, <1>5

\* The answer 200 and the store: it is filled by the latest request only, which
\* is the one that may be joined.
LEMMA StoredEffect ==
    ASSUME TypeInv, NEW f \in fetches, f.version # Unread
    PROVE  /\ Stored(f) \in ConfigType
           /\ Stored(f).token = config.token /\ Stored(f).takenOver = config.takenOver
           /\ Stored(f).inFlight = IF f.id = config.inFlight THEN 0 ELSE config.inFlight
           /\ f.id = config.inFlight =>
                  Stored(f).data = [conn |-> f.conn, version |-> f.version, from |-> "fetch"]
           /\ f.id # config.inFlight => Stored(f).data = config.data
<1>1. config \in ConfigType /\ f \in Fetch
  BY Groups DEF TypeInv, StoreOK, CallsOK
<1>2. f.version \in 0 .. MaxSaves /\ f.conn \in ConnOrNone
  BY <1>1 DEF Fetch
<1>3. [conn |-> f.conn, version |-> f.version, from |-> "fetch"] \in Data
  BY <1>2 DEF Data
<1>4. f.id # 0 /\ (f.id = config.token => f.id = config.inFlight) /\ config.inFlight \in {0, config.token}
  BY DEF TypeInv, TokenInv
<1>5. CASE f.id = config.token
  BY <1>1, <1>3, <1>4, <1>5 DEF Stored, ConfigType
<1>6. CASE f.id # config.token
  BY <1>1, <1>4, <1>6 DEF Stored, ConfigType
<1> QED BY <1>5, <1>6

\* A request for the configuration: joined, or started with the client's connection.
LEMMA FetchConfigEffect ==
    ASSUME TypeInv, client' \in ConnOrNone, FetchConfig
    PROVE  /\ config' \in ConfigType /\ fetches' \subseteq Fetch /\ fetches \subseteq fetches'
           /\ config'.data = config.data /\ config'.takenOver = config.takenOver
           /\ FetchId \in Nat \ {0} /\ config'.inFlight = FetchId
           /\ TokenInv'
           /\ \E f \in fetches' : f.id = FetchId
           /\ IF Joins THEN config' = config /\ fetches' = fetches
              ELSE fetches' = fetches \cup {[id |-> FetchId, conn |-> client', version |-> Unread]}
<1>1. config \in ConfigType /\ fetches \subseteq Fetch
  BY Groups DEF TypeInv, StoreOK, CallsOK
<1>2. config.token \in Nat /\ config.inFlight \in Nat
  BY <1>1 DEF ConfigType
<1>3. \A f \in fetches : f.id # 0 /\ f.id <= config.token /\ (f.id = config.token => f.id = config.inFlight)
  BY DEF TypeInv, TokenInv
<1>4. \A f, g \in fetches : f.id = g.id => f = g
  BY DEF TypeInv, TokenInv
<1>5. CASE Joins
  <2>1. config' = config /\ fetches' = fetches /\ FetchId = config.inFlight /\ FetchId # 0
    BY <1>5 DEF FetchConfig, FetchId, Joins
  <2>2. TokenInv' BY <2>1 DEF TypeInv, TokenInv
  <2>3. \E f \in fetches : f.id = config.inFlight
    BY <1>5 DEF TypeInv, TokenInv, Joins
  <2> QED BY <1>1, <1>2, <1>5, <2>1, <2>2, <2>3
<1>6. CASE ~Joins
  <2> DEFINE new == [id |-> config.token + 1, conn |-> client', version |-> Unread]
  <2>1. /\ config' = [config EXCEPT !.token = @ + 1, !.inFlight = config.token + 1]
        /\ fetches' = fetches \cup {new} /\ FetchId = config.token + 1
    BY <1>6 DEF FetchConfig, FetchId
  <2>2. /\ config' \in ConfigType /\ config'.token = config.token + 1
        /\ config'.inFlight = config.token + 1
        /\ config'.data = config.data /\ config'.takenOver = config.takenOver
    <3>1. config.token + 1 \in Nat BY <1>2
    <3>2. config' = [data |-> config.data, cached |-> config.cached, token |-> config.token + 1,
                     inFlight |-> config.token + 1, takenOver |-> config.takenOver]
      BY <1>1, <2>1 DEF ConfigType
    <3> QED BY <1>1, <3>1, <3>2 DEF ConfigType
  <2>3. new \in Fetch BY <1>2 DEF Fetch
  <2>4. new.id = config.token + 1 OBVIOUS
  <2>5. \A f \in fetches : f.id \in Nat BY <1>1 DEF Fetch
  <2> HIDE DEF new
  <2>6. \A f \in fetches' : /\ f.id # 0 /\ f.id <= config'.token
                            /\ (f.id = config'.token => f.id = config'.inFlight)
    BY <1>2, <1>3, <2>1, <2>2, <2>4, <2>5
  <2>7. \A f, g \in fetches' : f.id = g.id => f = g
    BY <1>2, <1>3, <1>4, <2>1, <2>4, <2>5
  <2>8. \E f \in fetches' : f.id = FetchId BY <2>1, <2>4
  <2>9. TokenInv' BY <2>1, <2>2, <2>6, <2>7, <2>8 DEF TokenInv
  <2>10. fetches' = fetches \cup {[id |-> FetchId, conn |-> client', version |-> Unread]}
    BY <2>1 DEF new
  <2> QED BY <1>1, <1>2, <1>6, <2>1, <2>2, <2>3, <2>8, <2>9, <2>10
<1> QED BY <1>5, <1>6

RestoreStates == {"none", "pending", "done", "failed"}
PageStates == {"probing", "restoring", "splash", "form", "submitting", "panel"}

LEMMA Typed == ASSUME TypeInv PROVE StoreOK /\ CallsOK /\ PlaceOK /\ ServerOK /\ TokenInv
  BY Groups DEF TypeInv

LEMMA TypedNext ==
    ASSUME StoreOK', CallsOK', PlaceOK', ServerOK', TokenInv' PROVE TypeInv'
  BY DEF TypeInv, SessionTypeOK, StoreOK, CallsOK, PlaceOK, ServerOK, AuthType, ConfigType

LEMMA StartLoginEffect ==
    ASSUME TypeInv, NEW conn \in ConnOrNone, NEW remember \in BOOLEAN, NEW mode \in Modes,
           NEW by \in {"form", "restore"}, StartLogin(conn, remember, mode, by)
    PROVE  /\ client' = conn
           /\ auth' \in AuthType /\ auth'.ok = auth.ok /\ auth'.conn = auth.conn
           /\ config' \in ConfigType /\ config'.data = config.data /\ config'.takenOver = config.takenOver
           /\ fetches' \subseteq Fetch /\ fetches \subseteq fetches'
           /\ logins' \subseteq Login
           /\ TokenInv'
<1>1. auth \in AuthType /\ logins \subseteq Login
  BY Typed DEF StoreOK, CallsOK
<1>2. client' = conn /\ FetchConfig
  BY DEF StartLogin
<1>3. auth' = [auth EXCEPT !.status = "connecting",
                           !.remember = IF by = "restore" THEN remember ELSE @,
                           !.mode = IF by = "restore" THEN mode ELSE @]
  BY DEF StartLogin
<1>4. auth' \in AuthType /\ auth'.ok = auth.ok /\ auth'.conn = auth.conn
  BY <1>1, <1>3 DEF AuthType
<1>5. FetchId \in Nat
  BY <1>2, FetchConfigEffect
<1>6. [conn |-> conn, remember |-> remember, mode |-> mode, by |-> by,
       at |-> FetchId, manager |-> FALSE] \in Login
  BY <1>5 DEF Login
<1>7. logins' \subseteq Login
  BY <1>1, <1>6 DEF StartLogin
<1> QED BY <1>2, <1>4, <1>7, FetchConfigEffect

LEMMA RestoreSessionEffect ==
    ASSUME TypeInv, NEW mode \in Modes, RestoreSession(mode)
    PROVE  /\ StoreOK' /\ fetches' \subseteq Fetch /\ fetches \subseteq fetches' /\ logins' \subseteq Login
           /\ restore' \in RestoreStates /\ TokenInv'
<1>1. StoreOK /\ CallsOK /\ PlaceOK /\ TokenInv
  BY Typed
<1>2. auth \in AuthType /\ auth.conn \in ConnOrNone /\ Remembers \in BOOLEAN
  BY <1>1 DEF StoreOK, AuthType, Remembers
<1>3. CASE restore # "none" /\ UNCHANGED <<storeVars, fetches, logins, restore>>
  BY <1>1, <1>3 DEF storeVars, StoreOK, CallsOK, PlaceOK, TokenInv, RestoreStates
<1>4. CASE ForgetSession(mode)
  <2>1. auth' = [auth EXCEPT !.conn = NoConn, !.remember = FALSE, !.mode = mode]
        /\ client' = NoConn /\ flag' = FALSE /\ restore' = "failed"
        /\ UNCHANGED <<config, fetches, logins>>
    BY <1>4 DEF ForgetSession
  <2>2. auth' \in AuthType BY <1>2, <2>1 DEF AuthType, ConnOrNone
  <2>3. StoreOK' BY <1>1, <2>1, <2>2 DEF StoreOK, ConnOrNone
  <2> QED BY <1>1, <2>1, <2>3 DEF CallsOK, TokenInv, RestoreStates
<1>5. CASE /\ restore' = "pending"
           /\ StartLogin(auth.conn, Remembers, mode, "restore")
           /\ UNCHANGED flag
  <2>1. StoreOK' BY <1>1, <1>2, <1>5, StartLoginEffect DEF StoreOK
  <2> QED BY <1>2, <1>5, <2>1, StartLoginEffect DEF RestoreStates
<1>6. CASE /\ restore' = "failed"
           /\ auth' = [auth EXCEPT !.remember = Remembers, !.mode = mode]
           /\ client' = auth.conn
           /\ UNCHANGED <<flag, config, fetches, logins>>
  <2>1. auth' \in AuthType BY <1>2, <1>6 DEF AuthType
  <2>2. StoreOK' BY <1>1, <1>2, <1>6, <2>1 DEF StoreOK
  <2> QED BY <1>1, <1>6, <2>2 DEF CallsOK, TokenInv, RestoreStates
<1> QED BY <1>3, <1>4, <1>5, <1>6 DEF RestoreSession

LEMMA LogoutEffect ==
    ASSUME TypeInv, Logout, fetches' = fetches
    PROVE  StoreOK' /\ restore' \in RestoreStates /\ TokenInv'
<1>1. config \in ConfigType /\ auth \in AuthType
  BY Typed DEF StoreOK
<1>2. auth' = LoggedOut /\ flag' = FALSE /\ client' = NoConn /\ config' = ClearedConfig /\ restore' = "none"
  BY DEF Logout
<1>3. StoreOK' BY <1>1, <1>2, Cleared, Ended DEF StoreOK, ConnOrNone
<1> QED BY <1>1, <1>2, <1>3, Cleared, Renewed DEF RestoreStates

LEMMA LoginEndsEffect ==
    ASSUME TypeInv, NEW l, NEW succeeded, NEW restoreNow \in RestoreStates,
           LoginEnds(l, succeeded, restoreNow)
    PROVE  restore' \in RestoreStates /\ page' \in PageStates
<1>1. page \in PageStates BY Typed DEF PlaceOK, PageStates
<1>2. restore' \in RestoreStates BY DEF LoginEnds, RestoreStates
<1>3. page' \in PageStates
  <2>1. CASE l.by = "form" /\ page = "submitting"
    BY <2>1 DEF LoginEnds, PageStates
  <2>2. CASE l.by = "restore" /\ page = "restoring"
    BY <2>2 DEF LoginEnds, PageStates
  <2>3. CASE ~(l.by = "form" /\ page = "submitting") /\ ~(l.by = "restore" /\ page = "restoring")
    BY <1>1, <2>3 DEF LoginEnds
  <2> QED BY <2>1, <2>2, <2>3
<1> QED BY <1>2, <1>3

LEMMA LoginFailsEffect ==
    ASSUME TypeInv, NEW l \in logins, NEW authNow \in AuthType, NEW restoreNow \in RestoreStates,
           LoginFails(l, authNow, restoreNow)
    PROVE  /\ auth' \in AuthType /\ auth'.ok = authNow.ok /\ auth'.conn = authNow.conn
           /\ logins' \subseteq Login /\ restore' \in RestoreStates /\ page' \in PageStates
<1>1. logins \subseteq Login /\ page \in PageStates
  BY Typed DEF CallsOK, PlaceOK, PageStates
<1>2. CASE l.mode = "manager_embedded" /\ ~l.manager
  <2>1. /\ logins' = (logins \ {l}) \cup {[l EXCEPT !.manager = TRUE]}
        /\ auth' = authNow /\ restore' = restoreNow /\ page' = page
    BY <1>2 DEF LoginFails
  <2>2. [l EXCEPT !.manager = TRUE] \in Login BY <1>1 DEF Login
  <2> QED BY <1>1, <2>1, <2>2
<1>3. CASE ~(l.mode = "manager_embedded" /\ ~l.manager)
  <2>1. /\ logins' = logins \ {l} /\ auth' = [authNow EXCEPT !.status = "error"]
        /\ LoginEnds(l, FALSE, restoreNow)
    BY <1>3 DEF LoginFails
  <2>2. auth' \in AuthType /\ auth'.ok = authNow.ok /\ auth'.conn = authNow.conn
    BY <2>1 DEF AuthType
  <2> QED BY <1>1, <2>1, <2>2, LoginEndsEffect
<1> QED BY <1>2, <1>3

\* Whoever waited for a request that has ended waits no longer.
LEMMA AnsweredEffect ==
    ASSUME TypeInv, NEW f \in fetches, Answered(f)
    PROVE  /\ fetches' = fetches \ {f} /\ fetches' \subseteq Fetch
           /\ readers' \subseteq {g.id : g \in fetches'}
<1>1. fetches \subseteq Fetch /\ readers \subseteq {g.id : g \in fetches}
  BY Typed DEF CallsOK
<1>2. fetches' = fetches \ {f} /\ readers' = readers \ {f.id}
  BY DEF Answered
<1> QED BY <1>1, <1>2

LEMMA LoginPageTypes ==
    ASSUME TypeInv, NEW mode \in Modes, InitLoginPage(mode) \/ TryRestore(mode) PROVE TypeInv'
<1>1. RestoreSession(mode) /\ UNCHANGED <<readers, saving, others, served, written, verified>>
  BY DEF InitLoginPage, TryRestore
<1>2. /\ StoreOK' /\ fetches' \subseteq Fetch /\ fetches \subseteq fetches' /\ logins' \subseteq Login
      /\ restore' \in RestoreStates /\ TokenInv'
  BY <1>1, RestoreSessionEffect
<1>3. CallsOK' BY <1>1, <1>2, Typed DEF CallsOK
<1>4. ServerOK' BY <1>1, Typed DEF ServerOK
<1>5. page' \in PageStates /\ route' \in {"idle", "probing"}
  <2>1. CASE InitLoginPage(mode)
    <3>1. route' = route BY <2>1 DEF InitLoginPage
    <3>2. page' \in PageStates
      <4>1. CASE restore' = "pending" BY <2>1, <4>1 DEF InitLoginPage, PageStates
      <4>2. CASE restore' = "done" BY <2>1, <4>2 DEF InitLoginPage, PageStates
      <4>3. CASE restore' \notin {"pending", "done"} BY <2>1, <4>3 DEF InitLoginPage, PageStates
      <4> QED BY <4>1, <4>2, <4>3
    <3> QED BY <3>1, <3>2, Typed DEF PlaceOK
  <2>2. CASE TryRestore(mode)
    BY <2>2, Typed DEF TryRestore, PlaceOK, PageStates
  <2> QED BY <2>1, <2>2
<1>6. PlaceOK' BY <1>2, <1>5 DEF PlaceOK, PageStates, RestoreStates
<1> QED BY <1>2, <1>3, <1>4, <1>6, TypedNext

LEMMA SubmitTypes ==
    ASSUME TypeInv, NEW c \in Conns, NEW r \in BOOLEAN, NEW m \in Modes, Submit(c, r, m)
    PROVE  TypeInv'
<1>1. StartLogin(c, r, m, "form") /\ page' = "submitting"
      /\ UNCHANGED <<flag, readers, restore, route, saving, others, served, written, verified>>
  BY DEF Submit
<1>2. c \in ConnOrNone BY DEF ConnOrNone
<1>3. StoreOK' BY <1>1, <1>2, StartLoginEffect, Typed DEF StoreOK
<1>4. CallsOK' BY <1>1, <1>2, StartLoginEffect, Typed DEF CallsOK
<1>5. PlaceOK' /\ ServerOK' BY <1>1, Typed DEF PlaceOK, ServerOK
<1> QED BY <1>1, <1>2, <1>3, <1>4, <1>5, StartLoginEffect, TypedNext

LEMMA PageFetchTypes == ASSUME TypeInv, NEW force \in BOOLEAN, PageFetch(force) PROVE TypeInv'
<1>1. /\ client' = client /\ FetchConfig /\ readers' = readers \cup {FetchId}
      /\ UNCHANGED <<auth, flag, logins, restore, page, route, saving, others, served, written, verified>>
  BY DEF PageFetch
<1>2. client' \in ConnOrNone BY <1>1, Typed DEF StoreOK
<1>3. StoreOK' BY <1>1, <1>2, FetchConfigEffect, Typed DEF StoreOK
<1>4. FetchId \in {f.id : f \in fetches'} /\ fetches \subseteq fetches' /\ fetches' \subseteq Fetch
  BY <1>1, <1>2, FetchConfigEffect
<1>5. CallsOK' BY <1>1, <1>4, Typed DEF CallsOK
<1>6. PlaceOK' /\ ServerOK' BY <1>1, Typed DEF PlaceOK, ServerOK
<1> QED BY <1>1, <1>2, <1>3, <1>5, <1>6, FetchConfigEffect, TypedNext

\* The header's refresh renews the token and starts the request it names.
LEMMA RefreshAllEffect ==
    ASSUME TypeInv, RefreshAll
    PROVE  /\ config' \in ConfigType /\ config'.data = NoData /\ config'.takenOver = FALSE
           /\ config'.token = config.token + 2 /\ config'.inFlight = config.token + 2
           /\ fetches' = fetches \cup {[id |-> config.token + 2, conn |-> client, version |-> Unread]}
           /\ [id |-> config.token + 2, conn |-> client, version |-> Unread] \in Fetch
           /\ \A f \in fetches : f.id \in Nat /\ f.id <= config.token
<1>1. config \in ConfigType /\ client \in ConnOrNone /\ fetches \subseteq Fetch
  BY Typed DEF StoreOK, CallsOK
<1>2. PICK n \in Nat : n = config.token
  BY <1>1 DEF ConfigType
<1>3. /\ config' = [ClearedConfig EXCEPT !.token = @ + 1, !.inFlight = config.token + 2]
      /\ fetches' = fetches \cup {[id |-> config.token + 2, conn |-> client, version |-> Unread]}
  BY DEF RefreshAll
<1>4. ClearedConfig.token + 1 = n + 2 /\ config.token + 2 = n + 2
  BY <1>1, <1>2, Cleared
<1>5. config' = [ClearedConfig EXCEPT !.token = n + 2, !.inFlight = n + 2]
  BY <1>3, <1>4
<1>6. n + 2 \in Nat BY <1>2
<1>7. ClearedConfig \in ConfigType /\ ClearedConfig.data = NoData /\ ClearedConfig.takenOver = FALSE
  BY <1>1, Cleared
<1>8. config' \in ConfigType /\ config'.data = NoData /\ config'.takenOver = FALSE
      /\ config'.token = n + 2 /\ config'.inFlight = n + 2
  BY <1>5, <1>6, <1>7 DEF ConfigType
<1>9. [id |-> n + 2, conn |-> client, version |-> Unread] \in Fetch
  BY <1>1, <1>6 DEF Fetch
<1>10. \A f \in fetches : f.id \in Nat /\ f.id <= config.token
  BY <1>1 DEF TypeInv, TokenInv, Fetch
<1> QED BY <1>3, <1>4, <1>8, <1>9, <1>10

LEMMA RefreshAllTypes == ASSUME TypeInv, RefreshAll PROVE TypeInv'
<1> DEFINE new == [id |-> config.token + 2, conn |-> client, version |-> Unread]
<1>1. /\ readers' = readers \cup {config.token + 2}
      /\ UNCHANGED <<auth, flag, client, logins, restore, page, route, saving, others, served, written, verified>>
  BY DEF RefreshAll
<1>2. config.token \in Nat BY Typed DEF StoreOK, ConfigType
<1>3. new.id = config.token + 2 OBVIOUS
<1>4. /\ config' \in ConfigType /\ config'.token = config.token + 2 /\ config'.inFlight = config.token + 2
      /\ fetches' = fetches \cup {new} /\ new \in Fetch
      /\ \A f \in fetches : f.id \in Nat /\ f.id <= config.token
  BY RefreshAllEffect
<1> HIDE DEF new
<1>5. StoreOK' BY <1>1, <1>4, Typed DEF StoreOK
<1>6. CallsOK' BY <1>1, <1>3, <1>4, Typed DEF CallsOK
<1>7. PlaceOK' /\ ServerOK' BY <1>1, Typed DEF PlaceOK, ServerOK
<1>8. \A f, g \in fetches : f.id = g.id => f = g
  BY Typed DEF TokenInv
<1>9. \A f, g \in fetches' : f.id = g.id => f = g
  BY <1>2, <1>3, <1>4, <1>8
<1>10. \A f \in fetches' : f.id # 0 /\ f.id <= config'.token /\ (f.id = config'.token => f.id = config'.inFlight)
  BY <1>2, <1>3, <1>4, Typed DEF TokenInv
<1>11. TokenInv' BY <1>3, <1>4, <1>9, <1>10 DEF TokenInv
<1> QED BY <1>5, <1>6, <1>7, <1>11, TypedNext

\* What only moves the page, a save or another page's request.
LEMMA PlainTypes ==
    ASSUME TypeInv, Enter \/ Leave \/ StartSave \/ OtherRequest \/ ServeSave
    PROVE  TypeInv'
<1>1. UNCHANGED <<storeVars, fetches, readers, logins, restore, route, written, verified>>
  BY DEF Enter, Leave, StartSave, OtherRequest, ServeSave
<1>2. StoreOK' /\ CallsOK' /\ TokenInv'
  BY <1>1, Typed DEF StoreOK, CallsOK, TokenInv, storeVars
<1>3. PlaceOK'
  BY <1>1, Typed DEF PlaceOK, Enter, Leave, StartSave, OtherRequest, ServeSave
<1>4. saving' \in Save /\ served' \in [Conns -> 0 .. MaxSaves] /\ others' \in [ConnOrNone -> 0 .. MaxOthers]
  <2>1. /\ saving \in Save /\ served \in [Conns -> 0 .. MaxSaves] /\ client \in ConnOrNone
        /\ others \in [ConnOrNone -> 0 .. MaxOthers]
    BY Typed DEF ServerOK, StoreOK
  <2>2. CASE Enter \/ Leave BY <2>1, <2>2 DEF Enter, Leave
  <2>3. CASE StartSave
    <3>1. client \in Conns BY <2>1, <2>3 DEF StartSave, ConnOrNone
    <3>2. [at |-> "sent", conn |-> client, version |-> 0] \in Save
      BY <3>1, SessionAssumption DEF Save
    <3> QED BY <2>1, <2>3, <3>2 DEF StartSave
  <2>4. CASE OtherRequest
    <3>1. others[client] < MaxOthers /\ others' = [others EXCEPT ![client] = @ + 1]
          /\ UNCHANGED <<saving, served>>
      BY <2>4 DEF OtherRequest
    <3>2. others[client] + 1 \in 0 .. MaxOthers
      BY <2>1, <3>1, SessionAssumption
    <3> QED BY <2>1, <3>1, <3>2
  <2>5. CASE ServeSave
    <3>1. /\ saving.at = "sent" /\ served[saving.conn] < MaxSaves
          /\ served' = [served EXCEPT ![saving.conn] = @ + 1]
          /\ saving' = [saving EXCEPT !.at = "applied", !.version = served'[saving.conn]]
          /\ UNCHANGED others
      BY <2>5 DEF ServeSave
    <3>2. saving \in [at : {"sent", "applied"}, conn : Conns, version : 0 .. MaxSaves]
      BY <2>1, <3>1 DEF Save, NotSaving
    <3>3. served[saving.conn] + 1 \in 0 .. MaxSaves
      BY <2>1, <3>1, <3>2, SessionAssumption
    <3>4. served' \in [Conns -> 0 .. MaxSaves] /\ served'[saving.conn] \in 0 .. MaxSaves
      BY <2>1, <3>1, <3>2, <3>3
    <3>5. saving' \in [at : {"sent", "applied"}, conn : Conns, version : 0 .. MaxSaves]
      BY <3>1, <3>2, <3>4
    <3> QED BY <2>1, <3>1, <3>4, <3>5 DEF Save
  <2> QED BY <2>2, <2>3, <2>4, <2>5
<1>5. ServerOK' BY <1>1, <1>4, Typed DEF ServerOK
<1> QED BY <1>2, <1>3, <1>5, TypedNext

LEMMA ClearLoginStorageTypes == ASSUME TypeInv, ClearLoginStorage PROVE TypeInv'
<1>1. Logout /\ UNCHANGED <<fetches, readers, logins, page, route, saving, others, served, written, verified>>
  BY DEF ClearLoginStorage
<1>2. StoreOK' /\ restore' \in RestoreStates /\ TokenInv'
  BY <1>1, LogoutEffect
<1>3. CallsOK' /\ PlaceOK' /\ ServerOK'
  BY <1>1, <1>2, Typed DEF CallsOK, PlaceOK, ServerOK, RestoreStates
<1> QED BY <1>2, <1>3, TypedNext

LEMMA FreshTypes == FreshConfig \in ConfigType /\ NotSaving \in Save
<1>1. NoData \in Data
  BY SessionAssumption DEF NoData, Data, ConnOrNone
<1> QED BY <1>1 DEF FreshConfig, ConfigType, Save

LEMMA ReloadTypes == ASSUME TypeInv, NEW protected \in BOOLEAN, Reload(protected) PROVE TypeInv'
<1>1. /\ client' = NoConn /\ config' = FreshConfig
      /\ fetches' = {} /\ readers' = {} /\ logins' = {}
      /\ restore' = "none" /\ page' = "probing" /\ saving' = NotSaving
      /\ others' = [c \in ConnOrNone |-> 0]
      /\ UNCHANGED <<flag, served, written, verified>>
  BY DEF Reload
<1>2. auth' \in AuthType
  <2>1. auth' = [auth EXCEPT !.ok = FALSE, !.status = "disconnected",
                             !.conn = IF auth.remember THEN @ ELSE NoConn]
    BY DEF Reload
  <2> QED BY <2>1, Typed DEF StoreOK, AuthType, ConnOrNone
<1>3. route' \in {"idle", "probing"}
  BY DEF Reload
<1>4. StoreOK' BY <1>1, <1>2, FreshTypes, Typed DEF StoreOK, ConnOrNone
<1>5. CallsOK' BY <1>1 DEF CallsOK
<1>6. PlaceOK' BY <1>1, <1>3 DEF PlaceOK
<1>7. 0 \in 0 .. MaxOthers BY SessionAssumption
<1>8. ServerOK' BY <1>1, <1>7, FreshTypes, Typed DEF ServerOK
<1>9. TokenInv' BY <1>1 DEF TokenInv, FreshConfig
<1> QED BY <1>4, <1>5, <1>6, <1>8, <1>9, TypedNext

\* The server's reading of a request leaves its id alone.
LEMMA ServeFetchEffect ==
    ASSUME TypeInv, NEW f \in fetches, ServeFetch(f)
    PROVE  \E g \in Fetch : /\ g.id = f.id /\ g.conn = f.conn /\ g.version = served[f.conn]
                            /\ f.conn \in Conns
                            /\ fetches' = (fetches \ {f}) \cup {g}
<1>1. f \in Fetch /\ served \in [Conns -> 0 .. MaxSaves]
  BY Typed DEF CallsOK, ServerOK
<1>2. f.conn \in Conns /\ fetches' = (fetches \ {f}) \cup {[f EXCEPT !.version = served[f.conn]]}
  BY <1>1 DEF ServeFetch, Fetch, ConnOrNone
<1>3. [f EXCEPT !.version = served[f.conn]] \in Fetch
  BY <1>1, <1>2 DEF Fetch
<1>4. /\ [f EXCEPT !.version = served[f.conn]].id = f.id
      /\ [f EXCEPT !.version = served[f.conn]].conn = f.conn
      /\ [f EXCEPT !.version = served[f.conn]].version = served[f.conn]
  BY <1>1 DEF Fetch
<1> QED BY <1>2, <1>3, <1>4

LEMMA ServeFetchTypes == ASSUME TypeInv, NEW f \in fetches, ServeFetch(f) PROVE TypeInv'
<1>1. UNCHANGED <<storeVars, readers, logins, restore, page, route, saving, others, served, written, verified>>
  BY DEF ServeFetch
<1>2. PICK g \in Fetch : g.id = f.id /\ fetches' = (fetches \ {f}) \cup {g}
  BY ServeFetchEffect
<1>3. StoreOK' /\ PlaceOK' /\ ServerOK'
  BY <1>1, Typed DEF StoreOK, PlaceOK, ServerOK, storeVars
<1>4. fetches \subseteq Fetch /\ readers \subseteq {h.id : h \in fetches} /\ logins \subseteq Login
  BY Typed DEF CallsOK
<1>5. {h.id : h \in fetches'} = {h.id : h \in fetches}
  BY <1>2
<1>6. CallsOK' BY <1>1, <1>2, <1>4, <1>5 DEF CallsOK
<1>7. \A h, k \in fetches : h.id = k.id => h = k
  BY Typed DEF TokenInv
<1>8. \A h, k \in fetches' : h.id = k.id => h = k
  BY <1>2, <1>7
<1>9. \A h \in fetches' : h.id # 0 /\ h.id <= config.token /\ (h.id = config.token => h.id = config.inFlight)
  BY <1>2, Typed DEF TokenInv
<1>10. config.inFlight # 0 => \E h \in fetches' : h.id = config.inFlight
  BY <1>2, Typed DEF TokenInv
<1>11. TokenInv' BY <1>1, <1>8, <1>9, <1>10, Typed DEF TokenInv, storeVars
<1> QED BY <1>3, <1>6, <1>11, TypedNext

LEMMA AuthenticatedEffect ==
    ASSUME TypeInv, NEW l \in Login, Authenticated(l)
    PROVE  /\ auth' \in AuthType /\ client' = l.conn /\ client' \in ConnOrNone /\ flag' \in BOOLEAN
           /\ auth'.ok = TRUE /\ auth'.conn = l.conn
  BY DEF Authenticated, Login, AuthType

\* What the answer 200 makes of the configuration store.
LEMMA SucceedsConfig ==
    ASSUME TypeInv, NEW f \in fetches, FetchSucceeds(f)
    PROVE  /\ config' \in ConfigType /\ config'.data = Stored(f).data
           /\ config'.token = config.token
           /\ config'.inFlight = IF f.id = config.inFlight THEN 0 ELSE config.inFlight
<1>1. /\ Stored(f) \in ConfigType /\ Stored(f).token = config.token
      /\ Stored(f).inFlight = IF f.id = config.inFlight THEN 0 ELSE config.inFlight
  BY StoredEffect DEF FetchSucceeds
<1>2. CASE config' = Stored(f)
  BY <1>1, <1>2
<1>3. ASSUME NEW l \in LoginsOn(f), config' = [Stored(f) EXCEPT !.takenOver = TakesOver(l, f)]
      PROVE  /\ config' \in ConfigType /\ config'.data = Stored(f).data
             /\ config'.token = Stored(f).token /\ config'.inFlight = Stored(f).inFlight
  <2>1. TakesOver(l, f) \in BOOLEAN
    BY Typed DEF TakesOver, StoreOK, AuthType, ConfigType
  <2> QED BY <1>1, <1>3, <2>1 DEF ConfigType
<1> QED BY <1>1, <1>2, <1>3 DEF FetchSucceeds

LEMMA StoredConn ==
    ASSUME TypeInv, NEW f \in fetches, f.version # Unread, f.id = config.inFlight
    PROVE  Stored(f).data.conn = f.conn
<1>1. Stored(f).data = [conn |-> f.conn, version |-> f.version, from |-> "fetch"] BY StoredEffect
<1> QED BY <1>1

LEMMA FetchSucceedsTypes == ASSUME TypeInv, NEW f \in fetches, FetchSucceeds(f) PROVE TypeInv'
<1>1. /\ Answered(f) /\ verified' = verified \cup {f.conn} /\ logins' = logins \ LoginsOn(f)
      /\ UNCHANGED <<route, saving, others, served, written>>
  BY DEF FetchSucceeds
<1>2. TokenInv' BY <1>1, SucceedsConfig, AnsweredEffect, OneLess
<1>3. CallsOK' BY <1>1, AnsweredEffect, Typed DEF CallsOK
<1>4. f.conn \in ConnOrNone BY Typed DEF CallsOK, Fetch
<1>5. ServerOK' BY <1>1, <1>4, Typed DEF ServerOK
<1>6. LoginsOn(f) \subseteq Login BY Typed DEF LoginsOn, CallsOK
<1>7. CASE UNCHANGED <<auth, flag, client, restore, page>>
  <2>1. StoreOK' /\ PlaceOK' BY <1>1, <1>7, SucceedsConfig, Typed DEF StoreOK, PlaceOK
  <2> QED BY <1>2, <1>3, <1>5, <2>1, TypedNext
<1>8. ASSUME NEW l \in LoginsOn(f), Authenticated(l), LoginEnds(l, TRUE, restore)
      PROVE  TypeInv'
  <2>1. StoreOK' BY <1>6, <1>8, AuthenticatedEffect, SucceedsConfig DEF StoreOK
  <2>2. restore \in RestoreStates BY Typed DEF PlaceOK, RestoreStates
  <2>3. PlaceOK' BY <1>1, <1>8, <2>2, LoginEndsEffect, Typed DEF PlaceOK, RestoreStates, PageStates
  <2> QED BY <1>2, <1>3, <1>5, <2>1, <2>3, TypedNext
<1> QED BY <1>7, <1>8 DEF FetchSucceeds

LEMMA FetchFailsTypes == ASSUME TypeInv, NEW f \in fetches, FetchFails(f) PROVE TypeInv'
<1>1. /\ Answered(f)
      /\ config' = IF f.id = config.inFlight THEN [config EXCEPT !.inFlight = 0] ELSE config
      /\ UNCHANGED <<flag, client, route, saving, others, served, written, verified>>
  BY DEF FetchFails
<1>2. config' \in ConfigType /\ config'.token = config.token
      /\ config'.inFlight = IF f.id = config.inFlight THEN 0 ELSE config.inFlight
  BY <1>1, Typed DEF StoreOK, ConfigType
<1>3. TokenInv' BY <1>1, <1>2, AnsweredEffect, OneLess
<1>4. ServerOK' BY <1>1, Typed DEF ServerOK
<1>5. auth' \in AuthType /\ logins' \subseteq Login /\ restore' \in RestoreStates /\ page' \in PageStates
  <2>1. auth \in AuthType /\ logins \subseteq Login /\ restore \in RestoreStates /\ page \in PageStates
    BY Typed DEF StoreOK, CallsOK, PlaceOK, RestoreStates, PageStates
  <2>2. ASSUME NEW l \in LoginsOn(f), LoginFails(l, auth, restore)
        PROVE  /\ auth' \in AuthType /\ logins' \subseteq Login
               /\ restore' \in RestoreStates /\ page' \in PageStates
    <3>1. l \in logins BY DEF LoginsOn
    <3> QED BY <2>1, <2>2, <3>1, LoginFailsEffect
  <2> QED BY <2>1, <2>2 DEF FetchFails
<1>6. StoreOK' BY <1>1, <1>2, <1>5, Typed DEF StoreOK
<1>7. CallsOK' BY <1>1, <1>5, AnsweredEffect DEF CallsOK
<1>8. PlaceOK' BY <1>1, <1>5, Typed DEF PlaceOK, RestoreStates, PageStates
<1> QED BY <1>3, <1>4, <1>6, <1>7, <1>8, TypedNext

LEMMA FetchDeniedTypes == ASSUME TypeInv, NEW f \in fetches, FetchDenied(f) PROVE TypeInv'
<1>1. /\ Answered(f) /\ flag' = FALSE /\ client' = NoConn /\ config' = ClearedConfig
      /\ UNCHANGED <<route, saving, others, served, written, verified>>
  BY DEF FetchDenied
<1>2. config \in ConfigType /\ auth \in AuthType BY Typed DEF StoreOK
<1>3. TokenInv' BY <1>1, <1>2, Cleared, AnsweredEffect, Renewed
<1>4. ServerOK' BY <1>1, Typed DEF ServerOK
<1>5. auth' \in AuthType /\ logins' \subseteq Login /\ restore' \in RestoreStates /\ page' \in PageStates
  <2>1. LoggedOut \in AuthType /\ logins \subseteq Login /\ "none" \in RestoreStates /\ page \in PageStates
    BY <1>2, Ended, Typed DEF CallsOK, PlaceOK, RestoreStates, PageStates
  <2>2. ASSUME NEW l \in LoginsOn(f), LoginFails(l, LoggedOut, "none")
        PROVE  /\ auth' \in AuthType /\ logins' \subseteq Login
               /\ restore' \in RestoreStates /\ page' \in PageStates
    <3>1. l \in logins BY DEF LoginsOn
    <3> QED BY <2>1, <2>2, <3>1, LoginFailsEffect
  <2> QED BY <2>1, <2>2 DEF FetchDenied
<1>6. StoreOK' BY <1>1, <1>2, <1>5, Cleared DEF StoreOK, ConnOrNone
<1>7. CallsOK' BY <1>1, <1>5, AnsweredEffect DEF CallsOK
<1>8. PlaceOK' BY <1>1, <1>5, Typed DEF PlaceOK, RestoreStates, PageStates
<1> QED BY <1>3, <1>4, <1>6, <1>7, <1>8, TypedNext

LEMMA ManagerAnswersTypes == ASSUME TypeInv, NEW l \in logins, ManagerAnswers(l) PROVE TypeInv'
<1>1. UNCHANGED <<fetches, readers, route, saving, others, served, written>>
  BY DEF ManagerAnswers
<1>2. config \in ConfigType /\ auth \in AuthType /\ l \in Login /\ logins \subseteq Login
  BY Typed DEF StoreOK, CallsOK
<1>3. restore \in RestoreStates BY Typed DEF PlaceOK, RestoreStates
<1>4. CASE /\ Authenticated(l) /\ config' = ClearedConfig /\ verified' = verified \cup {l.conn}
           /\ logins' = logins \ {l} /\ LoginEnds(l, TRUE, restore)
  <2>1. StoreOK' BY <1>2, <1>4, AuthenticatedEffect, Cleared DEF StoreOK
  <2>2. TokenInv' BY <1>1, <1>2, <1>4, Cleared, Renewed
  <2>3. CallsOK' BY <1>1, <1>2, <1>4, Typed DEF CallsOK
  <2>4. PlaceOK' BY <1>1, <1>3, <1>4, LoginEndsEffect, Typed DEF PlaceOK, RestoreStates, PageStates
  <2>5. l.conn \in ConnOrNone BY <1>2 DEF Login
  <2>6. ServerOK' BY <1>1, <1>4, <2>5, Typed DEF ServerOK
  <2> QED BY <2>1, <2>2, <2>3, <2>4, <2>6, TypedNext
<1>5. CASE LoginFails(l, auth, restore) /\ UNCHANGED <<flag, client, config, verified>>
  <2>1. auth' \in AuthType /\ logins' \subseteq Login /\ restore' \in RestoreStates /\ page' \in PageStates
    BY <1>2, <1>3, <1>5, LoginFailsEffect
  <2>2. StoreOK' /\ CallsOK' BY <1>1, <1>5, <2>1, Typed DEF StoreOK, CallsOK
  <2>3. PlaceOK' BY <1>1, <2>1, Typed DEF PlaceOK, RestoreStates, PageStates
  <2>4. ServerOK' /\ TokenInv' BY <1>1, <1>5, Typed DEF ServerOK, TokenInv
  <2> QED BY <2>2, <2>3, <2>4, TypedNext
<1> QED BY <1>4, <1>5 DEF ManagerAnswers

\* What a save leaves in the store once its answer is there.
LEMMA SaveAnswersEffect ==
    ASSUME TypeInv, saving.at = "applied", config' = UpdatedConfig(saving)
    PROVE  /\ saving.conn \in Conns /\ saving.version \in 0 .. MaxSaves
           /\ config' \in ConfigType /\ config'.token = config.token + 1 /\ config'.inFlight = 0
           /\ config'.data = [conn |-> saving.conn, version |-> saving.version, from |-> "save"]
<1>1. config \in ConfigType /\ saving \in Save BY Typed DEF StoreOK, ServerOK
<1>2. saving.conn \in Conns /\ saving.version \in 0 .. MaxSaves
  BY <1>1 DEF Save, NotSaving
<1>3. PICK d \in Data : d = [conn |-> saving.conn, version |-> saving.version, from |-> "save"]
  BY <1>2 DEF Data, ConnOrNone
<1>4. PICK n \in Nat : n = config.token + 1
  BY <1>1 DEF ConfigType
<1>5. PICK c \in ConfigType : c = [config EXCEPT !.data = d]
  BY <1>1 DEF ConfigType
<1>6. config' = SectionCleared(c)
  BY <1>3, <1>5, Zenon DEF UpdatedConfig
<1>7. c \in ConfigType /\ c.data = d /\ n = c.token + 1
  BY <1>1, <1>4, <1>5 DEF ConfigType
<1>8. config' = [c EXCEPT !.cached = FALSE, !.token = n, !.inFlight = 0]
  <2>1. SectionCleared(c) = [c EXCEPT !.cached = FALSE, !.token = n, !.inFlight = 0]
    BY <1>7 DEF SectionCleared
  <2> QED BY <1>6, <2>1
<1>9. config' \in ConfigType /\ config'.token = n /\ config'.inFlight = 0 /\ config'.data = d
  <2>1. c.data \in Data /\ c.takenOver \in BOOLEAN
    BY <1>7 DEF ConfigType
  <2>2. config' = [data |-> c.data, cached |-> FALSE, token |-> n, inFlight |-> 0,
                   takenOver |-> c.takenOver]
    BY <1>7, <1>8 DEF ConfigType
  <2> QED BY <1>7, <2>1, <2>2 DEF ConfigType
<1> QED BY <1>2, <1>3, <1>4, <1>9

LEMMA SaveAnswersTypes == ASSUME TypeInv, SaveAnswers PROVE TypeInv'
<1>1. /\ saving' = NotSaving
      /\ UNCHANGED <<auth, flag, client, fetches, readers, logins, restore, page, route, others, served, verified>>
  BY DEF SaveAnswers
<1>2. CallsOK' /\ PlaceOK' BY <1>1, Typed DEF CallsOK, PlaceOK
<1>3. CASE /\ saving.at = "applied" /\ config' = UpdatedConfig(saving)
           /\ written' = [written EXCEPT ![saving.conn] = saving.version]
  <2>1. StoreOK' BY <1>1, <1>3, SaveAnswersEffect, Typed DEF StoreOK
  <2>2. TokenInv' BY <1>1, <1>3, SaveAnswersEffect, Renewed
  <2>3. written' \in [ConnOrNone -> 0 .. MaxSaves]
    BY <1>3, SaveAnswersEffect, Typed DEF ServerOK
  <2>4. ServerOK' BY <1>1, <2>3, FreshTypes, Typed DEF ServerOK
  <2> QED BY <1>2, <2>1, <2>2, <2>4, TypedNext
<1>4. CASE UNCHANGED <<config, written>>
  <2>1. StoreOK' /\ TokenInv' BY <1>1, <1>4, Typed DEF StoreOK, TokenInv
  <2>2. ServerOK' BY <1>1, <1>4, FreshTypes, Typed DEF ServerOK
  <2> QED BY <1>2, <2>1, <2>2, TypedNext
<1> QED BY <1>3, <1>4 DEF SaveAnswers

LEMMA OtherAnswersTypes == ASSUME TypeInv, NEW c \in ConnOrNone, OtherAnswers(c) PROVE TypeInv'
<1>1. /\ others[c] > 0 /\ others' = [others EXCEPT ![c] = @ - 1]
      /\ UNCHANGED <<fetches, readers, logins, page, route, saving, served, written, verified>>
  BY DEF OtherAnswers
<1>2. others \in [ConnOrNone -> 0 .. MaxOthers] BY Typed DEF ServerOK
<1>3. others[c] - 1 \in 0 .. MaxOthers BY <1>1, <1>2, SessionAssumption
<1>4. ServerOK' BY <1>1, <1>2, <1>3, Typed DEF ServerOK
<1>5. CallsOK' BY <1>1, Typed DEF CallsOK
<1>6. StoreOK' /\ restore' \in RestoreStates /\ TokenInv'
  <2>1. CASE UNCHANGED <<storeVars, restore>>
    BY <1>1, <2>1, Typed DEF StoreOK, PlaceOK, TokenInv, storeVars, RestoreStates
  <2>2. CASE Logout BY <1>1, <2>2, LogoutEffect
  <2> QED BY <2>1, <2>2 DEF OtherAnswers
<1>7. PlaceOK' BY <1>1, <1>6, Typed DEF PlaceOK, RestoreStates
<1> QED BY <1>4, <1>5, <1>6, <1>7, TypedNext

LEMMA InitTypes == SessionInit => TypeInv
<1> SUFFICES ASSUME SessionInit PROVE TypeInv
  OBVIOUS
<1>1. StoreOK BY FreshTypes DEF SessionInit, StoreOK, AuthType, ConnOrNone
<1>2. CallsOK /\ PlaceOK
  <2>1. fetches = {} /\ readers = {} /\ logins = {} BY DEF SessionInit
  <2>2. restore = "none" /\ page = "probing" /\ route = "idle" BY DEF SessionInit
  <2> QED BY <2>1, <2>2 DEF CallsOK, PlaceOK
<1>3. 0 \in 0 .. MaxOthers /\ 0 \in 0 .. MaxSaves BY SessionAssumption
<1>4. ServerOK BY <1>3, FreshTypes DEF SessionInit, ServerOK
<1>5. TokenInv BY DEF SessionInit, TokenInv, FreshConfig
<1> QED BY <1>1, <1>2, <1>4, <1>5, Groups DEF TypeInv

LEMMA StutterTypes == ASSUME TypeInv, UNCHANGED sessionVars PROVE TypeInv'
<1>1. StoreOK' /\ CallsOK' BY Typed DEF sessionVars, StoreOK, CallsOK
<1>2. PlaceOK' /\ ServerOK' BY Typed DEF sessionVars, PlaceOK, ServerOK
<1>3. TokenInv' BY Typed DEF sessionVars, TokenInv
<1> QED BY <1>1, <1>2, <1>3, TypedNext

LEMMA TypeStep == TypeInv /\ [SessionNext]_sessionVars => TypeInv'
<1> SUFFICES ASSUME TypeInv, [SessionNext]_sessionVars PROVE TypeInv'
  OBVIOUS
<1>1. CASE SessionUser
  BY <1>1, SubmitTypes, PageFetchTypes, RefreshAllTypes, PlainTypes, ClearLoginStorageTypes, ReloadTypes
  DEF SessionUser
<1>2. CASE SessionAnswers
  BY <1>2, FetchSucceedsTypes, FetchFailsTypes, FetchDeniedTypes, ManagerAnswersTypes DEF SessionAnswers
<1>3. CASE \E m \in Modes : InitLoginPage(m) \/ TryRestore(m)
  BY <1>3, LoginPageTypes
<1>4. CASE Enter \/ Leave \/ ServeSave
  BY <1>4, PlainTypes
<1>5. CASE \E f \in fetches : ServeFetch(f)
  BY <1>5, ServeFetchTypes
<1>6. CASE SaveAnswers BY <1>6, SaveAnswersTypes
<1>7. CASE \E c \in ConnOrNone : OtherAnswers(c) BY <1>7, OtherAnswersTypes
<1>8. CASE UNCHANGED sessionVars BY <1>8, StutterTypes
<1> QED BY <1>1, <1>2, <1>3, <1>4, <1>5, <1>6, <1>7, <1>8 DEF SessionNext

\* The session's variables keep their types, and the request a page may join is
\* always the latest one, under way (useConfigStore.ts, fetchConfig and
\* clearCache): nobody ever waits for a request that has ended.
THEOREM TypeCorrect == SessionSpec => [](SessionTypeOK /\ TokenInv)
<1>1. SessionInit => TypeInv BY InitTypes
<1>2. TypeInv /\ [SessionNext]_sessionVars => TypeInv' BY TypeStep
<1>3. TypeInv => SessionTypeOK /\ TokenInv BY DEF TypeInv
<1> QED BY <1>1, <1>2, <1>3, PTL DEF SessionSpec

(***************************************************************************)
(* The store never falls behind what this panel wrote.  What makes it      *)
(* inductive: the request that may still fill the store, the latest one,   *)
(* was read from the server after the last save that was told to the store.*)
(***************************************************************************)

NotBehind(version, conn) == version >= written[conn]

WriteInv ==
    /\ \A c \in Conns : served[c] >= written[c]
    /\ saving.at = "applied" => served[saving.conn] >= saving.version
    /\ \A f \in fetches : f.id = config.token /\ f.version # Unread => NotBehind(f.version, f.conn)
    /\ OwnWritesStay

\* What most steps do to the requests and to the data: a request was there or is
\* unread, and the data stay or go.
CallsKept == \A f \in fetches' : f.version = Unread \/ (f \in fetches /\ config'.token >= config.token)
DataKept == config'.data \in {config.data, NoData}
Quiet == /\ CallsKept /\ DataKept
         /\ UNCHANGED <<served, written>> /\ (saving' = saving \/ saving'.at # "applied")

LEMMA QuietKeepsWrites == ASSUME TypeInv, TypeInv', WriteInv, Quiet PROVE WriteInv'
<1>1. served' = served /\ written' = written /\ (saving' = saving \/ saving'.at # "applied")
  BY DEF Quiet
<1>2. config.token \in Nat /\ config'.token \in Nat /\ \A f \in fetches : f.id \in Nat /\ f.id <= config.token
  BY Typed DEF TypeInv, SessionTypeOK, StoreOK, ConfigType, CallsOK, TokenInv, Fetch
<1>3. ASSUME NEW f \in fetches', f.id = config'.token, f.version # Unread
      PROVE  f.version >= written[f.conn]
  <2>1. f \in fetches /\ config'.token >= config.token
    BY <1>3 DEF Quiet, CallsKept
  <2>2. f.id = config.token BY <1>2, <1>3, <2>1
  <2> QED BY <1>3, <2>1, <2>2 DEF WriteInv, NotBehind
<1>4. config'.data.from # "none" => config'.data.version >= written[config'.data.conn]
  BY DEF Quiet, DataKept, NoData, WriteInv, OwnWritesStay
<1>5. \A f \in fetches' : f.id = config'.token /\ f.version # Unread => f.version >= written'[f.conn]
  BY <1>1, <1>3
<1>6. config'.data.from # "none" => config'.data.version >= written'[config'.data.conn]
  BY <1>1, <1>4
<1>7. \A c \in Conns : served'[c] >= written'[c]
  BY <1>1 DEF WriteInv
<1>8. saving'.at = "applied" => served'[saving'.conn] >= saving'.version
  BY <1>1 DEF WriteInv
<1> QED BY <1>5, <1>6, <1>7, <1>8 DEF WriteInv, OwnWritesStay, NotBehind

LEMMA FetchConfigQuiet ==
    ASSUME TypeInv, client' \in ConnOrNone, FetchConfig PROVE CallsKept /\ DataKept
<1>1. config.token \in Nat BY Typed DEF StoreOK, ConfigType
<1>2. CASE Joins
  BY <1>1, <1>2 DEF FetchConfig, CallsKept, DataKept
<1>3. CASE ~Joins
  <2>1. fetches' = fetches \cup {[id |-> config.token + 1, conn |-> client', version |-> Unread]}
        /\ config' = [config EXCEPT !.token = @ + 1, !.inFlight = config.token + 1]
    BY <1>3 DEF FetchConfig
  <2>2. config'.token = config.token + 1 /\ config'.data = config.data
    BY <2>1, Typed DEF StoreOK, ConfigType
  <2> QED BY <1>1, <2>1, <2>2 DEF CallsKept, DataKept
<1> QED BY <1>2, <1>3

LEMMA RestoreSessionQuiet ==
    ASSUME TypeInv, NEW mode \in Modes, RestoreSession(mode) PROVE CallsKept /\ DataKept
<1>1. config.token \in Nat /\ auth.conn \in ConnOrNone BY Typed DEF StoreOK, ConfigType, AuthType
<1>2. CASE UNCHANGED <<config, fetches>>
  BY <1>1, <1>2 DEF CallsKept, DataKept
<1>3. CASE StartLogin(auth.conn, Remembers, mode, "restore")
  BY <1>1, <1>3, FetchConfigQuiet DEF StartLogin
<1> QED BY <1>2, <1>3 DEF RestoreSession, ForgetSession, storeVars

LEMMA ClearedQuiet ==
    ASSUME TypeInv, config' = ClearedConfig, fetches' \subseteq fetches PROVE CallsKept /\ DataKept
<1>1. config \in ConfigType /\ config.token \in Nat BY Typed DEF StoreOK, ConfigType
<1> QED BY <1>1, Cleared DEF CallsKept, DataKept

LEMMA UserQuiet == ASSUME TypeInv, SessionUser PROVE Quiet
<1>1. client \in ConnOrNone /\ config.token \in Nat BY Typed DEF StoreOK, ConfigType
<1>2. ASSUME NEW c \in Conns, NEW r \in BOOLEAN, NEW m \in Modes, Submit(c, r, m) PROVE Quiet
  <2>1. client' \in ConnOrNone /\ FetchConfig BY <1>2 DEF Submit, StartLogin, ConnOrNone
  <2>2. UNCHANGED <<saving, served, written>> BY <1>2 DEF Submit
  <2> QED BY <2>1, <2>2, FetchConfigQuiet DEF Quiet
<1>3. ASSUME NEW force \in BOOLEAN, PageFetch(force) PROVE Quiet
  <2>1. client' \in ConnOrNone /\ FetchConfig BY <1>1, <1>3 DEF PageFetch
  <2>2. UNCHANGED <<saving, served, written>> BY <1>3 DEF PageFetch
  <2> QED BY <2>1, <2>2, FetchConfigQuiet DEF Quiet
<1>4. CASE RefreshAll
  <2>1. CallsKept /\ DataKept BY <1>1, <1>4, RefreshAllEffect DEF CallsKept, DataKept
  <2> QED BY <1>4, <2>1 DEF RefreshAll, Quiet
<1>5. CASE StartSave \/ OtherRequest
  <2>1. UNCHANGED <<config, fetches, served, written>> /\ (saving' = saving \/ saving'.at # "applied")
    BY <1>5 DEF StartSave, OtherRequest, storeVars
  <2> QED BY <1>1, <2>1 DEF Quiet, CallsKept, DataKept
<1>6. CASE ClearLoginStorage
  <2>1. config' = ClearedConfig /\ UNCHANGED <<fetches, saving, served, written>>
    BY <1>6 DEF ClearLoginStorage, Logout
  <2> QED BY <2>1, ClearedQuiet DEF Quiet
<1>7. ASSUME NEW p \in BOOLEAN, Reload(p) PROVE Quiet
  <2>1. config' = FreshConfig /\ fetches' = {} /\ saving' = NotSaving /\ UNCHANGED <<served, written>>
    BY <1>7 DEF Reload
  <2> QED BY <2>1 DEF Quiet, CallsKept, DataKept, FreshConfig, NotSaving
<1> QED BY <1>2, <1>3, <1>4, <1>5, <1>6, <1>7 DEF SessionUser

LEMMA AnswersQuiet ==
    ASSUME TypeInv, \/ \E f \in fetches : FetchFails(f) \/ FetchDenied(f)
                    \/ \E l \in logins : ManagerAnswers(l)
                    \/ \E c \in ConnOrNone : OtherAnswers(c)
    PROVE  Quiet
<1>1. UNCHANGED <<saving, served, written>>
  BY DEF FetchFails, FetchDenied, ManagerAnswers, OtherAnswers
<1>2. config \in ConfigType /\ config.token \in Nat BY Typed DEF StoreOK, ConfigType
<1>3. ASSUME NEW f \in fetches, FetchFails(f) PROVE CallsKept /\ DataKept
  <2>1. /\ fetches' = fetches \ {f}
        /\ config' = IF f.id = config.inFlight THEN [config EXCEPT !.inFlight = 0] ELSE config
    BY <1>3 DEF FetchFails, Answered
  <2>2. config'.token = config.token /\ config'.data = config.data
    BY <1>2, <2>1 DEF ConfigType
  <2> QED BY <1>2, <2>1, <2>2 DEF CallsKept, DataKept
<1>4. ASSUME NEW f \in fetches, FetchDenied(f) PROVE CallsKept /\ DataKept
  BY <1>4, ClearedQuiet DEF FetchDenied, Answered
<1>5. ASSUME NEW l \in logins, ManagerAnswers(l) PROVE CallsKept /\ DataKept
  <2>1. fetches' = fetches /\ (config' = ClearedConfig \/ config' = config)
    BY <1>5 DEF ManagerAnswers
  <2> QED BY <1>2, <2>1, ClearedQuiet DEF CallsKept, DataKept
<1>6. ASSUME NEW c \in ConnOrNone, OtherAnswers(c) PROVE CallsKept /\ DataKept
  <2>1. fetches' = fetches /\ (config' = ClearedConfig \/ config' = config)
    BY <1>6 DEF OtherAnswers, Logout, storeVars
  <2> QED BY <1>2, <2>1, ClearedQuiet DEF CallsKept, DataKept
<1> QED BY <1>1, <1>3, <1>4, <1>5, <1>6 DEF Quiet

LEMMA PlacesQuiet ==
    ASSUME TypeInv, (\E m \in Modes : InitLoginPage(m) \/ TryRestore(m)) \/ Enter \/ Leave
    PROVE  Quiet
<1>1. UNCHANGED <<saving, served, written>>
  BY DEF InitLoginPage, TryRestore, Enter, Leave
<1>2. config.token \in Nat BY Typed DEF StoreOK, ConfigType
<1>3. CASE Enter \/ Leave
  <2>1. UNCHANGED <<config, fetches>> BY <1>3 DEF Enter, Leave, storeVars
  <2> QED BY <1>1, <1>2, <2>1 DEF Quiet, CallsKept, DataKept
<1>4. ASSUME NEW m \in Modes, RestoreSession(m) PROVE Quiet
  BY <1>1, <1>4, RestoreSessionQuiet DEF Quiet
<1> QED BY <1>3, <1>4 DEF InitLoginPage, TryRestore

LEMMA FetchSucceedsWrites ==
    ASSUME TypeInv, TypeInv', WriteInv, NEW f \in fetches, FetchSucceeds(f) PROVE WriteInv'
<1>1. /\ UNCHANGED <<saving, served, written>> /\ f.version # Unread
      /\ fetches' = fetches \ {f} /\ config'.token = config.token /\ config'.data = Stored(f).data
  BY SucceedsConfig DEF FetchSucceeds, Answered
<1>2. f.id = config.inFlight => f.id = config.token
  BY Typed DEF TokenInv
<1>3. config'.data.from # "none" => config'.data.version >= written[config'.data.conn]
  <2>1. CASE f.id = config.inFlight
    <3>1. f.version >= written[f.conn] BY <1>1, <1>2, <2>1 DEF WriteInv, NotBehind
    <3>2. config'.data = [conn |-> f.conn, version |-> f.version, from |-> "fetch"]
      BY <1>1, <2>1, StoredEffect
    <3> QED BY <3>1, <3>2
  <2>2. CASE f.id # config.inFlight
    <3>1. config'.data = config.data BY <1>1, <2>2, StoredEffect
    <3> QED BY <3>1 DEF WriteInv, OwnWritesStay
  <2> QED BY <2>1, <2>2
<1> QED BY <1>1, <1>3 DEF WriteInv, OwnWritesStay, NotBehind

LEMMA ServeFetchWrites ==
    ASSUME TypeInv, WriteInv, NEW f \in fetches, ServeFetch(f) PROVE WriteInv'
<1>1. UNCHANGED <<config, saving, served, written>> BY DEF ServeFetch, storeVars
<1>2. PICK g \in Fetch : /\ g.conn = f.conn /\ g.version = served[f.conn] /\ f.conn \in Conns
                         /\ fetches' = (fetches \ {f}) \cup {g}
  BY ServeFetchEffect
<1>3. g.version >= written[g.conn] BY <1>2 DEF WriteInv
<1> QED BY <1>1, <1>2, <1>3 DEF WriteInv, OwnWritesStay, NotBehind

LEMMA ServeSaveWrites == ASSUME TypeInv, WriteInv, ServeSave PROVE WriteInv'
<1>1. /\ saving.at = "sent" /\ served' = [served EXCEPT ![saving.conn] = @ + 1]
      /\ saving' = [saving EXCEPT !.at = "applied", !.version = served'[saving.conn]]
      /\ UNCHANGED <<config, fetches, written>>
  BY DEF ServeSave, storeVars
<1>2. /\ saving \in [at : {"sent", "applied"}, conn : Conns, version : 0 .. MaxSaves]
      /\ served \in [Conns -> 0 .. MaxSaves] /\ written \in [ConnOrNone -> 0 .. MaxSaves]
  BY <1>1, Typed DEF ServerOK, Save, NotSaving
<1>3. \A c \in Conns : served'[c] >= served[c] BY <1>1, <1>2
<1>4. \A c \in Conns : c \in ConnOrNone BY DEF ConnOrNone
<1>5. \A c \in Conns : served'[c] \in Int /\ served[c] \in Int /\ written[c] \in Int
  BY <1>1, <1>2, <1>4
<1>6. \A c \in Conns : served'[c] >= written[c] BY <1>3, <1>5 DEF WriteInv
<1>7. saving'.conn = saving.conn /\ saving'.version = served'[saving.conn]
  BY <1>1, <1>2
<1>8. served'[saving'.conn] >= saving'.version BY <1>2, <1>5, <1>7
<1> QED BY <1>1, <1>6, <1>8 DEF WriteInv, OwnWritesStay, NotBehind

LEMMA SaveAnswersWrites == ASSUME TypeInv, TypeInv', WriteInv, SaveAnswers PROVE WriteInv'
<1>1. saving' = NotSaving /\ UNCHANGED <<fetches, served>> BY DEF SaveAnswers
<1>2. saving'.at # "applied" BY <1>1 DEF NotSaving
<1>3. CASE UNCHANGED <<config, written>>
  BY <1>1, <1>2, <1>3 DEF WriteInv, OwnWritesStay, NotBehind
<1>4. CASE /\ saving.at = "applied" /\ config' = UpdatedConfig(saving)
           /\ written' = [written EXCEPT ![saving.conn] = saving.version]
  <2>1. /\ saving.conn \in Conns /\ saving.version \in 0 .. MaxSaves
        /\ config'.token = config.token + 1
        /\ config'.data = [conn |-> saving.conn, version |-> saving.version, from |-> "save"]
    BY <1>4, SaveAnswersEffect
  <2>2. written \in [ConnOrNone -> 0 .. MaxSaves] /\ saving.conn \in ConnOrNone
    BY <2>1, Typed DEF ServerOK, ConnOrNone
  <2>3. \A c \in Conns : served[c] >= written'[c]
    BY <1>4, <2>1, <2>2 DEF WriteInv
  <2>4. config'.data.version >= written'[config'.data.conn]
    BY <1>4, <2>1, <2>2
  <2>5. \A f \in fetches' : f.id # config'.token
    <3>1. config.token \in Nat /\ \A f \in fetches : f.id \in Nat /\ f.id <= config.token
      BY Typed DEF StoreOK, ConfigType, CallsOK, Fetch, TokenInv
    <3> QED BY <1>1, <2>1, <3>1
  <2> QED BY <1>1, <1>2, <2>3, <2>4, <2>5 DEF WriteInv, OwnWritesStay, NotBehind
<1> QED BY <1>3, <1>4 DEF SaveAnswers

LEMMA WriteStep == TypeInv /\ WriteInv /\ [SessionNext]_sessionVars => WriteInv'
<1> SUFFICES ASSUME TypeInv, WriteInv, [SessionNext]_sessionVars PROVE WriteInv'
  OBVIOUS
<1>1. TypeInv' BY TypeStep
<1>2. CASE Quiet BY <1>1, <1>2, QuietKeepsWrites
<1>3. CASE \E f \in fetches : FetchSucceeds(f) BY <1>1, <1>3, FetchSucceedsWrites
<1>4. CASE \E f \in fetches : ServeFetch(f) BY <1>4, ServeFetchWrites
<1>5. CASE ServeSave BY <1>5, ServeSaveWrites
<1>6. CASE SaveAnswers BY <1>1, <1>6, SaveAnswersWrites
<1>7. CASE UNCHANGED sessionVars
  BY <1>7 DEF sessionVars, WriteInv, OwnWritesStay, NotBehind
<1>8. SessionUser \/ (\E m \in Modes : InitLoginPage(m) \/ TryRestore(m)) \/ Enter \/ Leave
      \/ (\E f \in fetches : FetchFails(f) \/ FetchDenied(f)) \/ (\E l \in logins : ManagerAnswers(l))
      \/ (\E c \in ConnOrNone : OtherAnswers(c)) => Quiet
  BY UserQuiet, PlacesQuiet, AnswersQuiet
<1> QED BY <1>2, <1>3, <1>4, <1>5, <1>6, <1>7, <1>8 DEF SessionNext, SessionAnswers

LEMMA WriteInit == SessionInit => WriteInv
<1> SUFFICES ASSUME SessionInit PROVE WriteInv
  OBVIOUS
<1>1. /\ fetches = {} /\ saving = NotSaving /\ config = FreshConfig
      /\ served = [c \in Conns |-> 0] /\ written = [c \in ConnOrNone |-> 0]
  BY DEF SessionInit
<1>2. \A c \in Conns : served[c] = 0 /\ written[c] = 0 BY <1>1 DEF ConnOrNone
<1>3. config.data.from = "none" /\ saving.at # "applied"
  BY <1>1 DEF FreshConfig, NoData, NotSaving
<1> QED BY <1>1, <1>2, <1>3 DEF WriteInv, OwnWritesStay

\* Whatever the order of answers, the panel never shows an older configuration
\* than it has itself written: a save raises the token, so that a request under
\* way is not stored over it (useConfigStore.ts, updateConfigValue).
THEOREM WritesStay == SessionSpec => []OwnWritesStay
<1>1. SessionInit => TypeInv /\ WriteInv BY InitTypes, WriteInit
<1>2. TypeInv /\ WriteInv /\ [SessionNext]_sessionVars => TypeInv' /\ WriteInv'
  BY TypeStep, WriteStep
<1>3. WriteInv => OwnWritesStay BY DEF WriteInv
<1> QED BY <1>1, <1>2, <1>3, PTL DEF SessionSpec

(***************************************************************************)
(* Whoever is let in was accepted, and what was fetched is the session's   *)
(* own.  The difficulty is that a login may join a request under way: the  *)
(* invariant says of which connection that request is, in every place from *)
(* which a login can start.                                                *)
(***************************************************************************)

Current(f) == f.id = config.inFlight
WaitsFor(l) == ~l.manager /\ config.inFlight # 0 /\ l.at = config.inFlight
StillAwaits(l) ==
    \/ l.by = "form" /\ page = "submitting"
    \/ l.by = "restore" /\ restore = "pending" /\ page \in {"probing", "restoring"}

\* The logins: of some connection, waiting for a request of the same one.
LoginsKnown == \A l \in logins : l.conn # NoConn /\ l.at <= config.token
LoginsMatch == \A l \in logins, f \in fetches : ~l.manager /\ l.at = f.id => l.conn = f.conn

\* Where the user is while there is one, and when it is the only one.
FormSubmits == \A l \in logins : l.by = "form" => page = "submitting"
RestoreShows == \A l \in logins : l.by = "restore" => route = "idle" \/ page = "restoring"
OneLogin == \A l, k \in logins :
    l.by = k.by /\ (l.by = "form" \/ route # "idle" \/ (~auth.ok /\ restore = "pending")) => l = k

\* Without a session the request that may be joined belongs to a login the user
\* sees, a remembered key has nobody working for it, and logins elsewhere never
\* come with a place from which a session is restored.
SomeoneWaits == ~auth.ok /\ config.inFlight # 0 => \E l \in logins : WaitsFor(l) /\ StillAwaits(l)
RememberedRests == ~auth.ok /\ restore = "none" /\ auth.conn # NoConn =>
                       page = "probing" /\ logins = {} /\ config.inFlight = 0
StraysApart == \A l \in logins, f \in fetches :
    ~l.manager /\ Current(f) /\ l.at # f.id /\ l.conn # f.conn => route = "idle" /\ page # "probing"

\* With a session, a request of another connection is one of a login, or of the
\* session before a login took over; and so are the data.
SessionClient == auth.ok => client = auth.conn
StrayFetch == \A f \in fetches :
    auth.ok /\ auth.conn # NoConn /\ Current(f) /\ f.conn # auth.conn =>
        /\ route = "idle" /\ page # "probing"
        /\ config.takenOver \/ \E l \in logins : WaitsFor(l)
FetchedInSession == config.data.from = "fetch" =>
    auth.ok /\ (config.takenOver \/ auth.conn \in {config.data.conn, NoConn})

LoginInv == LoginsKnown /\ LoginsMatch /\ FormSubmits /\ RestoreShows /\ OneLogin
PlaceInv == SomeoneWaits /\ RememberedRests /\ StraysApart
SessionInv == SessionClient /\ StrayFetch /\ FetchedInSession /\ AuthenticatedMeansAccepted
IInv == LoginInv /\ PlaceInv /\ SessionInv

\* No request is current while none may be joined.
LEMMA NoneCurrent == ASSUME TypeInv, config.inFlight = 0 PROVE \A f \in fetches : ~Current(f)
  BY Typed DEF TokenInv, Current

LEMMA NoneCurrentNext == ASSUME TypeInv', config'.inFlight = 0 PROVE \A f \in fetches' : ~Current(f)'
<1>1. \A f \in fetches' : f.id # 0 BY DEF TypeInv, TokenInv
<1> QED BY <1>1 DEF Current

\* A logout leaves little to show.
LEMMA LoggedOutInv ==
    ASSUME TypeInv', auth'.ok = FALSE, auth'.conn = NoConn, config'.inFlight = 0,
           config'.data.from # "fetch"
    PROVE  PlaceInv' /\ SessionInv'
<1>1. \A f \in fetches' : ~Current(f)' BY NoneCurrentNext
<1>2. PlaceInv' BY <1>1 DEF PlaceInv, SomeoneWaits, RememberedRests, StraysApart
<1>3. SessionInv'
  BY <1>1 DEF SessionInv, SessionClient, StrayFetch, FetchedInSession, AuthenticatedMeansAccepted
<1> QED BY <1>2, <1>3

\* Logins that stay, or have turned to the manager, keep what is known of them.
Fewer == \A l \in logins' : \E k \in logins : l.by = k.by /\ l.conn = k.conn /\ l.at = k.at
                                            /\ (~l.manager => l = k)

LEMMA FewerMatch ==
    ASSUME TypeInv, IInv, Fewer, \A f \in fetches' : \E g \in fetches : f.id = g.id /\ f.conn = g.conn,
           config'.token \in Nat, config'.token >= config.token
    PROVE  LoginsKnown' /\ LoginsMatch'
<1>1. config.token \in Nat /\ \A l \in logins : l.at \in Nat
  BY Typed DEF StoreOK, ConfigType, CallsOK, Login
<1>2. LoginsKnown /\ LoginsMatch BY DEF IInv, LoginInv
<1>3. LoginsKnown'
  <2> SUFFICES ASSUME NEW l \in logins' PROVE l.conn # NoConn /\ l.at <= config'.token
    BY DEF LoginsKnown
  <2>1. PICK k \in logins : l.conn = k.conn /\ l.at = k.at BY DEF Fewer
  <2> QED BY <1>1, <1>2, <2>1 DEF LoginsKnown
<1>4. LoginsMatch'
  <2> SUFFICES ASSUME NEW l \in logins', NEW f \in fetches', ~l.manager, l.at = f.id
               PROVE  l.conn = f.conn
    BY DEF LoginsMatch
  <2>1. l \in logins BY DEF Fewer
  <2>2. PICK g \in fetches : f.id = g.id /\ f.conn = g.conn OBVIOUS
  <2> QED BY <1>2, <2>1, <2>2 DEF LoginsMatch
<1> QED BY <1>3, <1>4

\* The end of a login moves the page of those who saw it, and no one else's.
LEMMA LoginEndsPlaces ==
    ASSUME TypeInv, IInv, NEW l \in logins, NEW succeeded \in BOOLEAN, NEW restoreNow \in {restore, "none"},
           LoginEnds(l, succeeded, restoreNow), logins' \subseteq logins \ {l}, route' = route,
           auth'.ok = TRUE \/ auth'.ok = auth.ok \/ restoreNow = "none"
    PROVE  /\ FormSubmits' /\ RestoreShows' /\ OneLogin'
           /\ (page' = "probing" => page = "probing")
           /\ (restore' = "none" => restoreNow = "none")
           /\ (restoreNow = restore /\ ~auth.ok =>
                  \A k \in logins : k # l /\ StillAwaits(k) => StillAwaits(k)')
<1>1. FormSubmits /\ RestoreShows /\ OneLogin BY DEF IInv, LoginInv
<1>2. l.by \in {"form", "restore"} /\ \A k \in logins : k.by \in {"form", "restore"}
  BY Typed DEF CallsOK, Login
<1>3. /\ restore' = IF l.by = "form" \/ restoreNow # "pending" THEN restoreNow
                    ELSE IF succeeded THEN "done" ELSE "failed"
      /\ page' = CASE l.by = "form" /\ page = "submitting" -> IF succeeded THEN "panel" ELSE "form"
                    [] l.by = "restore" /\ page = "restoring" -> IF succeeded THEN "splash" ELSE "form"
                    [] OTHER -> page
  BY DEF LoginEnds
<1>4. /\ l.by = "form" => page' \in {"panel", "form"} /\ page = "submitting"
      /\ l.by = "restore" /\ page = "restoring" => page' \in {"splash", "form"}
      /\ l.by = "restore" /\ page # "restoring" => page' = page
  <2>1. l.by = "form" => page = "submitting" BY <1>1 DEF FormSubmits
  <2>2. CASE l.by = "form" BY <1>3, <2>1, <2>2
  <2>3. CASE l.by = "restore" /\ page = "restoring" BY <1>3, <2>3
  <2>4. CASE l.by = "restore" /\ page # "restoring" BY <1>3, <2>4
  <2> QED BY <1>2, <2>2, <2>3, <2>4
<1>5. FormSubmits'
  <2> SUFFICES ASSUME NEW k \in logins', k.by = "form" PROVE page' = "submitting"
    BY DEF FormSubmits
  <2>1. k \in logins /\ k # l /\ page = "submitting" BY <1>1 DEF FormSubmits
  <2>2. l.by # "form" BY <1>1, <2>1 DEF OneLogin
  <2> QED BY <1>2, <1>4, <2>1, <2>2
<1>6. RestoreShows'
  <2> SUFFICES ASSUME NEW k \in logins', k.by = "restore", route' # "idle" PROVE FALSE
    BY DEF RestoreShows
  <2>1. k \in logins /\ k # l /\ page = "restoring" BY <1>1 DEF RestoreShows
  <2>2. l.by # "restore" BY <1>1, <2>1 DEF OneLogin
  <2> QED BY <1>2, <1>4, <2>1, <2>2
<1>7. OneLogin'
  <2>1. restore' = "pending" => restore = "pending" /\ restoreNow = restore
    BY <1>3
  <2>2. ~auth'.ok /\ restore' = "pending" => ~auth.ok /\ restore = "pending"
    <3>1. restoreNow = "none" => restore' # "pending" BY <1>3
    <3> QED BY <2>1, <3>1
  <2> QED BY <1>1, <2>2 DEF OneLogin
<1>8. (page' = "probing" => page = "probing") /\ (restore' = "none" => restoreNow = "none")
  BY <1>2, <1>3, <1>4
<1>9. ASSUME restoreNow = restore, ~auth.ok, NEW k \in logins, k # l, StillAwaits(k)
      PROVE  StillAwaits(k)'
  <2>1. CASE k.by = "form" /\ page = "submitting"
    <3>1. l.by = "restore" BY <1>1, <1>2, <1>9, <2>1 DEF OneLogin
    <3> QED BY <1>4, <2>1, <3>1 DEF StillAwaits
  <2>2. CASE k.by = "restore" /\ restore = "pending" /\ page \in {"probing", "restoring"}
    <3>1. l.by # "restore" BY <1>1, <1>9, <2>2 DEF OneLogin
    <3> QED BY <1>2, <1>4, <2>2, <3>1
  <2> QED BY <1>9, <2>1, <2>2 DEF StillAwaits
<1> QED BY <1>5, <1>6, <1>7, <1>8, <1>9

LEMMA LoginFailsPlaces ==
    ASSUME TypeInv, IInv, NEW l \in logins, NEW authNow \in AuthType, NEW restoreNow \in {restore, "none"},
           LoginFails(l, authNow, restoreNow), route' = route,
           authNow.ok = auth.ok \/ restoreNow = "none"
    PROVE  /\ FormSubmits' /\ RestoreShows' /\ OneLogin' /\ Fewer
           /\ auth'.ok = authNow.ok /\ auth'.conn = authNow.conn
           /\ (page' = "probing" => page = "probing")
           /\ (restore' = "none" => restoreNow = "none")
           /\ \A k \in logins : k # l => k \in logins'
           /\ (restoreNow = restore /\ ~auth.ok =>
                  \A k \in logins : k # l /\ StillAwaits(k) => StillAwaits(k)')
<1>0. logins \subseteq Login /\ restore \in RestoreStates BY Typed DEF CallsOK, PlaceOK, RestoreStates
<1>1. restoreNow \in RestoreStates BY <1>0 DEF RestoreStates
<1>2. auth'.ok = authNow.ok /\ auth'.conn = authNow.conn BY <1>1, LoginFailsEffect
<1>3. CASE l.mode = "manager_embedded" /\ ~l.manager
  <2>1. PICK m \in Login : m = [l EXCEPT !.manager = TRUE] BY <1>0 DEF Login
  <2>2. /\ logins' = (logins \ {l}) \cup {m} /\ auth' = authNow /\ restore' = restoreNow /\ page' = page
    BY <1>3, <2>1 DEF LoginFails
  <2>3. m.by = l.by /\ m.conn = l.conn /\ m.at = l.at /\ m.manager = TRUE
    BY <1>0, <2>1 DEF Login
  <2>4. FormSubmits /\ RestoreShows /\ OneLogin BY DEF IInv, LoginInv
  <2>5. \A k \in logins' : \E j \in logins : k.by = j.by /\ k.conn = j.conn /\ k.at = j.at
                                           /\ (~k.manager => k = j) /\ (k # m => k = j /\ k # l) /\ (k = m => j = l)
    BY <2>2, <2>3
  <2>6. Fewer BY <2>5 DEF Fewer
  <2>7. FormSubmits' /\ RestoreShows'
    BY <2>2, <2>4, <2>5 DEF FormSubmits, RestoreShows
  <2>8. OneLogin'
    <3> SUFFICES ASSUME NEW j \in logins', NEW k \in logins', j.by = k.by,
                        j.by = "form" \/ route' # "idle" \/ (~auth'.ok /\ restore' = "pending")
                 PROVE  j = k
      BY DEF OneLogin
    <3>1. j.by = "form" \/ route # "idle" \/ (~auth.ok /\ restore = "pending")
      BY <2>2
    <3>2. \A g, h \in logins : g.by = h.by /\ g.by = j.by => g = h
      BY <2>4, <3>1 DEF OneLogin
    <3>3. CASE j = m /\ k # m
      BY <2>2, <2>3, <3>2, <3>3
    <3>4. CASE j # m /\ k = m
      BY <2>2, <2>3, <3>2, <3>4
    <3>5. CASE j # m /\ k # m
      BY <2>2, <3>2, <3>5
    <3> QED BY <3>3, <3>4, <3>5
  <2>9. restoreNow = restore => \A k \in logins : StillAwaits(k) => StillAwaits(k)'
    BY <2>2 DEF StillAwaits
  <2> QED BY <1>2, <2>2, <2>6, <2>7, <2>8, <2>9
<1>4. CASE ~(l.mode = "manager_embedded" /\ ~l.manager)
  <2>1. logins' = logins \ {l} /\ LoginEnds(l, FALSE, restoreNow)
    BY <1>4 DEF LoginFails
  <2>2. Fewer BY <2>1 DEF Fewer
  <2>3. /\ FormSubmits' /\ RestoreShows' /\ OneLogin'
        /\ (page' = "probing" => page = "probing")
        /\ (restore' = "none" => restoreNow = "none")
        /\ (restoreNow = restore /\ ~auth.ok =>
               \A k \in logins : k # l /\ StillAwaits(k) => StillAwaits(k)')
    <3>1. logins' \subseteq logins \ {l} BY <2>1
    <3>2. auth'.ok = TRUE \/ auth'.ok = auth.ok \/ restoreNow = "none" BY <1>2
    <3> QED BY <2>1, <3>1, <3>2, LoginEndsPlaces
  <2> QED BY <1>2, <2>1, <2>2, <2>3
<1> QED BY <1>3, <1>4

(***************************************************************************)
(* One lemma per action.                                                   *)
(***************************************************************************)

LEMMA FetchFailsInv == ASSUME TypeInv, TypeInv', IInv, NEW f \in fetches, FetchFails(f) PROVE IInv'
<1>1. /\ fetches' = fetches \ {f}
      /\ config' = IF f.id = config.inFlight THEN [config EXCEPT !.inFlight = 0] ELSE config
      /\ client' = client /\ route' = route /\ verified' = verified
  BY DEF FetchFails, Answered
<1>2. /\ config'.token = config.token /\ config'.data = config.data /\ config'.takenOver = config.takenOver
      /\ config'.inFlight = IF f.id = config.inFlight THEN 0 ELSE config.inFlight
  BY <1>1, Typed DEF StoreOK, ConfigType
<1>3. config.token \in Nat /\ config'.token >= config.token
  BY <1>2, Typed DEF StoreOK, ConfigType
<1>4. /\ FormSubmits' /\ RestoreShows' /\ OneLogin' /\ Fewer
      /\ auth'.ok = auth.ok /\ auth'.conn = auth.conn
      /\ (page' = "probing" => page = "probing")
      /\ (restore' = "none" /\ page = "probing" /\ logins = {} => page' = "probing" /\ logins' = {})
      /\ (restore' = "none" => restore = "none")
      /\ \A k \in logins : WaitsFor(k) /\ f.id # config.inFlight => k \in logins'
      /\ \A k \in logins : WaitsFor(k) /\ f.id # config.inFlight /\ ~auth.ok /\ StillAwaits(k) => StillAwaits(k)'
  <2>1. CASE UNCHANGED <<auth, logins, restore, page>>
    BY <1>1, <2>1 DEF IInv, LoginInv, FormSubmits, RestoreShows, OneLogin, Fewer, StillAwaits
  <2>2. ASSUME NEW l \in LoginsOn(f), LoginFails(l, auth, restore)
        PROVE  /\ FormSubmits' /\ RestoreShows' /\ OneLogin' /\ Fewer
               /\ auth'.ok = auth.ok /\ auth'.conn = auth.conn
               /\ (page' = "probing" => page = "probing")
               /\ logins # {}
               /\ (restore' = "none" => restore = "none")
               /\ \A k \in logins : WaitsFor(k) /\ f.id # config.inFlight => k \in logins'
               /\ \A k \in logins : WaitsFor(k) /\ f.id # config.inFlight /\ ~auth.ok /\ StillAwaits(k) => StillAwaits(k)'
    <3>1. l \in logins /\ l.at = f.id BY DEF LoginsOn
    <3>2. \A k \in logins : WaitsFor(k) /\ f.id # config.inFlight => k # l
      BY <3>1 DEF WaitsFor
    <3>3. auth \in AuthType BY Typed DEF StoreOK
    <3> HIDE DEF Fewer, FormSubmits, RestoreShows, OneLogin, StillAwaits
    <3>4. /\ FormSubmits' /\ RestoreShows' /\ OneLogin' /\ Fewer
          /\ auth'.ok = auth.ok /\ auth'.conn = auth.conn
          /\ (page' = "probing" => page = "probing")
          /\ (restore' = "none" => restore = "none")
          /\ \A k \in logins : k # l => k \in logins'
          /\ (~auth.ok => \A k \in logins : k # l /\ StillAwaits(k) => StillAwaits(k)')
      BY <1>1, <2>2, <3>1, <3>3, LoginFailsPlaces
    <3> QED BY <3>1, <3>2, <3>4
  <2> QED BY <2>1, <2>2 DEF FetchFails
<1>5. LoginsKnown' /\ LoginsMatch' BY <1>1, <1>2, <1>3, <1>4, FewerMatch
<1>6. LoginInv' BY <1>4, <1>5 DEF LoginInv
<1>7. f.id = config.inFlight => \A g \in fetches' : ~Current(g)'
  BY <1>2, NoneCurrentNext
<1>8. f.id # config.inFlight => /\ \A g \in fetches' : Current(g)' => g \in fetches /\ Current(g)
                                /\ \A k \in logins : WaitsFor(k) => WaitsFor(k)'
  BY <1>1, <1>2 DEF Current, WaitsFor
<1>9. SomeoneWaits' BY <1>2, <1>4, <1>8 DEF SomeoneWaits, IInv, PlaceInv
<1>10. RememberedRests' BY <1>2, <1>4 DEF RememberedRests, IInv, PlaceInv
<1>11. StraysApart'
  <2> SUFFICES ASSUME NEW l \in logins', NEW g \in fetches', ~l.manager, Current(g)', l.at # g.id, l.conn # g.conn
               PROVE  route' = "idle" /\ page' # "probing"
    BY DEF StraysApart
  <2>1. l \in logins /\ g \in fetches /\ Current(g) BY <1>4, <1>7, <1>8 DEF Fewer
  <2> QED BY <1>1, <1>4, <2>1 DEF StraysApart, IInv, PlaceInv
<1>12. SessionClient' BY <1>1, <1>4 DEF SessionClient, IInv, SessionInv
<1>13. StrayFetch'
  <2> SUFFICES ASSUME NEW g \in fetches', auth'.ok, auth'.conn # NoConn, Current(g)', g.conn # auth'.conn
               PROVE  /\ route' = "idle" /\ page' # "probing"
                      /\ config'.takenOver \/ \E l \in logins' : WaitsFor(l)'
    BY DEF StrayFetch
  <2>1. f.id # config.inFlight /\ g \in fetches /\ Current(g) BY <1>7, <1>8
  <2>2. /\ route = "idle" /\ page # "probing"
        /\ config.takenOver \/ \E l \in logins : WaitsFor(l)
    BY <1>4, <2>1 DEF StrayFetch, IInv, SessionInv
  <2> QED BY <1>1, <1>2, <1>4, <1>8, <2>1, <2>2
<1>14. FetchedInSession' /\ AuthenticatedMeansAccepted'
  BY <1>1, <1>2, <1>4 DEF FetchedInSession, AuthenticatedMeansAccepted, IInv, SessionInv
<1> QED BY <1>6, <1>9, <1>10, <1>11, <1>12, <1>13, <1>14 DEF IInv, PlaceInv, SessionInv

LEMMA FetchDeniedInv == ASSUME TypeInv, TypeInv', IInv, NEW f \in fetches, FetchDenied(f) PROVE IInv'
<1>1. fetches' = fetches \ {f} /\ config' = ClearedConfig /\ route' = route
  BY DEF FetchDenied, Answered
<1>2. config \in ConfigType /\ auth \in AuthType BY Typed DEF StoreOK
<1>3. config'.inFlight = 0 /\ config'.data.from # "fetch" /\ config'.token = config.token + 1
  BY <1>1, <1>2, Cleared DEF NoData
<1>4. config.token \in Nat /\ config'.token \in Nat /\ config'.token >= config.token
  BY <1>2, <1>3 DEF ConfigType
<1>5. FormSubmits' /\ RestoreShows' /\ OneLogin' /\ Fewer /\ auth'.ok = FALSE /\ auth'.conn = NoConn
  <2>1. CASE auth' = LoggedOut /\ restore' = "none" /\ UNCHANGED <<logins, page>>
    <3>1. auth'.ok = FALSE /\ auth'.conn = NoConn BY <1>2, <2>1, Ended
    <3> QED BY <1>1, <2>1, <3>1 DEF IInv, LoginInv, FormSubmits, RestoreShows, OneLogin, Fewer
  <2>2. ASSUME NEW l \in LoginsOn(f), LoginFails(l, LoggedOut, "none")
        PROVE  FormSubmits' /\ RestoreShows' /\ OneLogin' /\ Fewer /\ auth'.ok = FALSE /\ auth'.conn = NoConn
    <3>1. l \in logins BY DEF LoginsOn
    <3>2. LoggedOut \in AuthType /\ LoggedOut.ok = FALSE /\ LoggedOut.conn = NoConn BY <1>2, Ended
    <3> HIDE DEF Fewer, FormSubmits, RestoreShows, OneLogin, LoggedOut
    <3> QED BY <1>1, <2>2, <3>1, <3>2, LoginFailsPlaces
  <2> QED BY <2>1, <2>2 DEF FetchDenied
<1>6. LoginsKnown' /\ LoginsMatch' BY <1>1, <1>4, <1>5, FewerMatch
<1>7. LoginInv' BY <1>5, <1>6 DEF LoginInv
<1> QED BY <1>3, <1>5, <1>7, LoggedOutInv DEF IInv

LEMMA ManagerAnswersInv == ASSUME TypeInv, TypeInv', IInv, NEW l \in logins, ManagerAnswers(l) PROVE IInv'
<1>1. l.manager /\ UNCHANGED <<fetches, route>> BY DEF ManagerAnswers
<1>2. config \in ConfigType /\ auth \in AuthType /\ l \in Login /\ config.token \in Nat
  BY Typed DEF StoreOK, CallsOK, ConfigType
<1>3. CASE /\ Authenticated(l) /\ config' = ClearedConfig /\ verified' = verified \cup {l.conn}
           /\ logins' = logins \ {l} /\ LoginEnds(l, TRUE, restore)
  <2>1. auth'.ok = TRUE /\ auth'.conn = l.conn /\ client' = l.conn
    BY <1>2, <1>3, AuthenticatedEffect
  <2>2. config'.inFlight = 0 /\ config'.data.from # "fetch" /\ config'.token = config.token + 1
    BY <1>2, <1>3, Cleared DEF NoData
  <2>3. config'.token \in Nat /\ config'.token >= config.token BY <1>2, <2>2
  <2>4. Fewer BY <1>3 DEF Fewer
  <2>5. LoginsKnown' /\ LoginsMatch' BY <1>1, <2>3, <2>4, FewerMatch
  <2>6. logins' \subseteq logins \ {l} BY <1>3
  <2>7. FormSubmits' /\ RestoreShows' /\ OneLogin'
    BY <1>1, <1>3, <2>1, <2>6, LoginEndsPlaces
  <2>8. \A f \in fetches' : ~Current(f)' BY <2>2, NoneCurrentNext
  <2>9. PlaceInv' BY <2>1, <2>8 DEF PlaceInv, SomeoneWaits, RememberedRests, StraysApart
  <2>10. SessionInv'
    BY <1>3, <2>1, <2>2, <2>8 DEF SessionInv, SessionClient, StrayFetch, FetchedInSession, AuthenticatedMeansAccepted
  <2> QED BY <2>5, <2>7, <2>9, <2>10 DEF IInv, LoginInv
<1>4. CASE LoginFails(l, auth, restore) /\ UNCHANGED <<flag, client, config, verified>>
  <2>1. /\ FormSubmits' /\ RestoreShows' /\ OneLogin' /\ Fewer
        /\ auth'.ok = auth.ok /\ auth'.conn = auth.conn
        /\ (page' = "probing" => page = "probing")
        /\ (restore' = "none" => restore = "none")
        /\ \A k \in logins : k # l => k \in logins'
        /\ (~auth.ok => \A k \in logins : k # l /\ StillAwaits(k) => StillAwaits(k)')
    BY <1>1, <1>2, <1>4, LoginFailsPlaces
  <2>2. LoginsKnown' /\ LoginsMatch' BY <1>1, <1>2, <1>4, <2>1, FewerMatch
  <2>3. \A k \in logins : WaitsFor(k) => k # l /\ k \in logins' /\ WaitsFor(k)'
    BY <1>1, <1>4, <2>1 DEF WaitsFor
  <2>4. SomeoneWaits' BY <1>4, <2>1, <2>3 DEF SomeoneWaits, IInv, PlaceInv
  <2>5. RememberedRests' BY <1>4, <2>1 DEF RememberedRests, IInv, PlaceInv
  <2>6. StraysApart'
    <3> SUFFICES ASSUME NEW k \in logins', NEW g \in fetches', ~k.manager, Current(g)', k.at # g.id, k.conn # g.conn
                 PROVE  route' = "idle" /\ page' # "probing"
      BY DEF StraysApart
    <3>1. k \in logins /\ g \in fetches /\ Current(g) BY <1>1, <1>4, <2>1 DEF Fewer, Current
    <3> QED BY <1>1, <2>1, <3>1 DEF StraysApart, IInv, PlaceInv
  <2>7. SessionClient' BY <1>4, <2>1 DEF SessionClient, IInv, SessionInv
  <2>8. StrayFetch'
    <3> SUFFICES ASSUME NEW g \in fetches', auth'.ok, auth'.conn # NoConn, Current(g)', g.conn # auth'.conn
                 PROVE  /\ route' = "idle" /\ page' # "probing"
                        /\ config'.takenOver \/ \E k \in logins' : WaitsFor(k)'
      BY DEF StrayFetch
    <3>1. g \in fetches /\ Current(g) BY <1>1, <1>4 DEF Current
    <3>2. /\ route = "idle" /\ page # "probing"
          /\ config.takenOver \/ \E k \in logins : WaitsFor(k)
      BY <2>1, <3>1 DEF StrayFetch, IInv, SessionInv
    <3> QED BY <1>1, <1>4, <2>1, <2>3, <3>2
  <2>9. FetchedInSession' /\ AuthenticatedMeansAccepted'
    BY <1>4, <2>1 DEF FetchedInSession, AuthenticatedMeansAccepted, IInv, SessionInv
  <2> QED BY <2>1, <2>2, <2>4, <2>5, <2>6, <2>7, <2>8, <2>9 DEF IInv, LoginInv, PlaceInv, SessionInv
<1> QED BY <1>3, <1>4 DEF ManagerAnswers

\* An answer 200 nobody logs in with.
LEMMA ReadSucceedsInv ==
    ASSUME TypeInv, TypeInv', IInv, NEW f \in fetches, FetchSucceeds(f), LoginsOn(f) = {},
           config' = Stored(f), UNCHANGED <<auth, flag, client, restore, page>>
    PROVE  IInv'
<1>1. /\ f.version # Unread /\ fetches' = fetches \ {f} /\ verified' = verified \cup {f.conn}
      /\ logins' = logins /\ route' = route
  BY DEF FetchSucceeds, Answered
<1>2. /\ config'.token = config.token /\ config'.takenOver = config.takenOver
      /\ config'.inFlight = IF f.id = config.inFlight THEN 0 ELSE config.inFlight
      /\ (f.id = config.inFlight => config'.data.conn = f.conn)
      /\ (f.id # config.inFlight => config'.data = config.data)
  <2>1. config' = Stored(f) OBVIOUS
  <2>2. /\ Stored(f).token = config.token /\ Stored(f).takenOver = config.takenOver
        /\ Stored(f).inFlight = IF f.id = config.inFlight THEN 0 ELSE config.inFlight
        /\ (f.id # config.inFlight => Stored(f).data = config.data)
    BY <1>1, StoredEffect
  <2>3. f.id = config.inFlight => Stored(f).data.conn = f.conn BY <1>1, StoredConn
  <2> HIDE DEF Stored
  <2> QED BY <2>1, <2>2, <2>3
<1>3. config.token \in Nat BY Typed DEF StoreOK, ConfigType
<1>4. Fewer BY <1>1 DEF Fewer
<1>5. LoginsKnown' /\ LoginsMatch' BY <1>1, <1>2, <1>3, <1>4, FewerMatch
<1>6. FormSubmits' /\ RestoreShows' /\ OneLogin'
  BY <1>1 DEF IInv, LoginInv, FormSubmits, RestoreShows, OneLogin
<1>7. f.id = config.inFlight => \A g \in fetches' : ~Current(g)'
  BY <1>2, NoneCurrentNext
<1>8. f.id # config.inFlight => /\ \A g \in fetches' : Current(g)' => g \in fetches /\ Current(g)
                                /\ \A k \in logins : (WaitsFor(k) => WaitsFor(k)') /\ (StillAwaits(k) => StillAwaits(k)')
  BY <1>1, <1>2 DEF Current, WaitsFor, StillAwaits
<1>9. SomeoneWaits' /\ RememberedRests'
  BY <1>1, <1>2, <1>8 DEF SomeoneWaits, RememberedRests, IInv, PlaceInv
<1>10. StraysApart' BY <1>1, <1>7, <1>8 DEF StraysApart, IInv, PlaceInv
<1>11. SessionClient' /\ StrayFetch'
  BY <1>1, <1>2, <1>7, <1>8 DEF SessionClient, StrayFetch, IInv, SessionInv
<1>12. AuthenticatedMeansAccepted'
  BY <1>1 DEF AuthenticatedMeansAccepted, IInv, SessionInv
<1>13. FetchedInSession'
  <2>1. CASE f.id # config.inFlight
    BY <1>2, <2>1 DEF FetchedInSession, IInv, SessionInv
  <2>2. CASE f.id = config.inFlight
    <3>1. \A l \in logins : ~WaitsFor(l)
      BY <2>2 DEF LoginsOn, WaitsFor
    <3>2. config.inFlight # 0 BY <2>2, Typed DEF TokenInv
    <3>3. auth.ok BY <3>1, <3>2 DEF SomeoneWaits, IInv, PlaceInv
    <3>4. config.takenOver \/ auth.conn \in {f.conn, NoConn}
      BY <2>2, <3>1, <3>3 DEF StrayFetch, Current, IInv, SessionInv
    <3> QED BY <1>2, <2>2, <3>3, <3>4 DEF FetchedInSession
  <2> QED BY <2>1, <2>2
<1> QED BY <1>5, <1>6, <1>9, <1>10, <1>11, <1>12, <1>13 DEF IInv, LoginInv, PlaceInv, SessionInv

\* An answer 200 that lets someone in.
LEMMA LoginSucceedsInv ==
    ASSUME TypeInv, TypeInv', IInv, NEW f \in fetches, FetchSucceeds(f), NEW l \in LoginsOn(f),
           config' = [Stored(f) EXCEPT !.takenOver = TakesOver(l, f)],
           Authenticated(l), LoginEnds(l, TRUE, restore)
    PROVE  IInv'
<1>1. /\ f.version # Unread /\ fetches' = fetches \ {f} /\ verified' = verified \cup {f.conn}
      /\ logins' = logins \ LoginsOn(f) /\ route' = route
  BY DEF FetchSucceeds, Answered
<1>2. l \in logins /\ l.at = f.id /\ ~l.manager /\ l \in Login
  BY Typed DEF LoginsOn, CallsOK
<1>3. l.conn = f.conn /\ l.conn # NoConn
  BY <1>2 DEF LoginsMatch, LoginsKnown, IInv, LoginInv
<1>4. auth'.ok = TRUE /\ auth'.conn = l.conn /\ client' = l.conn
  BY <1>2, AuthenticatedEffect
<1>5. /\ config'.token = config.token
      /\ config'.inFlight = IF f.id = config.inFlight THEN 0 ELSE config.inFlight
      /\ (f.id = config.inFlight => config'.data.conn = f.conn)
      /\ (f.id # config.inFlight => config'.data = config.data)
  <2>1. /\ config'.token = config.token /\ config'.data = Stored(f).data
        /\ config'.inFlight = IF f.id = config.inFlight THEN 0 ELSE config.inFlight
    BY SucceedsConfig
  <2>2. f.id # config.inFlight => Stored(f).data = config.data BY <1>1, StoredEffect
  <2>3. f.id = config.inFlight => Stored(f).data.conn = f.conn BY <1>1, StoredConn
  <2> QED BY <2>1, <2>2, <2>3
<1>6. config'.takenOver = TakesOver(l, f)
  <2>1. Stored(f) \in ConfigType BY <1>1, StoredEffect
  <2> QED BY <2>1 DEF ConfigType
<1>7. config.token \in Nat BY Typed DEF StoreOK, ConfigType
<1>8. Fewer BY <1>1 DEF Fewer
<1>9. LoginsKnown' /\ LoginsMatch' BY <1>1, <1>5, <1>7, <1>8, FewerMatch
<1>10. logins' \subseteq logins \ {l} BY <1>1
<1>11. FormSubmits' /\ RestoreShows' /\ OneLogin' /\ (page' = "probing" => page = "probing")
  BY <1>1, <1>2, <1>4, <1>10, LoginEndsPlaces
<1>12. f.id = config.inFlight => \A g \in fetches' : ~Current(g)'
  BY <1>5, NoneCurrentNext
<1>13. f.id # config.inFlight => /\ \A g \in fetches' : Current(g)' => g \in fetches /\ Current(g) /\ l.at # g.id
                                 /\ \A k \in logins : WaitsFor(k) => k \in logins' /\ WaitsFor(k)'
                                 /\ f.id # config.token
  <2>1. \A k \in logins : WaitsFor(k) /\ f.id # config.inFlight => k \notin LoginsOn(f)
    BY DEF WaitsFor, LoginsOn
  <2>2. f.id # config.inFlight => f.id # config.token BY Typed DEF TokenInv
  <2> QED BY <1>1, <1>2, <1>5, <2>1, <2>2 DEF Current, WaitsFor
<1>14. SomeoneWaits' /\ RememberedRests' BY <1>4 DEF SomeoneWaits, RememberedRests
<1>15. StraysApart'
  <2> SUFFICES ASSUME NEW k \in logins', NEW g \in fetches', ~k.manager, Current(g)', k.at # g.id, k.conn # g.conn
               PROVE  route' = "idle" /\ page' # "probing"
    BY DEF StraysApart
  <2>1. k \in logins /\ g \in fetches /\ Current(g) BY <1>1, <1>12, <1>13
  <2> QED BY <1>1, <1>11, <2>1 DEF StraysApart, IInv, PlaceInv
<1>16. SessionClient' BY <1>4 DEF SessionClient
<1>17. StrayFetch'
  <2> SUFFICES ASSUME NEW g \in fetches', Current(g)', g.conn # l.conn
               PROVE  /\ route' = "idle" /\ page' # "probing"
                      /\ config'.takenOver \/ \E k \in logins' : WaitsFor(k)'
    BY <1>4 DEF StrayFetch
  <2>1. f.id # config.inFlight /\ g \in fetches /\ Current(g) /\ l.at # g.id BY <1>12, <1>13
  <2>2. route = "idle" /\ page # "probing"
    BY <1>2, <2>1 DEF StraysApart, IInv, PlaceInv
  <2>3. config.inFlight # 0 BY <2>1, Typed DEF Current, TokenInv
  <2>4. CASE ~auth.ok
    <3>1. \E k \in logins : WaitsFor(k) BY <2>3, <2>4 DEF SomeoneWaits, IInv, PlaceInv
    <3> QED BY <1>1, <1>11, <1>13, <2>1, <2>2, <3>1
  <2>5. CASE auth.ok /\ auth.conn # l.conn
    <3>1. TakesOver(l, f) BY <1>13, <2>1, <2>5 DEF TakesOver
    <3> QED BY <1>1, <1>6, <1>11, <2>2, <3>1
  <2>6. CASE auth.ok /\ auth.conn = l.conn
    <3>1. config.takenOver \/ \E k \in logins : WaitsFor(k)
      BY <1>3, <2>1, <2>6 DEF StrayFetch, IInv, SessionInv
    <3>2. config.takenOver => TakesOver(l, f) BY <1>13, <2>1 DEF TakesOver
    <3> QED BY <1>1, <1>6, <1>11, <1>13, <2>1, <2>2, <3>1, <3>2
  <2> QED BY <2>4, <2>5, <2>6
<1>18. FetchedInSession'
  <2>1. CASE f.id = config.inFlight BY <1>3, <1>4, <1>5, <2>1 DEF FetchedInSession
  <2>2. CASE f.id # config.inFlight
    <3> SUFFICES ASSUME config.data.from = "fetch"
                 PROVE  config'.takenOver \/ l.conn \in {config.data.conn, NoConn}
      BY <1>4, <1>5, <2>2 DEF FetchedInSession
    <3>1. auth.ok /\ (config.takenOver \/ auth.conn \in {config.data.conn, NoConn})
      BY DEF FetchedInSession, IInv, SessionInv
    <3>2. config'.takenOver = (config.takenOver \/ (auth.ok /\ auth.conn # l.conn))
      BY <1>6, <1>13, <2>2 DEF TakesOver
    <3> QED BY <3>1, <3>2
  <2> QED BY <2>1, <2>2
<1>19. AuthenticatedMeansAccepted' BY <1>1, <1>3, <1>4 DEF AuthenticatedMeansAccepted
<1> QED BY <1>9, <1>11, <1>14, <1>15, <1>16, <1>17, <1>18, <1>19 DEF IInv, LoginInv, PlaceInv, SessionInv

\* Nothing the invariant speaks of moves; the server may have read a request.
LEMMA AlikeInv ==
    ASSUME IInv, UNCHANGED <<auth, client, config, logins, restore, page, route, verified>>,
           \A f \in fetches' : \E g \in fetches : f.id = g.id /\ f.conn = g.conn
    PROVE  IInv'
<1>1. LoginInv' BY DEF IInv, LoginInv, LoginsKnown, LoginsMatch, FormSubmits, RestoreShows, OneLogin
<1>2. PlaceInv'
  BY DEF IInv, PlaceInv, SomeoneWaits, RememberedRests, StraysApart, WaitsFor, StillAwaits, Current
<1>3. SessionInv'
  <2>1. StrayFetch' BY DEF IInv, SessionInv, StrayFetch, WaitsFor, Current
  <2> QED BY <2>1 DEF IInv, SessionInv, SessionClient, FetchedInSession, AuthenticatedMeansAccepted
<1> QED BY <1>1, <1>2, <1>3 DEF IInv

\* From a page where nobody waits, the user goes on.
LEMMA PageMovesInv ==
    ASSUME TypeInv, TypeInv', IInv, UNCHANGED <<auth, client, config, fetches, logins, restore, route, verified>>,
           page \notin {"submitting", "probing", "restoring"}, page' = "probing" => ~auth.ok
    PROVE  IInv'
<1>1. ~auth.ok => config.inFlight = 0
  BY DEF IInv, PlaceInv, SomeoneWaits, StillAwaits
<1>2. ~auth.ok => \A f \in fetches : ~Current(f) BY <1>1, NoneCurrent
<1>3. LoginInv' BY DEF IInv, LoginInv, LoginsKnown, LoginsMatch, FormSubmits, RestoreShows, OneLogin
<1>4. SomeoneWaits' BY <1>1 DEF SomeoneWaits
<1>5. RememberedRests' BY DEF RememberedRests, IInv, PlaceInv
<1>6. StraysApart' BY <1>2 DEF StraysApart, Current, IInv, PlaceInv
<1>7. StrayFetch' BY DEF StrayFetch, Current, WaitsFor, IInv, SessionInv
<1>8. SessionClient' /\ FetchedInSession' /\ AuthenticatedMeansAccepted'
  BY DEF SessionClient, FetchedInSession, AuthenticatedMeansAccepted, IInv, SessionInv
<1> QED BY <1>3, <1>4, <1>5, <1>6, <1>7, <1>8 DEF IInv, PlaceInv, SessionInv

\* A session is restored from two places, in which no request and no login of
\* another connection is under way.
Restoring == page = "probing" \/ route # "idle"

LEMMA RestoringIsCalm ==
    ASSUME IInv, Restoring
    PROVE  /\ \A l \in logins, f \in fetches : ~l.manager /\ Current(f) /\ l.at # f.id => l.conn = f.conn
           /\ \A f \in fetches : auth.ok /\ auth.conn # NoConn /\ Current(f) => f.conn = auth.conn
  BY DEF IInv, PlaceInv, SessionInv, StraysApart, StrayFetch, Restoring

\* Where the two go.
Restored ==
    \/ page = "probing" /\ route' = route /\ page' \in {"restoring", "splash", "form"}
       /\ (restore' = "pending" => page' = "restoring")
    \/ route # "idle" /\ route' = "idle" /\ page' = page

LEMMA NoStartInv ==
    ASSUME TypeInv, TypeInv', IInv, Restored, UNCHANGED <<config, fetches, logins, verified>>,
           auth'.ok = auth.ok, auth'.conn \in {auth.conn, NoConn}, SessionClient',
           restore' = restore \/ (restore = "none" /\ restore' = "failed"), restore' # "none"
    PROVE  IInv'
<1>1. Restoring BY DEF Restored, Restoring
<1>2. LoginsKnown' /\ LoginsMatch' BY DEF IInv, LoginInv, LoginsKnown, LoginsMatch
<1>3. FormSubmits' BY DEF IInv, LoginInv, FormSubmits, Restored
<1>4. RestoreShows' BY DEF IInv, LoginInv, RestoreShows, Restored
<1>5. OneLogin' BY DEF IInv, LoginInv, OneLogin, Restored
<1>6. SomeoneWaits'
  <2> SUFFICES ASSUME ~auth.ok, config.inFlight # 0
               PROVE  \E l \in logins : WaitsFor(l) /\ StillAwaits(l)'
    BY DEF SomeoneWaits, WaitsFor
  <2>1. PICK l \in logins : WaitsFor(l) /\ StillAwaits(l) BY DEF IInv, PlaceInv, SomeoneWaits
  <2>2. StillAwaits(l)' BY <2>1 DEF StillAwaits, Restored
  <2> QED BY <2>1, <2>2
<1>7. RememberedRests' BY DEF RememberedRests
<1>8. StraysApart'
  <2>1. \A l \in logins, f \in fetches : ~l.manager /\ Current(f) /\ l.at # f.id => l.conn = f.conn
    BY <1>1, RestoringIsCalm
  <2> QED BY <2>1 DEF StraysApart, Current
<1>9. StrayFetch'
  <2>1. \A f \in fetches : auth.ok /\ auth.conn # NoConn /\ Current(f) => f.conn = auth.conn
    BY <1>1, RestoringIsCalm
  <2> QED BY <2>1 DEF StrayFetch, Current
<1>10. FetchedInSession' /\ AuthenticatedMeansAccepted'
  BY DEF FetchedInSession, AuthenticatedMeansAccepted, IInv, SessionInv
<1> QED BY <1>2, <1>3, <1>4, <1>5, <1>6, <1>7, <1>8, <1>9, <1>10 DEF IInv, LoginInv, PlaceInv, SessionInv

\* A login starts, with a request of its own or with one it may join.
LEMMA StartedLogin ==
    ASSUME TypeInv, TypeInv', IInv, NEW conn \in Conns, NEW remember \in BOOLEAN, NEW mode \in Modes,
           NEW by \in {"form", "restore"}, StartLogin(conn, remember, mode, by),
           \A f \in fetches : Current(f) => f.conn = conn
    PROVE  /\ LoginsKnown' /\ LoginsMatch' /\ config'.inFlight # 0
           /\ \A f \in fetches' : Current(f)' => f.conn = conn
           /\ \E l \in Login : /\ l.by = by /\ l.conn = conn /\ ~l.manager /\ l.at = config'.inFlight
                               /\ logins' = logins \cup {l}
<1> DEFINE new == [conn |-> conn, remember |-> remember, mode |-> mode, by |-> by,
                   at |-> FetchId, manager |-> FALSE]
<1>1. client' = conn /\ logins' = logins \cup {new} /\ FetchConfig BY DEF StartLogin
<1>2. conn \in ConnOrNone /\ conn # NoConn BY SessionAssumption DEF ConnOrNone
<1>3. /\ FetchId \in Nat \ {0} /\ config'.inFlight = FetchId
      /\ IF Joins THEN config' = config /\ fetches' = fetches
         ELSE fetches' = fetches \cup {[id |-> FetchId, conn |-> conn, version |-> Unread]}
  BY <1>1, <1>2, FetchConfigEffect
<1>4. /\ new \in Login /\ new.by = by /\ new.conn = conn /\ ~new.manager /\ new.at = config'.inFlight
  BY <1>2, <1>3 DEF Login
<1> HIDE DEF new
<1>5. /\ config.token \in Nat /\ config'.token \in Nat
      /\ \A l \in logins : l.at \in Nat /\ l.at <= config.token
      /\ \A f \in fetches : f.id # 0 /\ f.id <= config.token
  <2>1. config.token \in Nat /\ \A l \in logins : l.at \in Nat
    BY Typed DEF StoreOK, ConfigType, CallsOK, Login
  <2>2. config'.token \in Nat BY DEF TypeInv, SessionTypeOK
  <2>3. \A l \in logins : l.at <= config.token BY DEF IInv, LoginInv, LoginsKnown
  <2>4. \A f \in fetches : f.id # 0 /\ f.id <= config.token BY Typed DEF TokenInv
  <2> QED BY <2>1, <2>2, <2>3, <2>4
<1>6. config'.inFlight <= config'.token
  BY <1>5 DEF TypeInv, TokenInv
<1>7. Joins => config' = config /\ fetches' = fetches BY <1>3
<1>8. ~Joins => FetchId = config.token + 1 BY DEF FetchId
<1>9. PICK f0 \in Fetch : /\ f0.id = FetchId /\ f0.conn = conn
                          /\ ~Joins => fetches' = fetches \cup {f0}
  <2>1. [id |-> FetchId, conn |-> conn, version |-> Unread] \in Fetch BY <1>2, <1>3 DEF Fetch
  <2> QED BY <1>3, <2>1
<1>10. \A f \in fetches' : f.id = FetchId => f.conn = conn
  <2>1. CASE Joins BY <1>3, <1>7, <2>1 DEF Current
  <2>2. CASE ~Joins BY <1>5, <1>8, <1>9, <2>2
  <2> QED BY <2>1, <2>2
<1>11. LoginsKnown'
  <2>1. config.token <= config'.token
    <3>1. CASE Joins BY <1>5, <1>7, <3>1
    <3>2. CASE ~Joins BY <1>3, <1>5, <1>6, <1>8, <3>2
    <3> QED BY <3>1, <3>2
  <2> QED BY <1>1, <1>2, <1>4, <1>5, <1>6, <2>1 DEF LoginsKnown, IInv, LoginInv
<1>12. LoginsMatch'
  <2> SUFFICES ASSUME NEW l \in logins', NEW f \in fetches', ~l.manager, l.at = f.id
               PROVE  l.conn = f.conn
    BY DEF LoginsMatch
  <2>1. CASE l = new BY <1>3, <1>4, <1>10, <2>1
  <2>2. CASE l \in logins /\ f \in fetches BY <2>2 DEF LoginsMatch, IInv, LoginInv
  <2>3. CASE l \in logins /\ f \notin fetches
    BY <1>5, <1>7, <1>8, <1>9, <2>3
  <2> QED BY <1>1, <2>1, <2>2, <2>3
<1> QED BY <1>1, <1>3, <1>4, <1>10, <1>11, <1>12 DEF Current

\* The remembered session is tried again.
LEMMA RestoreStartsInv ==
    ASSUME TypeInv, TypeInv', IInv, Restored, NEW mode \in Modes, UNCHANGED verified,
           restore = "none", auth.conn # NoConn, restore' = "pending",
           StartLogin(auth.conn, Remembers, mode, "restore")
    PROVE  IInv'
<1>1. Restoring BY DEF Restored, Restoring
<1>2. auth.conn \in Conns /\ Remembers \in BOOLEAN
  BY Typed DEF StoreOK, AuthType, ConnOrNone, Remembers
<1>3. ~auth.ok => page = "probing" /\ logins = {} /\ config.inFlight = 0
  BY DEF RememberedRests, IInv, PlaceInv
<1>4. \A f \in fetches : Current(f) => f.conn = auth.conn
  BY <1>1, <1>3, NoneCurrent, RestoringIsCalm
<1>5. /\ LoginsKnown' /\ LoginsMatch' /\ config'.inFlight # 0
      /\ \A f \in fetches' : Current(f)' => f.conn = auth.conn
  BY <1>2, <1>4, StartedLogin
<1>6. PICK l \in Login : /\ l.by = "restore" /\ l.conn = auth.conn /\ ~l.manager /\ l.at = config'.inFlight
                         /\ logins' = logins \cup {l}
  BY <1>2, <1>4, StartedLogin
<1>7. /\ client' = auth.conn /\ auth'.ok = auth.ok /\ auth'.conn = auth.conn
      /\ config'.data = config.data /\ config'.takenOver = config.takenOver
  BY <1>2, StartLoginEffect DEF ConnOrNone
<1>8. FormSubmits /\ RestoreShows /\ OneLogin BY DEF IInv, LoginInv
<1>9. page = "probing" /\ route # "idle" => logins = {}
  <2>1. \A k \in logins : k.by \in {"form", "restore"} BY Typed DEF CallsOK, Login
  <2> QED BY <1>8, <2>1 DEF FormSubmits, RestoreShows
<1>10. page' = "probing" \/ route' # "idle" => logins = {}
  BY <1>9 DEF Restored
<1>11. FormSubmits' BY <1>6, <1>8 DEF FormSubmits, Restored
<1>12. RestoreShows' BY <1>6, <1>8 DEF RestoreShows, Restored
<1>13. OneLogin'
  <2>1. route' # "idle" \/ ~auth'.ok => logins' = {l} BY <1>3, <1>6, <1>7, <1>10
  <2>2. \A j, k \in logins' : j.by = "form" /\ k.by = "form" => j = k
    BY <1>6, <1>8 DEF OneLogin
  <2> QED BY <2>1, <2>2 DEF OneLogin
<1>14. SomeoneWaits'
  <2> SUFFICES ASSUME ~auth'.ok PROVE WaitsFor(l)' /\ StillAwaits(l)'
    BY <1>6 DEF SomeoneWaits
  <2>1. page' \in {"probing", "restoring"} BY <1>3, <1>7 DEF Restored
  <2> QED BY <1>5, <1>6, <2>1 DEF WaitsFor, StillAwaits
<1>15. RememberedRests' BY DEF RememberedRests
<1>16. StraysApart'
  <2> SUFFICES ASSUME NEW k \in logins', NEW f \in fetches', Current(f)', k.at # f.id
               PROVE  route' = "idle" /\ page' # "probing"
    BY DEF StraysApart
  <2>1. k # l BY <1>6 DEF Current
  <2> QED BY <1>6, <1>10, <2>1
<1>17. SessionClient' BY <1>7 DEF SessionClient
<1>18. StrayFetch' BY <1>5, <1>7 DEF StrayFetch
<1>19. FetchedInSession' /\ AuthenticatedMeansAccepted'
  BY <1>7 DEF FetchedInSession, AuthenticatedMeansAccepted, IInv, SessionInv
<1> QED BY <1>5, <1>11, <1>12, <1>13, <1>14, <1>15, <1>16, <1>17, <1>18, <1>19 DEF IInv, LoginInv, PlaceInv, SessionInv

LEMMA RestoreSessionInv ==
    ASSUME TypeInv, TypeInv', IInv, Restored, NEW mode \in Modes, RestoreSession(mode), UNCHANGED verified
    PROVE  IInv'
<1>1. auth \in AuthType BY Typed DEF StoreOK
<1>2. CASE restore # "none" /\ UNCHANGED <<storeVars, fetches, logins, restore>>
  <2>1. UNCHANGED <<auth, client, config, fetches, logins, restore>> BY <1>2 DEF storeVars
  <2>2. SessionClient' BY <2>1 DEF SessionClient, IInv, SessionInv
  <2> QED BY <1>2, <2>1, <2>2, NoStartInv
<1>3. CASE restore = "none" /\ ForgetSession(mode)
  <2>1. /\ auth' = [auth EXCEPT !.conn = NoConn, !.remember = FALSE, !.mode = mode]
        /\ client' = NoConn /\ restore' = "failed" /\ UNCHANGED <<config, fetches, logins>>
    BY <1>3 DEF ForgetSession
  <2>2. auth'.ok = auth.ok /\ auth'.conn = NoConn BY <1>1, <2>1 DEF AuthType
  <2>3. SessionClient' BY <2>1, <2>2 DEF SessionClient
  <2> QED BY <1>3, <2>1, <2>2, <2>3, NoStartInv
<1>4. CASE /\ restore = "none" /\ auth.conn # NoConn /\ restore' = "pending"
           /\ StartLogin(auth.conn, Remembers, mode, "restore")
  BY <1>4, RestoreStartsInv
<1>5. CASE /\ restore = "none" /\ restore' = "failed"
           /\ auth' = [auth EXCEPT !.remember = Remembers, !.mode = mode]
           /\ client' = auth.conn /\ UNCHANGED <<flag, config, fetches, logins>>
  <2>1. auth'.ok = auth.ok /\ auth'.conn = auth.conn BY <1>1, <1>5 DEF AuthType
  <2>2. SessionClient' BY <1>5, <2>1 DEF SessionClient
  <2> QED BY <1>5, <2>1, <2>2, NoStartInv
<1> QED BY <1>2, <1>3, <1>4, <1>5 DEF RestoreSession

LEMMA PlacesInv ==
    ASSUME TypeInv, TypeInv', IInv, NEW mode \in Modes, InitLoginPage(mode) \/ TryRestore(mode)
    PROVE  IInv'
<1>1. RestoreSession(mode) /\ UNCHANGED verified BY DEF InitLoginPage, TryRestore
<1>2. CASE InitLoginPage(mode)
  <2>1. page = "probing" /\ route' = route BY <1>2 DEF InitLoginPage
  <2>2. page' \in {"restoring", "splash", "form"} /\ (restore' = "pending" => page' = "restoring")
    <3>1. CASE restore' = "pending" BY <1>2, <3>1 DEF InitLoginPage
    <3>2. CASE restore' = "done" BY <1>2, <3>2 DEF InitLoginPage
    <3>3. CASE restore' \notin {"pending", "done"} BY <1>2, <3>3 DEF InitLoginPage
    <3> QED BY <3>1, <3>2, <3>3
  <2>3. Restored BY <2>1, <2>2 DEF Restored
  <2> QED BY <1>1, <2>3, RestoreSessionInv
<1>3. CASE TryRestore(mode)
  <2>1. Restored BY <1>3 DEF TryRestore, Restored
  <2> QED BY <1>1, <2>1, RestoreSessionInv
<1> QED BY <1>2, <1>3

LEMMA SubmitInv ==
    ASSUME TypeInv, TypeInv', IInv, NEW c \in Conns, NEW r \in BOOLEAN, NEW m \in Modes, Submit(c, r, m)
    PROVE  IInv'
<1>1. /\ page = "form" /\ ~auth.ok /\ page' = "submitting" /\ StartLogin(c, r, m, "form")
      /\ UNCHANGED <<restore, route, verified>>
  BY DEF Submit
<1>2. config.inFlight = 0 BY <1>1 DEF IInv, PlaceInv, SomeoneWaits, StillAwaits
<1>3. \A f \in fetches : Current(f) => f.conn = c BY <1>2, NoneCurrent
<1>4. LoginsKnown' /\ LoginsMatch' /\ config'.inFlight # 0 BY <1>1, <1>3, StartedLogin
<1>5. PICK l \in Login : /\ l.by = "form" /\ l.conn = c /\ ~l.manager /\ l.at = config'.inFlight
                         /\ logins' = logins \cup {l}
  BY <1>1, <1>3, StartedLogin
<1>6. auth'.ok = auth.ok /\ auth'.conn = auth.conn /\ config'.data = config.data
  BY <1>1, StartLoginEffect DEF ConnOrNone
<1>7. FormSubmits /\ RestoreShows /\ OneLogin BY DEF IInv, LoginInv
<1>8. \A k \in logins : k.by = "restore" /\ route = "idle"
  <2>1. \A k \in logins : k.by \in {"form", "restore"} BY Typed DEF CallsOK, Login
  <2> QED BY <1>1, <1>7, <2>1 DEF FormSubmits, RestoreShows
<1>9. FormSubmits' BY <1>1 DEF FormSubmits
<1>10. RestoreShows' BY <1>1, <1>5, <1>8 DEF RestoreShows
<1>11. OneLogin' BY <1>1, <1>5, <1>6, <1>7, <1>8 DEF OneLogin
<1>12. SomeoneWaits' BY <1>1, <1>4, <1>5 DEF SomeoneWaits, WaitsFor, StillAwaits
<1>13. RememberedRests' BY <1>1, <1>6 DEF RememberedRests, IInv, PlaceInv
<1>14. StraysApart'
  <2> SUFFICES ASSUME NEW k \in logins', NEW f \in fetches', Current(f)', k.at # f.id
               PROVE  route' = "idle" /\ page' # "probing"
    BY DEF StraysApart
  <2>1. k # l BY <1>5 DEF Current
  <2> QED BY <1>1, <1>5, <1>8, <2>1
<1>15. SessionInv'
  <2>1. config.data.from # "fetch" BY <1>1 DEF FetchedInSession, IInv, SessionInv
  <2> QED BY <1>1, <1>6, <2>1
      DEF SessionInv, SessionClient, StrayFetch, FetchedInSession, AuthenticatedMeansAccepted
<1> QED BY <1>4, <1>9, <1>10, <1>11, <1>12, <1>13, <1>14, <1>15 DEF IInv, LoginInv, PlaceInv

\* In the panel nobody waits for a login, and a request goes to the session's server.
LEMMA PanelFetchesInv ==
    ASSUME TypeInv, TypeInv', IInv, InPanel, UNCHANGED <<auth, client, logins, restore, page, route, verified>>,
           \/ UNCHANGED <<config, fetches>>
           \/ \E f \in Fetch : /\ f.id > config.token /\ f.conn = client /\ fetches' = fetches \cup {f}
                               /\ config'.inFlight = f.id /\ config'.token >= config.token,
           \/ config'.data = config.data /\ config'.takenOver = config.takenOver
           \/ config'.data.from = "none"
    PROVE  IInv'
<1>1. CASE UNCHANGED <<config, fetches>> BY <1>1, AlikeInv
<1>2. ASSUME NEW f0 \in Fetch, f0.id > config.token, f0.conn = client, fetches' = fetches \cup {f0},
             config'.inFlight = f0.id, config'.token >= config.token
      PROVE  IInv'
  <2>1. page = "panel" /\ auth.ok /\ client = auth.conn
    BY DEF InPanel, SessionClient, IInv, SessionInv
  <2>2. /\ config.token \in Nat /\ f0.id \in Nat
        /\ \A l \in logins : l.at \in Nat /\ l.by \in {"form", "restore"}
    BY Typed DEF StoreOK, ConfigType, CallsOK, Login, Fetch
  <2>3. config'.token \in Nat BY DEF TypeInv, SessionTypeOK
  <2>4. \A l \in logins : l.at <= config.token /\ l.conn # NoConn
    BY DEF LoginsKnown, IInv, LoginInv
  <2>5. LoginsKnown' BY <1>2, <2>2, <2>3, <2>4 DEF LoginsKnown
  <2>6. LoginsMatch'
    <3>1. \A l \in logins : l.at # f0.id BY <1>2, <2>2, <2>4
    <3> QED BY <1>2, <3>1 DEF LoginsMatch, IInv, LoginInv
  <2>7. FormSubmits' /\ RestoreShows' /\ OneLogin'
    BY DEF FormSubmits, RestoreShows, OneLogin, IInv, LoginInv
  <2>8. \A l \in logins : route = "idle"
    BY <2>1, <2>2 DEF FormSubmits, RestoreShows, IInv, LoginInv
  <2>9. PlaceInv' BY <2>1, <2>8 DEF PlaceInv, SomeoneWaits, RememberedRests, StraysApart
  <2>10. \A f \in fetches' : Current(f)' => f.conn = auth.conn
    <3>1. \A f \in fetches : f.id \in Nat /\ f.id <= config.token BY Typed DEF TokenInv, CallsOK, Fetch
    <3> QED BY <1>2, <2>1, <2>2, <3>1 DEF Current
  <2>11. SessionClient' /\ StrayFetch' BY <2>1, <2>10 DEF SessionClient, StrayFetch
  <2>12. FetchedInSession' /\ AuthenticatedMeansAccepted'
    BY DEF FetchedInSession, AuthenticatedMeansAccepted, IInv, SessionInv
  <2> QED BY <2>5, <2>6, <2>7, <2>9, <2>11, <2>12 DEF IInv, LoginInv, SessionInv
<1> QED BY <1>1, <1>2

LEMMA PageFetchInv ==
    ASSUME TypeInv, TypeInv', IInv, NEW force \in BOOLEAN, PageFetch(force) PROVE IInv'
<1>1. /\ InPanel /\ FetchConfig /\ client' = client
      /\ UNCHANGED <<auth, client, logins, restore, page, route, verified>>
  BY DEF PageFetch
<1>2. client' \in ConnOrNone BY <1>1, Typed DEF StoreOK
<1>3. /\ config'.data = config.data /\ config'.takenOver = config.takenOver /\ config'.inFlight = FetchId
      /\ FetchId \in Nat
      /\ IF Joins THEN config' = config /\ fetches' = fetches
         ELSE fetches' = fetches \cup {[id |-> FetchId, conn |-> client', version |-> Unread]}
  BY <1>1, <1>2, FetchConfigEffect
<1>4. CASE Joins BY <1>1, <1>3, <1>4, PanelFetchesInv
<1>5. CASE ~Joins
  <2>1. PICK f \in Fetch : f.id = FetchId /\ f.conn = client /\ fetches' = fetches \cup {f}
    <3>1. [id |-> FetchId, conn |-> client', version |-> Unread] \in Fetch BY <1>2, <1>3 DEF Fetch
    <3> QED BY <1>1, <1>3, <1>5, <3>1
  <2>2. FetchId = config.token + 1 BY <1>5 DEF FetchId
  <2>3. config.token \in Nat BY Typed DEF StoreOK, ConfigType
  <2>4. config'.token \in Nat /\ config'.inFlight \in {0, config'.token}
    BY DEF TypeInv, SessionTypeOK, TokenInv
  <2>5. f.id > config.token /\ config'.token >= config.token BY <1>3, <2>1, <2>2, <2>3, <2>4
  <2> QED BY <1>1, <1>3, <2>1, <2>5, PanelFetchesInv
<1> QED BY <1>4, <1>5

LEMMA RefreshAllInv == ASSUME TypeInv, TypeInv', IInv, RefreshAll PROVE IInv'
<1>1. InPanel /\ UNCHANGED <<auth, client, logins, restore, page, route, verified>>
  BY DEF RefreshAll
<1>2. /\ config'.data = NoData
      /\ config'.token = config.token + 2 /\ config'.inFlight = config.token + 2
      /\ fetches' = fetches \cup {[id |-> config.token + 2, conn |-> client, version |-> Unread]}
      /\ [id |-> config.token + 2, conn |-> client, version |-> Unread] \in Fetch
  BY RefreshAllEffect
<1>3. PICK f \in Fetch : f.id = config.token + 2 /\ f.conn = client /\ fetches' = fetches \cup {f}
  BY <1>2
<1>4. config.token \in Nat BY Typed DEF StoreOK, ConfigType
<1>5. f.id > config.token /\ config'.inFlight = f.id /\ config'.token >= config.token
  BY <1>2, <1>3, <1>4
<1>6. config'.data.from = "none" BY <1>2 DEF NoData
<1> QED BY <1>1, <1>3, <1>5, <1>6, PanelFetchesInv

\* A logout in whatever place.
LEMMA LogoutInv ==
    ASSUME TypeInv, TypeInv', IInv, Logout, UNCHANGED <<fetches, logins, page, route>> PROVE IInv'
<1>1. auth' = LoggedOut /\ config' = ClearedConfig /\ restore' = "none" BY DEF Logout
<1>2. config \in ConfigType /\ auth \in AuthType /\ config.token \in Nat
  BY Typed DEF StoreOK, ConfigType
<1>3. config'.inFlight = 0 /\ config'.data.from # "fetch" /\ config'.token = config.token + 1
  BY <1>1, <1>2, Cleared DEF NoData
<1>4. auth'.ok = FALSE /\ auth'.conn = NoConn BY <1>1, <1>2, Ended
<1>5. config'.token \in Nat /\ config'.token >= config.token BY <1>2, <1>3
<1>6. LoginsKnown' /\ LoginsMatch' BY <1>5, FewerMatch DEF Fewer
<1>7. FormSubmits' /\ RestoreShows' /\ OneLogin'
  BY <1>1 DEF FormSubmits, RestoreShows, OneLogin, IInv, LoginInv
<1> QED BY <1>3, <1>4, <1>6, <1>7, LoggedOutInv DEF IInv, LoginInv

LEMMA ReloadInv == ASSUME TypeInv', NEW protected \in BOOLEAN, TypeInv, Reload(protected) PROVE IInv'
<1>1. /\ auth' = [auth EXCEPT !.ok = FALSE, !.status = "disconnected",
                              !.conn = IF auth.remember THEN @ ELSE NoConn]
      /\ config' = FreshConfig /\ fetches' = {} /\ logins' = {} /\ page' = "probing"
  BY DEF Reload
<1>2. auth'.ok = FALSE BY <1>1, Typed DEF StoreOK, AuthType
<1>3. config'.inFlight = 0 /\ config'.data.from = "none" BY <1>1 DEF FreshConfig, NoData
<1>4. LoginInv' BY <1>1 DEF LoginInv, LoginsKnown, LoginsMatch, FormSubmits, RestoreShows, OneLogin
<1>5. PlaceInv' BY <1>1, <1>2, <1>3 DEF PlaceInv, SomeoneWaits, RememberedRests, StraysApart
<1>6. SessionInv'
  BY <1>1, <1>2, <1>3 DEF SessionInv, SessionClient, StrayFetch, FetchedInSession, AuthenticatedMeansAccepted
<1> QED BY <1>4, <1>5, <1>6 DEF IInv

LEMMA SaveAnswersInv == ASSUME TypeInv, TypeInv', IInv, SaveAnswers PROVE IInv'
<1>1. UNCHANGED <<auth, client, fetches, logins, restore, page, route, verified>> BY DEF SaveAnswers
<1>2. CASE UNCHANGED config BY <1>1, <1>2, AlikeInv
<1>3. CASE saving.at = "applied" /\ config' = UpdatedConfig(saving)
  <2>1. config'.inFlight = 0 /\ config'.token = config.token + 1 /\ config'.data.from # "fetch"
    <3>1. /\ config'.inFlight = 0 /\ config'.token = config.token + 1
          /\ config'.data = [conn |-> saving.conn, version |-> saving.version, from |-> "save"]
      BY <1>3, SaveAnswersEffect
    <3> QED BY <3>1
  <2>2. config.token \in Nat BY Typed DEF StoreOK, ConfigType
  <2>3. config'.token \in Nat /\ config'.token >= config.token BY <2>1, <2>2
  <2>4. LoginsKnown' /\ LoginsMatch' BY <1>1, <2>3, FewerMatch DEF Fewer
  <2>5. FormSubmits' /\ RestoreShows' /\ OneLogin'
    BY <1>1 DEF FormSubmits, RestoreShows, OneLogin, IInv, LoginInv
  <2>6. \A f \in fetches' : ~Current(f)' BY <2>1, NoneCurrentNext
  <2>7. PlaceInv'
    BY <1>1, <2>1, <2>6 DEF PlaceInv, SomeoneWaits, RememberedRests, StraysApart, IInv
  <2>8. SessionInv'
    BY <1>1, <2>1, <2>6
    DEF SessionInv, SessionClient, StrayFetch, FetchedInSession, AuthenticatedMeansAccepted, IInv
  <2> QED BY <2>4, <2>5, <2>7, <2>8 DEF IInv, LoginInv
<1> QED BY <1>2, <1>3 DEF SaveAnswers

LEMMA UserInv == ASSUME TypeInv, TypeInv', IInv, SessionUser PROVE IInv'
<1>1. CASE StartSave \/ OtherRequest
  <2>1. UNCHANGED <<auth, client, config, fetches, logins, restore, page, route, verified>>
    BY <1>1 DEF StartSave, OtherRequest, storeVars
  <2> QED BY <2>1, AlikeInv
<1>2. CASE ClearLoginStorage
  <2>1. Logout /\ UNCHANGED <<fetches, logins, page, route>> BY <1>2 DEF ClearLoginStorage
  <2> QED BY <2>1, LogoutInv
<1> QED BY <1>1, <1>2, SubmitInv, PageFetchInv, RefreshAllInv, ReloadInv DEF SessionUser

LEMMA AnswersInv == ASSUME TypeInv, TypeInv', IInv, SessionAnswers PROVE IInv'
<1>1. ASSUME NEW f \in fetches, FetchSucceeds(f) PROVE IInv'
  BY <1>1, ReadSucceedsInv, LoginSucceedsInv DEF FetchSucceeds
<1> QED BY <1>1, FetchFailsInv, FetchDeniedInv, ManagerAnswersInv DEF SessionAnswers

LEMMA IStep == TypeInv /\ IInv /\ [SessionNext]_sessionVars => IInv'
<1> SUFFICES ASSUME TypeInv, IInv, [SessionNext]_sessionVars PROVE IInv'
  OBVIOUS
<1>1. TypeInv' BY TypeStep
<1>2. CASE SessionUser BY <1>1, <1>2, UserInv
<1>3. CASE SessionAnswers BY <1>1, <1>3, AnswersInv
<1>4. CASE \E m \in Modes : InitLoginPage(m) \/ TryRestore(m) BY <1>1, <1>4, PlacesInv
<1>5. CASE Enter \/ Leave
  <2>1. /\ UNCHANGED <<auth, client, config, fetches, logins, restore, route, verified>>
        /\ page \notin {"submitting", "probing", "restoring"} /\ (page' = "probing" => ~auth.ok)
    BY <1>5 DEF Enter, Leave, storeVars
  <2> QED BY <1>1, <2>1, PageMovesInv
<1>6. ASSUME NEW f \in fetches, ServeFetch(f) PROVE IInv'
  <2>1. UNCHANGED <<auth, client, config, logins, restore, page, route, verified>>
    BY <1>6 DEF ServeFetch, storeVars
  <2>2. PICK g \in Fetch : g.id = f.id /\ g.conn = f.conn /\ fetches' = (fetches \ {f}) \cup {g}
    BY <1>6, ServeFetchEffect
  <2> QED BY <2>1, <2>2, AlikeInv
<1>7. CASE ServeSave \/ UNCHANGED sessionVars
  <2>1. UNCHANGED <<auth, client, config, fetches, logins, restore, page, route, verified>>
    BY <1>7 DEF ServeSave, sessionVars, storeVars
  <2> QED BY <2>1, AlikeInv
<1>8. CASE SaveAnswers BY <1>1, <1>8, SaveAnswersInv
<1>9. ASSUME NEW c \in ConnOrNone, OtherAnswers(c) PROVE IInv'
  <2>1. UNCHANGED <<fetches, logins, page, route, verified>> BY <1>9 DEF OtherAnswers
  <2>2. CASE UNCHANGED <<storeVars, restore>> BY <2>1, <2>2, AlikeInv DEF storeVars
  <2>3. CASE Logout BY <1>1, <2>1, <2>3, LogoutInv
  <2> QED BY <1>9, <2>2, <2>3 DEF OtherAnswers
<1> QED BY <1>2, <1>3, <1>4, <1>5, <1>6, <1>7, <1>8, <1>9 DEF SessionNext

LEMMA IStart == SessionInit => IInv
<1> SUFFICES ASSUME SessionInit PROVE IInv
  OBVIOUS
<1>1. auth.ok = FALSE /\ config = FreshConfig /\ fetches = {} /\ logins = {} /\ page = "probing"
  BY DEF SessionInit
<1>2. config.inFlight = 0 /\ config.data.from = "none" BY <1>1 DEF FreshConfig, NoData
<1>3. LoginInv BY <1>1 DEF LoginInv, LoginsKnown, LoginsMatch, FormSubmits, RestoreShows, OneLogin
<1>4. PlaceInv BY <1>1, <1>2 DEF PlaceInv, SomeoneWaits, RememberedRests, StraysApart
<1>5. SessionInv
  BY <1>1, <1>2 DEF SessionInv, SessionClient, StrayFetch, FetchedInSession, AuthenticatedMeansAccepted
<1> QED BY <1>3, <1>4, <1>5 DEF IInv

\* However requests are merged, abandoned and answered, whoever has a session
\* with a key was accepted with it (useAuthStore.ts login, useConfigStore.ts
\* fetchConfig): a login never succeeds by another connection's answer.
THEOREM AcceptedBeforeLetIn == SessionSpec => []AuthenticatedMeansAccepted
<1>1. SessionInit => TypeInv /\ IInv BY InitTypes, IStart
<1>2. TypeInv /\ IInv /\ [SessionNext]_sessionVars => TypeInv' /\ IInv' BY TypeStep, IStep
<1>3. IInv => AuthenticatedMeansAccepted BY DEF IInv, SessionInv
<1> QED BY <1>1, <1>2, <1>3, PTL DEF SessionSpec

\* A configuration that was fetched is of the connection in use, unless an
\* abandoned login has taken the session over (useConfigStore.ts fetchConfig
\* and clearCache, called by logout and by the login to a manager).
THEOREM FetchedStaysInSession == SessionSpec => []FetchedForThisSession
<1>1. SessionInit => TypeInv /\ IInv BY InitTypes, IStart
<1>2. TypeInv /\ IInv /\ [SessionNext]_sessionVars => TypeInv' /\ IInv' BY TypeStep, IStep
<1>3. IInv => FetchedForThisSession
  BY DEF IInv, SessionInv, FetchedInSession, SessionClient, FetchedForThisSession
<1> QED BY <1>1, <1>2, <1>3, PTL DEF SessionSpec
=============================================================================
