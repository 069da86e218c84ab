------------------------------ MODULE PanelSession ------------------------------
(***************************************************************************)
(* The session of the web panel: the login page and the protected route,   *)
(* which both restore a remembered session; the auth store; the HTTP       *)
(* client, whose answer 401 to ANY request ends the session; and the       *)
(* configuration store with its cache, its merging of requests under way   *)
(* and its request token.                                                  *)
(*                                                                         *)
(* A handler runs up to its next await in one step: JavaScript interrupts  *)
(* it nowhere else.  The continuations of one answer run in one step too,  *)
(* no event gets between them.                                             *)
(***************************************************************************)
EXTENDS Integers, FiniteSets

CONSTANTS
    Conns,       \* connections: a server's address with a management key
    NoConn,      \* no connection
    MaxToken,    \* bound: how often requests and saves raise the configuration token
    MaxSaves,    \* bound: changes of one server's configuration
    MaxOthers    \* bound: requests of other pages under way

ASSUME SessionAssumption ==
    /\ NoConn \notin Conns
    /\ MaxToken \in Nat /\ MaxSaves \in Nat /\ MaxOthers \in Nat

Modes == {"external_panel", "manager_embedded"}
NoMode == "unset"
ConnOrNone == Conns \cup {NoConn}

VARIABLES
    auth,      \* the auth store
    flag,      \* isLoggedIn in the local storage
    client,    \* the connection the HTTP client uses
    config,    \* the configuration store; takenOver is a history of it
    fetches,   \* GETs of the configuration under way
    readers,   \* ids of the GETs a page waits for
    logins,    \* calls of login() under way
    restore,   \* the memoised promise of restoreSession
    page,      \* what the user sees
    route,     \* the protected route's own attempt to restore the session
    saving,    \* a page's PUT of a section
    others,    \* number of other requests under way, per connection
    served,    \* per connection, the version of the configuration on its server
    written,   \* history: per connection, the last version this panel wrote to its store
    verified   \* history: connections a server has accepted

sessionVars == <<auth, flag, client, config, fetches, readers, logins, restore,
                 page, route, saving, others, served, written, verified>>
storeVars == <<auth, flag, client, config>>

Unread == -1
NoData == [conn |-> NoConn, version |-> 0, from |-> "none"]
Data == [conn : ConnOrNone, from : {"none", "fetch", "save"}, version : 0 .. MaxSaves]
Fetch == [id : Nat, conn : ConnOrNone, version : {Unread} \cup (0 .. MaxSaves)]
Login == [conn : ConnOrNone, remember : BOOLEAN, mode : Modes,
          by : {"form", "restore"}, at : Nat, manager : BOOLEAN]
NotSaving == [at |-> "no", conn |-> NoConn, version |-> 0]
Save == {NotSaving} \cup [at : {"sent", "applied"}, conn : Conns, version : 0 .. MaxSaves]

FreshConfig == [data |-> NoData, cached |-> FALSE, token |-> 0, inFlight |-> 0, takenOver |-> FALSE]

SessionInit ==
    /\ auth = [ok |-> FALSE, conn |-> NoConn, remember |-> FALSE, mode |-> NoMode, status |-> "disconnected"]
    /\ flag = FALSE
    /\ client = NoConn
    /\ config = FreshConfig
    /\ fetches = {} /\ readers = {} /\ logins = {}
    /\ restore = "none" /\ page = "probing" /\ route = "idle"
    /\ saving = NotSaving
    /\ others = [c \in ConnOrNone |-> 0]
    /\ served = [c \in Conns |-> 0]
    /\ written = [c \in ConnOrNone |-> 0]
    /\ verified = {}

-----------------------------------------------------------------------------
(* Mutated forms of the definitions below, for the runs' mutants. *)

KeepInFlight ==
    [config EXCEPT !.data = NoData, !.cached = FALSE, !.token = @ + 1, !.takenOver = FALSE]

KeepToken(c) == [c EXCEPT !.cached = FALSE, !.inFlight = 0]

AlwaysStored(f) ==
    [config EXCEPT !.data = [conn |-> f.conn, version |-> f.version, from |-> "fetch"],
                   !.cached = TRUE, !.inFlight = 0]

OnlyCurrentLogins(f) == {l \in logins : ~l.manager /\ l.at = f.id /\ f.id = config.inFlight}

KeepReader(f) == /\ fetches' = fetches \ {f}
                 /\ UNCHANGED readers

-----------------------------------------------------------------------------
(* The stores. *)

\* clearCache(): the data go, and no request under way may bring them back.
ClearedConfig ==
    [config EXCEPT !.data = NoData, !.cached = FALSE, !.token = @ + 1, !.inFlight = 0,
                   !.takenOver = FALSE]

\* clearCache(section): the data stay, the cache of the whole goes.
SectionCleared(c) == [c EXCEPT !.cached = FALSE, !.token = @ + 1, !.inFlight = 0]

\* updateConfigValue(section, value), with the version a save produced.
UpdatedConfig(save) ==
    SectionCleared([config EXCEPT
        !.data = [conn |-> save.conn, version |-> save.version, from |-> "save"]])

\* logout().  It leaves rememberPassword as it is.
LoggedOut == [auth EXCEPT !.ok = FALSE, !.conn = NoConn, !.mode = NoMode, !.status = "disconnected"]

Logout ==
    /\ auth' = LoggedOut
    /\ flag' = FALSE
    /\ client' = NoConn
    /\ config' = ClearedConfig
    /\ restore' = "none"

\* markAuthenticated().
Authenticated(l) ==
    /\ client' = l.conn
    /\ auth' = [ok |-> TRUE, conn |-> l.conn, remember |-> l.remember, mode |-> l.mode,
                status |-> "connected"]
    /\ flag' = l.remember

\* A request the configuration store starts, or the one under way it joins.
Joins == config.inFlight # 0
FetchId == IF Joins THEN config.inFlight ELSE config.token + 1

FetchConfig ==
    IF Joins
    THEN UNCHANGED <<config, fetches>>
    ELSE /\ config.token < MaxToken
         /\ config' = [config EXCEPT !.token = @ + 1, !.inFlight = config.token + 1]
         /\ fetches' = fetches \cup {[id |-> config.token + 1, conn |-> client', version |-> Unread]}

-----------------------------------------------------------------------------
(* login() and restoreSession(). *)

StartLogin(conn, remember, mode, by) ==
    /\ client' = conn
    /\ auth' = [auth EXCEPT !.status = "connecting",
                            !.remember = IF by = "restore" THEN remember ELSE @,
                            !.mode = IF by = "restore" THEN mode ELSE @]
    /\ logins' = logins \cup {[conn |-> conn, remember |-> remember, mode |-> mode,
                               by |-> by, at |-> FetchId, manager |-> FALSE]}
    /\ FetchConfig

\* The remembered session is of the other kind of server: its key is dropped.
ForgetSession(mode) ==
    /\ auth' = [auth EXCEPT !.conn = NoConn, !.remember = FALSE, !.mode = mode]
    /\ client' = NoConn
    /\ flag' = FALSE
    /\ restore' = "failed"
    /\ UNCHANGED <<config, fetches, logins>>

\* A key in memory counts as a key to remember.
Remembers == auth.remember \/ auth.conn # NoConn

RestoreSession(mode) ==
    \/ /\ restore # "none"
       /\ UNCHANGED <<storeVars, fetches, logins, restore>>
    \/ /\ restore = "none" /\ auth.mode \notin {NoMode, mode}
       /\ ForgetSession(mode)
    \/ /\ restore = "none" /\ auth.mode \in {NoMode, mode} /\ flag /\ auth.conn # NoConn
       /\ restore' = "pending"
       /\ StartLogin(auth.conn, Remembers, mode, "restore")
       /\ UNCHANGED flag
    \/ /\ restore = "none" /\ auth.mode \in {NoMode, mode} /\ ~(flag /\ auth.conn # NoConn)
       /\ restore' = "failed"
       /\ auth' = [auth EXCEPT !.remember = Remembers, !.mode = mode]
       /\ client' = auth.conn
       /\ UNCHANGED <<flag, config, fetches, logins>>

\* The login page has asked the server what it is, and waits for the session.
InitLoginPage(mode) ==
    /\ page = "probing"
    /\ RestoreSession(mode)
    /\ page' = CASE restore' = "pending" -> "restoring"
                  [] restore' = "done" -> "splash"
                  [] OTHER -> "form"
    /\ UNCHANGED <<readers, route, saving, others, served, written, verified>>

\* So does the protected route; its answer may come when the page has gone.
TryRestore(mode) ==
    /\ route = "probing"
    /\ RestoreSession(mode)
    /\ route' = "idle"
    /\ UNCHANGED <<readers, page, saving, others, served, written, verified>>

\* The splash's timer, and the login page of someone who is logged in.
Enter ==
    /\ page = "splash" \/ (page = "form" /\ auth.ok)
    /\ page' = "panel"
    /\ UNCHANGED <<storeVars, fetches, readers, logins, restore, route, saving, others, served, written, verified>>

\* The form, whose button is disabled while a submission is under way.
Submit(conn, remember, mode) ==
    /\ page = "form" /\ ~auth.ok
    /\ StartLogin(conn, remember, mode, "form")
    /\ page' = "submitting"
    /\ UNCHANGED <<flag, readers, restore, route, saving, others, served, written, verified>>

\* Without a session the protected route shows the login page.
Leave ==
    /\ page = "panel" /\ ~auth.ok
    /\ page' = "probing"
    /\ UNCHANGED <<storeVars, fetches, readers, logins, restore, route, saving, others, served, written, verified>>

-----------------------------------------------------------------------------
(* What a logged-in page does. *)

InPanel == page = "panel" /\ auth.ok

\* fetchConfig(), with or without forceRefresh; a valid cache answers at once.
PageFetch(force) ==
    /\ InPanel
    /\ force \/ ~config.cached
    /\ client' = client
    /\ FetchConfig
    /\ readers' = readers \cup {FetchId}
    /\ UNCHANGED <<auth, flag, logins, restore, page, route, saving, others, served, written, verified>>

\* handleRefreshAll(): clearCache(), then a forced fetch.
RefreshAll ==
    /\ InPanel /\ config.token + 1 < MaxToken
    /\ config' = [ClearedConfig EXCEPT !.token = @ + 1, !.inFlight = config.token + 2]
    /\ fetches' = fetches \cup {[id |-> config.token + 2, conn |-> client, version |-> Unread]}
    /\ readers' = readers \cup {config.token + 2}
    /\ UNCHANGED <<auth, flag, client, logins, restore, page, route, saving, others, served, written, verified>>

StartSave ==
    /\ InPanel /\ saving.at = "no" /\ client # NoConn /\ config.token < MaxToken
    /\ saving' = [at |-> "sent", conn |-> client, version |-> 0]
    /\ UNCHANGED <<storeVars, fetches, readers, logins, restore, page, route, others, served, written, verified>>

OtherRequest ==
    /\ InPanel /\ others[client] < MaxOthers
    /\ others' = [others EXCEPT ![client] = @ + 1]
    /\ UNCHANGED <<storeVars, fetches, readers, logins, restore, page, route, saving, served, written, verified>>

\* The system page's "clear login storage": logout, and the stored session removed.
ClearLoginStorage ==
    /\ InPanel
    /\ Logout
    /\ UNCHANGED <<fetches, readers, logins, page, route, saving, others, served, written, verified>>

\* The page is reloaded: what lived in memory is gone, requests are abandoned.
\* The protected route probes only if a session was remembered.
Reload(protected) ==
    /\ page \in {"panel", "form"}
    /\ auth' = [auth EXCEPT !.ok = FALSE, !.status = "disconnected",
                             !.conn = IF auth.remember THEN @ ELSE NoConn]
    /\ client' = NoConn
    /\ config' = FreshConfig
    /\ fetches' = {} /\ readers' = {} /\ logins' = {}
    /\ restore' = "none"
    /\ page' = "probing"
    /\ route' = IF protected /\ auth'.conn # NoConn THEN "probing" ELSE "idle"
    /\ saving' = NotSaving
    /\ others' = [c \in ConnOrNone |-> 0]
    /\ UNCHANGED <<flag, served, written, verified>>

-----------------------------------------------------------------------------
(* The server, and its answers. *)

ServeFetch(f) ==
    /\ f.version = Unread /\ f.conn # NoConn
    /\ fetches' = (fetches \ {f}) \cup {[f EXCEPT !.version = served[f.conn]]}
    /\ UNCHANGED <<storeVars, readers, logins, restore, page, route, saving, others, served, written, verified>>

\* The continuation of fetchConfig: only the request the token names is stored.
Stored(f) ==
    IF f.id = config.token
    THEN [config EXCEPT !.data = [conn |-> f.conn, version |-> f.version, from |-> "fetch"],
                        !.cached = TRUE, !.inFlight = 0]
    ELSE config

LoginsOn(f) == {l \in logins : ~l.manager /\ l.at = f.id}
Answered(f) == /\ fetches' = fetches \ {f}
               /\ readers' = readers \ {f.id}

\* Who waits for a login hears of its end: the form at once, the login page
\* and the memoised promise if it was the restored session's.
LoginEnds(l, succeeded, restoreNow) ==
    /\ restore' = IF l.by = "form" \/ restoreNow # "pending" THEN restoreNow
                  ELSE IF succeeded THEN "done" ELSE "failed"
    /\ page' = CASE l.by = "form" /\ page = "submitting" -> IF succeeded THEN "panel" ELSE "form"
                  [] l.by = "restore" /\ page = "restoring" -> IF succeeded THEN "splash" ELSE "form"
                  [] OTHER -> page

\* A login that answers after a logout and a login elsewhere takes the session
\* over, and leaves the store as it is; history remembers it until the store is
\* cleared or the login's own answer fills it.
TakesOver(l, f) == f.id # config.token /\ (config.takenOver \/ (auth.ok /\ auth.conn # l.conn))

\* The answer 200: the store, then the logins that wait for it.
FetchSucceeds(f) ==
    /\ f.version # Unread
    /\ Answered(f)
    /\ verified' = verified \cup {f.conn}
    /\ logins' = logins \ LoginsOn(f)
    /\ \/ /\ LoginsOn(f) = {}
          /\ config' = Stored(f)
          /\ UNCHANGED <<auth, flag, client, restore, page>>
       \/ \E l \in LoginsOn(f) :
              /\ config' = [Stored(f) EXCEPT !.takenOver = TakesOver(l, f)]
              /\ Authenticated(l) /\ LoginEnds(l, TRUE, restore)
    /\ UNCHANGED <<route, saving, others, served, written>>

\* A login whose request failed: an embedded panel asks the manager for its
\* configuration, another one reports the error.
LoginFails(l, authNow, restoreNow) ==
    IF l.mode = "manager_embedded" /\ ~l.manager
    THEN /\ logins' = (logins \ {l}) \cup {[l EXCEPT !.manager = TRUE]}
         /\ auth' = authNow /\ restore' = restoreNow
         /\ UNCHANGED page
    ELSE /\ logins' = logins \ {l}
         /\ auth' = [authNow EXCEPT !.status = "error"]
         /\ LoginEnds(l, FALSE, restoreNow)

\* The answer fails otherwise than with 401.
FetchFails(f) ==
    /\ Answered(f)
    /\ config' = IF f.id = config.inFlight THEN [config EXCEPT !.inFlight = 0] ELSE config
    /\ \/ LoginsOn(f) = {} /\ UNCHANGED <<auth, logins, restore, page>>
       \/ \E l \in LoginsOn(f) : LoginFails(l, auth, restore)
    /\ UNCHANGED <<flag, client, route, saving, others, served, written, verified>>

\* The answer 401 raises 'unauthorized' before anyone who waits hears of it.
FetchDenied(f) ==
    /\ Answered(f)
    /\ flag' = FALSE /\ client' = NoConn /\ config' = ClearedConfig
    /\ \/ LoginsOn(f) = {} /\ auth' = LoggedOut /\ restore' = "none" /\ UNCHANGED <<logins, page>>
       \/ \E l \in LoginsOn(f) : LoginFails(l, LoggedOut, "none")
    /\ UNCHANGED <<route, saving, others, served, written, verified>>

\* getManagerConfig() answers: the recovery mode, in which no configuration is known.
ManagerAnswers(l) ==
    /\ l.manager
    /\ \/ /\ Authenticated(l)
          /\ config' = ClearedConfig
          /\ verified' = verified \cup {l.conn}
          /\ logins' = logins \ {l}
          /\ LoginEnds(l, TRUE, restore)
       \/ /\ LoginFails(l, auth, restore)
          /\ UNCHANGED <<flag, client, config, verified>>
    /\ UNCHANGED <<fetches, readers, route, saving, others, served, written>>

ServeSave ==
    /\ saving.at = "sent" /\ served[saving.conn] < MaxSaves
    /\ served' = [served EXCEPT ![saving.conn] = @ + 1]
    /\ saving' = [saving EXCEPT !.at = "applied", !.version = served'[saving.conn]]
    /\ UNCHANGED <<storeVars, fetches, readers, logins, restore, page, route, others, written, verified>>

\* The page that saved hears of it, even after it has gone.
SaveAnswers ==
    /\ saving.at # "no"
    /\ saving' = NotSaving
    /\ \/ /\ saving.at = "applied"
          /\ config' = UpdatedConfig(saving)
          /\ written' = [written EXCEPT ![saving.conn] = saving.version]
       \/ UNCHANGED <<config, written>>
    /\ UNCHANGED <<auth, flag, client, fetches, readers, logins, restore, page, route, others, served, verified>>

OtherAnswers(c) ==
    /\ others[c] > 0
    /\ others' = [others EXCEPT ![c] = @ - 1]
    /\ \/ UNCHANGED <<storeVars, restore>>
       \/ Logout
    /\ UNCHANGED <<fetches, readers, logins, page, route, saving, served, written, verified>>

-----------------------------------------------------------------------------
SessionAnswers ==
    \/ \E f \in fetches : FetchSucceeds(f) \/ FetchFails(f) \/ FetchDenied(f)
    \/ \E l \in logins : ManagerAnswers(l)

SessionUser ==
    \/ \E c \in Conns, r \in BOOLEAN, m \in Modes : Submit(c, r, m)
    \/ \E force \in BOOLEAN : PageFetch(force)
    \/ RefreshAll \/ StartSave \/ OtherRequest \/ ClearLoginStorage
    \/ \E p \in BOOLEAN : Reload(p)

SessionNext ==
    \/ SessionUser
    \/ SessionAnswers
    \/ \E m \in Modes : InitLoginPage(m) \/ TryRestore(m)
    \/ Enter \/ Leave
    \/ \E f \in fetches : ServeFetch(f)
    \/ ServeSave \/ SaveAnswers
    \/ \E c \in ConnOrNone : OtherAnswers(c)

SessionSpec == SessionInit /\ [][SessionNext]_sessionVars

\* Every request ends: the client gives up after its timeout.
SessionFairness == WF_sessionVars(SessionAnswers)

-----------------------------------------------------------------------------
(* Properties. *)

SessionTypeOK ==
    /\ auth \in [ok : BOOLEAN, conn : ConnOrNone, remember : BOOLEAN, mode : Modes \cup {NoMode},
                 status : {"disconnected", "connecting", "connected", "error"}]
    /\ flag \in BOOLEAN
    /\ client \in ConnOrNone
    /\ config \in [data : Data, cached : BOOLEAN, token : Nat, inFlight : Nat, takenOver : BOOLEAN]
    /\ fetches \subseteq Fetch
    /\ readers \subseteq {f.id : f \in fetches}
    /\ logins \subseteq Login
    /\ restore \in {"none", "pending", "done", "failed"}
    /\ page \in {"probing", "restoring", "splash", "form", "submitting", "panel"}
    /\ route \in {"idle", "probing"}
    /\ saving \in Save
    /\ others \in [ConnOrNone -> 0 .. MaxOthers]
    /\ served \in [Conns -> 0 .. MaxSaves]
    /\ written \in [ConnOrNone -> 0 .. MaxSaves]
    /\ verified \subseteq ConnOrNone

\* Whoever is let in was accepted: a session with a key is never the outcome of
\* another connection's answer, however the configuration requests are merged.
AuthenticatedMeansAccepted ==
    auth.ok /\ auth.conn # NoConn => auth.conn \in verified

\* A configuration that was fetched is of the connection in use: the answer to
\* a request of an earlier session never gets into the store.  The one exception
\* is a session that an abandoned login has taken over with its late success.
FetchedForThisSession ==
    config.data.from = "fetch" /\ client # NoConn /\ ~config.takenOver
        => config.data.conn = client

\* The store never falls behind what this panel itself has written to it: a
\* fetch under way during a save is not stored over it.
OwnWritesStay ==
    config.data.from # "none" => config.data.version >= written[config.data.conn]

\* A login comes to an end: the form and the splash do not wait for ever.
LoginSettles == logins # {} ~> logins = {}
=============================================================================
