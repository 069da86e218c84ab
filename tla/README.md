# CPA Manager Plus: TLA+ models and proofs

CPA Manager Plus manages a CLI Proxy API ("CPA"). A React panel
(`src/apps/web`) runs in the browser and talks to CPA, or to the *Manager Server*
(`src/apps/manager-server`): a Go process that collects usage events from CPA,
stores them in SQLite, and disables and enables CPA's auth files in reaction to
some of them. This directory models the parts where requests, goroutines, timers
and databases can get out of step, checks them with TLC, and proves the central
invariants with TLAPS.

Paths of the server are relative to `src/apps/manager-server/internal/`, those of
the panel to `src/apps/web/src/`, unless they begin with `src/`.

## 1. The system

```
                       usage events (RESP Pub/Sub, HTTP queue, RESP pop)
   CPA ------------------------------------------> collector.Manager --> usage_events
    ^                                                    | inserted events
    |  GET/PATCH/DELETE auth files                       v
    +--------------- cooldown worker <--------- automation handler ------+
    |                    | quota_cooldowns                               v
    +--------------- account action service, worker  (account_action_candidates)
    +--------------- codex inspection               (codex_inspection_*)
    +--------------- management proxy  <-- HTTP API <--+
    |                                                  |
    +---- HTTP client <-- stores, hooks, pages of the web panel
          (401 ends the session)
```

`cmd/cpa-manager-plus/main.go` wires it: bootstrap, the collector, the
automation workers, the inspection worker, the HTTP server. All of them run in
one process, share one SQLite database and talk to one CPA.

In the panel everything runs on one thread, and everything that waits can be
overtaken: a handler reads stores and closures, awaits an answer, and goes on in a
page that may have been left, under a connection that may have changed, after
requests that were sent later. The auth store (`stores/useAuthStore.ts`) holds the
session, the configuration store (`stores/useConfigStore.ts`) a cache that every page
shares, and any request that CPA answers with 401 ends the session through a
window event (`services/api/client.ts:180`).

### Components

| Component | State | Operations | Hard because | What must hold |
|---|---|---|---|---|
| Collector (`collector/collector.go`) | `status`, `cancel`, per goroutine its transport and batch; `usage_events`, `dead_letter_events` | Start, Stop, three transports with fallbacks, `processItems` | goroutines of successive starts overlap; pops are destructive; cancellation is only polled | an event reaches the workers once; counters are right; a cancelled goroutine ends; what CPA holds arrives |
| Cooldown worker (`worker/rate_limit_auto_disable.go`), `quota_cooldowns` | channel of candidates, the table, CPA's auth files | HandleUsageEvents, handleCandidate, enableDue, recoverCooldown, UpdateRuntimeConfig | every step is a call that can fail; a second sweep runs on a goroutine of the collector's start; rows are closed by id | every disable is owned by a row; enabled only when due; recovered in the end |
| CPA queue clients (`httpqueue`, `resp`) | a connection | Dial, Auth, Subscribe, ReadMessage, Pop | a failure after CPA has answered loses items | (part of the collector) |
| Auth snapshot cache (`collector/auth_snapshot.go`) | snapshots, expiry | lookup, clear | fetch outside the lock; clear during a fetch | after a refresh no older snapshot is served |
| Account actions (`worker/account_action_candidate.go`, `service/accountaction`, `repository/accountaction`) | `account_action_candidates`, channel | upsert, auto-disable, Ignore, Resolve, Enable, DeleteAuthFile | the candidate is read, CPA is called, the candidate is updated; several admins and the worker | one pending candidate per issue; a decision is final; CPA and the decision agree |
| Account-processing policy (`service/automation`, `worker/automation_runtime.go`) | settings row, last known settings, the worker's flag | Update, RuntimeSettings, Reload, event handler | cache filled by readers and by the writer | switching off takes effect and stays |
| Codex inspection (`service/codexinspection`, `repository/codexinspection`, `worker/codex_inspection_worker.go`) | runs, results, logs, a running flag | tick, Run, executeAutoActions, ExecuteManualActions | single flight, schedule triggers, one action per file from several results, results that are stale when acted upon, contexts that are cancelled | one piece of work at a time, and it ends; a file is called at most once in it and only as its results allow; actions reach the account they were decided for |
| Setup and configuration (`service/setup`, `service/managerconfig`, `repository/setting`) | `setup`, `manager_config_v1`, bootstrap state | Setup, Update, Resolve | two records are written one after the other, without a lock, then the collector is restarted | the two records and the running collector agree |
| Bootstrap, admin key (`service/bootstrap`, `service/adminauth`, `command/adminreset`) | admin credential, bootstrap state | Run, VerifyHeader, ResetAdminKey | a crash between saving and printing a key | the credential is created once |
| Usage parsing and import (`usage`, `service/usage`) | - | NormalizeRaw, ParseImportPayload, Import | hashes decide what is a duplicate | equal payloads hash equally |
| Model prices, API key aliases (`service/modelprice`, `repository/modelprice`, `repository/apikeyalias`) | price and alias tables | Sync, Replace, Upsert | - | aliases are unique |
| Proxy, dashboard, monitoring, HTTP API (`service/proxy`, `service/dashboard`, `service/monitoring`, `http`, `httpapi`) | none of their own | forwarding and queries | - | - |
| Panel session (`stores/useAuthStore.ts`, `stores/useConfigStore.ts`, `router/ProtectedRoute.tsx`, `features/login/LoginPage.tsx`, `services/api/client.ts`) | session, cached configuration, its request token, the memoised restore | login, restoreSession, logout, fetchConfig, updateConfigValue, clearCache | one request serves several callers; `login()` is never aborted; a 401 of any request logs out | nobody is let in on another connection's answer; the store holds the session's own data, never older than what was saved; a login ends |
| Feature availability (`hooks/usePanelFeatureAvailability.ts`) | a module-wide cache and one request, a state per mounted hook | mount, unmount, change of the key, detect | many hooks, one request, a key that changes back | a hook shows what was found under the key in use, or waits for a detection that is under way |
| Quota page (`features/quota/QuotaPage.tsx`, `components/quota/*`, `stores/useQuotaStore.ts`) | list, store that outlives the page, a module-wide cache of supplementary data | Refresh All, section and single refresh, prune | three kinds of answers of one file in any order, to a page that may have gone | a file marked as loading is loaded; the later read wins; Refresh All happens |
| Local Codex inspection (`features/monitoring/codexInspection.ts`, `features/monitoring/CodexInspectionPage.tsx`, `features/monitoring/model/codexInspection*.ts`) | sessions, the page, the last run in localStorage, executions under way | start, pause, resume, stop, execute, reopen, change of connection | sessions outlive the page; each of five events may be the one that ends a run | results belong to the connection in use and to the run shown; a run ends once, when all is inspected |
| Auth files page (`features/authFiles/AuthFilesPage.tsx`, `features/authFiles/hooks/useAuthFilesData.ts`, `services/api/authFiles.ts`) | list, selection, switches that wait | select, switch, batch, fields, upload, paste, delete | lists and operations overlap; CPA reports partial success in several shapes | one change per switch; only deleted files are dropped |
| Config editor (`features/config/ConfigPage.tsx`, `hooks/useVisualConfig.ts`) | the text, the visual values with their baseline and dirty fields, the diff | edit, change of tab, reload, save, confirm | two editors of one text, loads and saves that overlap, other clients | changing editors loses no edit; a save changes what was changed and no more |
| Logs page (`features/logs/LogsPage.tsx`) | buffer, position, one load, a queued full load | poll, refresh, tabs, clear | the log moves while it is read; old and new CPAs | the buffer is one stretch of the log |
| OAuth page (`features/oauth/OAuthPage.tsx`) | one card per provider, one timer, intervals, a reset timer | start, poll, hand in a redirect URL | late answers of earlier attempts | an attempt that has ended is noticed |
| Monitoring centre (`features/monitoring/hooks/useMonitoringAnalytics.ts`, `useMonitoringData.ts`, `features/monitoring/MonitoringCenterPage.tsx`) | the hook's data and request, the list of events gathered page by page | filter, refresh, load more, availability | filter, place and answer change separately | events listed are of the filter in use; nothing waits for an answer nobody will give |
| Rest of the panel (usage analytics, providers, plugins, server inspection, dashboard, ...) | one answer each | rendering, forms | - | - |

`PROJECT.json` lists the same components with their files and status, and under
`hazards` every place we know of where the code is hard to test.

## 2. The modules

### QuotaCooldown

The cooldown worker with its table. One run loop (`"loop"`) handles one candidate or
one sweep at a time; each element of `Syncs` is a goroutine that the collector's
Start spawned to run `UpdateRuntimeConfig`. A step is one HTTP call to CPA or
one SQL transaction.

| Model | Code |
|---|---|
| `jobs`, `Enqueue` | the channel of size 256, full means dropped |
| `cooldowns` | `quota_cooldowns`; a row's id is its position, rows are never deleted |
| `cand` | where `handleCandidate` is: GET, PATCH, upsert, rollback, or the two halves of `extendExistingCooldown` |
| `sweep[g]` | what is left of the rows `enableDue` listed, and where `recoverCooldown` is with the first of them |
| `configured` | URL and management key are known |
| `cpa` | the auth files; a GET reads one file at one moment, a PATCH names the file only |
| `holder` | history: whether the worker or an operator disabled the file |

Times are small numbers; an event's reset time is any of them, passed or not. The
body of a 429 (`codexUsageLimitResetTimeFromEvent` and below) is abstracted to
the reset time it yields. `last_error`, `owner` and `pre_disabled_state` are
left out: the first is never read by the worker, and the other two have one value
in every row the code writes. `Env` names what the environment does in an
instance (failing GETs, PATCHes, SQL statements, lost answers, crashes, operators).

`AccountHold` is the abstract specification: a hold per file that is prolonged,
never shortened, and lifted only when it has run out. `ImplementsHold` says that
`QuotaCooldown` implements it when a file's active row is read as its hold.

### UsageCollector

`collector.Manager` with the clients, `usage_events` and the dead letters. Every
Start adds a goroutine `r`; `current` is the one that `m.cancel` cancels, so a
goroutine is cancelled exactly when `current # r`.

| Model | Code |
|---|---|
| `run[r].step` | where the goroutine is: `top` of the loop of runSubscribe/runHTTP/runRESP, `dial`, `loop` (top of a consume loop), `announce` (consumeHTTP's status), `pop` (about to pop or read), `process`, `hand`, `failed` and `mark` (error path before and after its check of the context), `ended` |
| `inbox[r]`, `queue` | messages under way on the Pub/Sub connection; CPA's queue |
| `stored`, `dead` | `usage_events` by event_hash, `dead_letter_events` |
| `Sort`, `Insert`, `Hand`, `Count` | `processItems`: payload by payload, one transaction, hand-over, counters |
| `handed`, `inserted`, `published` | history |

CPA is modelled from how the clients use it: a published item goes to every
subscriber, and to the queue when there is none; with subscribers it may go there
as well, which is why duplicates can occur at all. Two payloads of one event
are taken to have one hash (true when the payload carries its timestamp). When a
context is cancelled, an HTTP pop may fail after CPA gave the items away; a RESP
pop does not see the context. The sleeps between attempts, account snapshots,
`LastError` and the times in Status are left out.

### AccountActions

The queue of auth issues: the worker that turns failed usage events into
candidates and may disable their files, and the service with which admins decide.
Each element of `Admins` is an HTTP request that may be under way. A step is one
HTTP call to CPA or one SQL transaction.

| Model | Code |
|---|---|
| `jobs`, `Enqueue` | the worker's channel, full means dropped |
| `candidates` | `account_action_candidates`; a row's id is its position, rows are never deleted |
| `Issue` | what the query of `Upsert` and the partial unique index identify a pending row by |
| `snapshot` | `account_snapshot`, which every hit may replace: the account of the event, or a label when the event has no account |
| `work` | where `maybeAutoDisable` is: before its GET, before its PATCH |
| `request[a]` | where `Enable` or `DeleteAuthFile` is: before its GET, before its PATCH or DELETE, before it closes the row |
| `autoDisable` | the worker's flag; who sets it belongs to the account-processing policy, here it may change at any time |
| `files` | the auth files; operators toggle, delete and upload them |
| `uploads`, `seen`, `autoDisabled` | history: how often a file was uploaded, at which upload it was verified, and which files the worker disabled |

An account stands for auth_index, account id and provider, which CPA's listing
shows together. The address of CPA is part of the job in the code; here it is missing
or not when the job is handled.

`IssueQueue` is the abstract specification: an issue is open or not, a decision
closes it and leaves one case on file for good. `ImplementsQueue` says that
`AccountActions` implements it, `OpenIssues` and `ClosedCases` being the mapping.

### CodexInspection

The server's inspection: each element of `Callers` is a goroutine, that of a tick of
the worker, or of an HTTP request for a run or for manual actions; it is reused when it
has ended. A step is one call to CPA, one statement, or a passage of a goroutine between
two points at which another can be seen to have acted.

| Model | Code |
|---|---|
| `running` | `Service.running`, with `acquireRun` and the deferred `releaseRun` |
| `job[c].step` | where the goroutine is: `asked` (before `acquireRun`), `begin` (configuration, row or results to be read), `list` (fetchAuthFiles), `probe` (inspectAccounts), `verify` (validateManualActionItems), `act` (executeActionItems) |
| `job[c].found`, `outcome` | the results and the `ActionOutcome`s in its local variables |
| `todo`, `busy`, `workers` | what is left to probe or to feed, what a worker works on, and how many workers have not left |
| `cancelled` | its context: the client of a request for actions has gone, or the server shuts down; a request for a run has a context without cancellation |
| `runs`, `results` | `codex_inspection_runs`, and `codex_inspection_results` per run and account (unique by run_id, account_key); a row that is not there has action `none` |
| `listed`, `disabled`, `uploads` | CPA: the accounts of its auth files; how often a file was uploaded anew |
| `accepted`, `job[c].seen` | history: the accounts for which a call of a run was accepted; at which upload a file was last looked at |

A probe yields one of the verdicts its account can get (`Verdicts`), limited as
`resolveProbeAction` limits it: only an account that was listed as enabled is to be
disabled, only a disabled one enabled. Its retries are inside. Whether a trigger key is
due is left open, the look for a run of that key is not. The ids that a request for
actions names are chosen when its results are read. Results are taken in the order of
the accounts' numbers, which is that of `order by file_name, display_account` as long
as display names differ. Writes to SQLite succeed unless their context is cancelled;
logs, counts and results without a file name are left out.

`RunLedger` is the abstract specification: one run is worked on at a time, a file is
called at most once in a piece of work, only on advice that is not settled and on which
the file's accounts agree, and a success is recorded only of a call CPA accepted.
`ImplementsLedger` says that `CodexInspection` implements it; `Holder`, `AdviceOf`,
`SettledIn`, `SuccessIn` and `Tried` are the mapping.

### PanelSession

| Model | Code |
|---|---|
| `auth`, `flag` | the auth store: `isAuthenticated`, address and key (`conn`), `rememberPassword`, session mode, status; `isLoggedIn` in localStorage |
| `client` | the connection `apiClient` is configured with |
| `config` | the configuration store: data with the connection and version they are of, cache, `configRequestToken`, `inFlightConfigRequest` |
| `fetches`, `readers` | GETs of /config under way, and who waits for them |
| `logins` | calls of `login()`: each waits for a GET (`at`), or for the manager's configuration |
| `restore`, `page`, `route` | the memoised `restoreSessionPromise`; what the user sees; the protected route's own attempt to restore |
| `saving`, `served` | a page's PUT of a section; the version of the configuration on each server |
| `others` | all other requests, whose only effect here is that a 401 logs out |
| `written`, `verified`, `config.takenOver` | history: the last version told to the store; connections a server has accepted; whether an abandoned login has taken the session over |

A handler up to its next `await` is one step, and so are the continuations of
one answer: nothing can run between them. CPA reads a GET at one moment
(`ServeFetch`) and its answer arrives at another. The first-time setup that the
login page may do for a Manager Server is left out of `Submit`.

### FeatureAvailability

Several mounted hooks over one module-wide cache, one detection at a time that is
joined by its key, and a `latestAvailabilityRequestKey` that decides which answer
may be cached. Whether a host is a Manager Server, in which state, and whether it
answers at all, is one of the `Findings`.

### QuotaPanel

| Model | Code |
|---|---|
| `open`, `files`, `filesLoading`, `lists` | the quota page with its list |
| `pending` | `pendingQuotaRefreshRef` |
| `quota` | `useQuotaStore`: per file its status, which read its buckets are of, which supplementary answer is shown |
| `batches`, `singles` | calls of `loadQuota` and of `refreshQuotaForFile` |
| `requestIds`, `suppCache`, `supps` | `geminiCliSupplementaryRequestIds`, the cache and the requests |

### InspectionPanel

`sessions` are the closures that `createCodexInspectionSession` returns: status,
cursor, probes in flight, `settled`. `shown` is the page, `stored` the last run in
localStorage with the connection it is of, `executing` the calls of `executeItems`,
which outlive the page. A probe yields one of the actions in `Probed`; how an
answer of CPA is classified is not modelled.

### AuthFilesPanel

`listed` and `selected` as the page shows them, `statusUpdating` the switches that
wait, and one variable per kind of operation under way. CPA deletes some of the
files it is asked to, and replies in one of the shapes that
`normalizeBatchDeleteResponse` reads (`Replies`): a count, names, failures, or two of
them. The page learns from the reply alone what to drop.

### ConfigEditor

A change of the tab while no text is loaded starts a load (the effect on `activeTab`,
`features/config/ConfigPage.tsx:384`); when the visual values still carry a parse error the visual
tab gives way to the source tab at once (`:560`), `activeTab` has changed twice, and there are two
loads (`EnterUnloaded`).
A text either does not parse or has one part of each kind that the visual editor treats
differently, since reading a text into the editor and writing it back is not the identity:

| Part of a text | Stands for | Read | Written |
|---|---|---|---|
| `field` | the fields that are always written | absent, or not known (`Foreign`): the default | with every save |
| `map`, `member` | `quota-exceeded` with `switch-project`, `routing` with `strategy` (`hooks/useVisualConfig.ts:1205`, `:1220`) | likewise: an unknown strategy is round-robin (`:909`) | whenever the map is there or is made |
| `opt` | the optional fields behind `shouldWriteManagedField` (`antigravity-credits`) | absent: the default | only if there, or changed |
| `keys`, `entries` | `api-keys`, and whether its entries are strings, maps, or maps with keys of their own | the keys and their access rules | every entry as a map of what the editor knows (`:423`) |
| `extra` | everything else at the top level | not | left alone |

`visual` is the state of `useVisualConfig`'s reducer, `clicked` the
closure of the save under way, `diff` the modal. `server` may be changed by others at
any time. What users and other clients write are the members of `WrittenTexts`, in TLC's instances
the four of `MCConfigTexts`; the theorems are for any set of texts. `MCConfigEditor` adds a
history of whether the visual editor holds edits that the text was not given.

### LogsTail

Lines are numbered, and no two are written at the same time. A full load replaces the buffer, a
poll extends it from `position`: a cursor on a new CPA, the time of a line on an old one. Only one
load runs; a full load asked for meanwhile is queued (`pendingFull`). Any load may fail. `adrift` is
history: a full load failed and left lines in the buffer and no position to go on from.

### OAuthPanel

One provider's card. `cpa` is what CPA knows of each attempt, `timer` the one place
where the page keeps an interval's number, `intervals` those that really run: they
differ when a late answer starts or stops the wrong one.

### MonitoringPanel

The hook's request (`requestId`, `inFlight`, `queries`), its data, and the list of
events. Items are represented by the page of events they are of and the filter
that page was asked with.

### MC modules and proofs

The `MC` modules of the server add symmetry sets or, `MCQuotaCooldown`, a history of whether two
goroutines have met on a file or a disable was cut short. Those of the panel put modules that
share no state side by side (`MCPanelPages` seven pages): `part` is chosen at the start, only that module moves,
and whatever the other modules leave open is fixed, so that a run explores each
module in full and multiplies nothing. `*_proofs` hold the theorems: one module per component of the
server, `PanelSession_proofs` and `FeatureAvailability_proofs` for the panel's stores,
`PanelPages_proofs` for the auth files page, the quota page, the local inspection and the config
editor, `PanelFeeds_proofs` for the pages that follow something (logs, OAuth, monitoring). In all models some operators are defined just before the one
they vary (`LastReported`, `EveryPosition`, ...): they are the code as a plausible
bug would have it and are used by no specification; `PROJECT.json` (`mutants`)
says which property notices each.

## 3. What is checked

Invariants and properties are commented where they are defined. The runs:

| Run | Question | Result |
|---|---|---|
| `quota_concurrent` | `OneActivePerFile`, `ClosedStaysClosed`, `TypeOK` with a sync beside the run loop and every disturbance; `UndisturbedDisableIsOwned`: a file the worker disabled has an active row, until two goroutines meet on a file or a disable is cut short | holds |
| `quota_recovers` | `HoldIsEffective` (a cooldown that still runs is enforced in CPA), `ImplementsHold`, and, under fairness, `DueIsClosed`, with failing calls, lost answers, restarts and more due rows than a sweep takes | holds |
| `quota_orphan` | `DisableIsOwned` with a sync beside the run loop | violated |
| `collector_dedup` | `HandedOnce`, `InsertedIsCounted` with two goroutines, redelivery, imports, failures, crashes | holds |
| `collector_transports` | `CancelledRunsEnd` under fairness, two goroutines, every fallback and failure of a transport | holds |
| `collector_arrives` | `ItemsArrive` under fairness, all modes and fallbacks | holds |
| `actions_queue` | `TypeOK`, `DisableOnRecord`, `DeletedMeansGone`, `CallsHitTheAccount`, `ImplementsQueue`, with an admin beside the worker, replaced files, failing and lost calls, restarts | holds |
| `panel_session` | session and configuration of two connections: `AuthenticatedMeansAccepted`, `FetchedForThisSession`, `OwnWritesStay`, `LoginSettles`; two hooks that detect features: `ShownForThisKey`; `TypeOK` | holds |
| `inspection_ledger` | `TypeOK`, `CallsHitTheAccount`, `ImplementsLedger`, and, under fairness, `RunEnds`, with scheduled and requested runs, manual actions, two accounts in one file, failing and lost calls, cancelled contexts, other clients, restarts | holds |
| `panel_pages` | quota page: `LoadingIsServed`, `SupplementaryIsNotOlder`, `RefreshIsServed`; local inspection: `ResultsAreOfThisSite`, `LiveResultsAreOfTheRun`, `RunIsServed`; auth files: `OneChangePerSwitch`, `DroppedAreDeleted`; config editor: `VisualSaveIsAPatch`, `EditorsAgree`; logs: `LogIsOneStretch`; OAuth: `WaitingIsPolled`; monitoring: `RowsAnswerTheFilter`; `TypeOK` | holds |
| `panel_inspection` | `CompletedRunInspectedAll` | violated |
| `config_source` | `SourceTextStays` (`features/config/ConfigPage.tsx:863`) | violated |

### The violated properties

* **Orphaned disable** (`quota_orphan`). A sync's sweep has enabled a file, or found
  it enabled, and is about to mark its row recovered. Before that the run loop
  handles a new 429 of the file: disables it and prolongs the same active row.
  `MarkRecovered` finds the row by id and closes it. The file stays disabled and
  no active row will ever enable it.
* **Completed without inspecting** (`panel_inspection`). Pause, pressed while a run
  of the local inspection still waits for the list of auth files, asks whether all
  sampled accounts are done (`features/monitoring/codexInspection.ts:552`). None is
  sampled yet, so the run ends as completed, the empty result is stored as the last
  run, and the list that arrives later is ignored.
* **Old visual values over a source edit** (`config_source`). The way to the source tab writes
  visual changes into the text but leaves their fields marked as changed. After an edit in
  the source tab, manager tab and source tab again write the old values once more, over the edit.
  "Only rewrite YAML when there are pending visual changes" is what the comment asks for; through
  the visual tab, which reads the text again, nothing is lost.

### Behaviours the models show and no property claims away

They follow from the code as it is, and the properties make room for them. Where a comment
promises something else, it is quoted.

* Server: with lost answers, failing rollbacks or a crash between the PATCH and the row,
  a file stays disabled without a row (`CutShort`).
  Recovery enables a file by name, also when an operator disabled it by hand
  meanwhile. Stop says "stopped" and a goroutine past its check says "running" after it.
  A candidate an admin closes between the worker's check and its PATCH leaves the file
  disabled and the issue closed.
* Inspection on the server: a restart leaves the row of a run as "running" for ever. A file
  that is uploaded anew between the listing and the call is hit by its name. A tick whose
  goroutine starts only after a run of its key has ended runs that key again. An action
  that CPA accepted and whose answer was lost is recorded as failed, and may be tried again.
* Session: `login()` is not aborted by a logout. When the protected route's restored login
  succeeds late, after a logout and a login elsewhere, it takes the session over while
  the configuration store keeps the other server's data until the next fetch
  (`config.takenOver`). It takes six requests; TLC finds it with `MaxToken = 6`, and the
  proof attempt found it first. A 401 to a request of an earlier session logs the
  new one out. `restoreSession` counts a key in memory as one to remember
  (`stores/useAuthStore.ts:103`).
* Feature availability is cached per key until another key is asked for: a Manager
  Server that is reconfigured is noticed only after a reload.
* Quota page: the store survives logout. Inspection: an execution goes on through the
  global client after a login elsewhere.
* Auth files: `loadFiles` has no request token, so an older list may overwrite a newer
  one; deleting everything ignores the failures CPA reports.
* Config editor: an edit made while Save fetches is not part of what is saved; two
  overlapping loads discard edits made between them; visual to manager to visual
  drops visual edits; after a parse error in the source tab Save is disabled there. When the
  first load failed, a visual edit can still be saved, and every field left alone is written with its
  default. A save from the visual tab writes every managed field, so one that another client changed
  since the page read the text is put back; the dialog shows it. Two comments promise more than the
  code does, and `VisualSaveIsAPatch` says only what it does. "Optional fields managed by the visual
  editor must not be created during unrelated saves" (`hooks/useVisualConfig.ts:291`), but a save
  of one field of `quota-exceeded` or `routing` writes `switch-project`, `switch-preview-model` (`:1205`) or
  `strategy` (`:1220`) too. "So backend-only fields survive" (`features/config/ConfigPage.tsx:808`) holds at
  the top level, but every save replaces the list of api-keys, touched or not, by maps of what the
  editor knows of each key (`hooks/useVisualConfig.ts:1004`, `:423`).
* Logs: the way back to the log's tab forgets the position and loads (`features/logs/LogsPage.tsx:333`); if
  that load fails (`:226`), the lines are still there, and the next poll asks from nowhere and
  appends what is already shown (`adrift`).
* Monitoring: "load more" after a failed page shows that it is loading and sends nothing.
* OAuth: a late "ok" for an earlier attempt completes the card of the later one, and its
  reset timer may wipe a newer attempt; an interval may go on after its card is done.

### Bounds

* One file and one real index (plus the empty one) suffice for races on one
  file; two files and `DueLimit = 1` make rows compete for a place in a sweep.
  `MaxRows` is two or three, so that a closed row and a new active one coexist;
  `MaxTime = 2` allows a reset time to be extended once. `QueueSize` 1 or 2 fills at once.
* Two goroutines are the least that overlap, and each adds only the same kind of
  interference. `BatchSize = 2`, `MaxQueue = 2` and `MaxCopies = 2` allow a batch
  with a duplicate inside and a duplicate in the other goroutine's batch.
* One file, two accounts and one upload let the file change hands between a check and
  a call; `MaxRows = 2` lets an issue be closed and reported again. One request beside
  the worker, plus `Decide`, which is a whole request in one transaction, is two admins
  at every point where the first can be overtaken. `Types` has one eligible type, so that
  every candidate can go on to a disable, and `Labels` is empty: a label only makes
  `VerifyIdentity` fail, as another account does. The theorems have no such bounds.
* `UndisturbedDisableIsOwned` looks no further once two goroutines have met on a file or a
  disable was cut short: with either `DisableIsOwned` is false, because a row is closed by its id
  and nothing in the code can know that a PATCH was applied. `HoldIsEffective` is checked without
  operators, who may enable a file at will.
* Server inspection: two accounts in one file agree and disagree, and one of them is the
  duplicate of the other; two goroutines compete for the flag, and the second may be a later
  request for actions on the first one's run; one upload changes the file's accounts at any
  point. A run's calls on several files, which the workers make side by side, and several
  runs are beyond this instance; the theorems have no bounds. The run says `CHECK_DEADLOCK
  FALSE`: with `MaxRuns` and `MaxUploads` used up and no file left, nobody has to act.
* Session: two connections, because all that matters of a third is that it is another
  one; `MaxToken = 4` is a login, a logout that clears, a second login, and a request
  more that may be joined or overtaken. Feature availability: two keys, so that a key can
  change back, two hooks, so that one joins what the other started, three detections.
* Pages: two files, accounts and names, so that one succeeds and one fails in the same
  batch; two sites and two inspection runs, so that an old run speaks into a new one. The quota page's numbers are the
  least with which a page that was left answers into one that was opened again.
* Config editor: one edit in the run of all pages, and two in `config_source`, so that both editors
  change the same text, or one field twice; one change by another client; two loads at a time, which
  overlap, and three requests, loads and saves: a load that fails, a save of the unloaded text, and
  what comes after it. The three texts of `MCConfigTexts` have every kind of part present and absent,
  and in each form that is normalised. The two loads of `EnterUnloaded` at once need more requests, and
  two edits of a text that is also saved more states than TLC explores in minutes beside the other
  pages; the theorems have no bound on either.
* What is fetched again and again: five lines in a buffer of three overflow it and move the log under a poll; three
  attempts of a sign-in allow a late answer of each earlier one; six monitoring requests
  over two filters and three pages allow a filter to be left and returned to while its
  first answer is under way.
* The panel's runs say `CHECK_DEADLOCK FALSE`: a panel nobody uses does nothing, and the
  bounds stop a user who would go on. The same invariants were explored once on larger
  instances: the session with up to seven tokens, the first 11 million states of the quota page.

### Fairness

* `QuotaCooldown`: weak fairness of the clock, of candidate handling and of a sweep
  under way (a goroutine that can run does); strong fairness of `Tick`, since Go's
  `select` picks among ready cases at random and a ready ticker is not passed over for
  ever; strong fairness of a successful GET, PATCH and mark, i.e. calls that are
  retried for ever succeed in the end. Nothing is assumed of restarts or syncs. Operators take no part
  (`FairSpec` has the steps of `WorkerNext`), which keeps two files within TLC's reach; they do in
  `quota_concurrent` and in the theorems, which are about `Spec`.
* `UsageCollector`: weak fairness of each goroutine, strong fairness of a
  successful dial and pop.
* `CodexInspection`: weak fairness of each goroutine that was started. CPA answers or the
  client's 30 seconds end (`service/codexinspection/service.go:184`), and a worker or feeder
  whose context is cancelled sees it at its next `select`. Which way a step ends is not
  assumed, nor that anybody asks.
* `PanelSession`: weak fairness of answers. Every request ends, with an answer or with the
  client's timeout (`services/api/client.ts`, `REQUEST_TIMEOUT_MS`); which way it ends is
  not assumed, nor anything of the user. The pages are checked without fairness. What they
  wait for is stated as an invariant instead, that whoever waits has something under way
  that will end the wait (`LoadingIsServed`, `RefreshIsServed`, `RunIsServed`,
  `WaitingIsPolled`).

## 4. What is proved

All proofs hold for every value of the constants that satisfies the assumptions of
their modules.

* `QuotaCooldown_proofs`. `TypeCorrect`, then on top of it `OneActive`
  (`OneActivePerFile` is inductive together with the types), `Snapshots` and
  `ClosedForGood`. The theorems on recovery are about
  any number of sweeps, in every environment, and have the premise `[]OneHandPerFile`: no two
  goroutines work on one file at the same time. Nothing in the code ensures it, since every start of the
  collector sweeps beside the run loop, and without it they are false (`quota_orphan`). `LoopAlone` shows that the run loop
  by itself meets it, and `SweptInvariance` that then a sweep's copies of rows are never out of date
  (`SweepInv`). `EnabledInTime` (`EnableOnlyWhenDue`) follows. `Implements` (`ImplementsHold`) is a step simulation of `AccountHold`: an
  upsert places or prolongs the hold, a mark lifts it, and it is `EnableOnlyWhenDue`'s
  invariant that makes the lifted hold one that has run out. `HoldsAreEffective`
  (`HoldIsEffective`) adds `EffInv`: between a PATCH and its row, and between the look for a row
  and its extension, the candidate's file is disabled, and no row of a file
  that is being disabled or rolled back still runs. Its second premise names the one disturbance that breaks the
  property by itself, `HoldLifted`: an operator enables or deletes a file that is being handled or under a
  hold. `DisablesAreOwned` (`DisableIsOwned`)
  adds `OwnInv`: a file the worker disabled is there, and it is being handled or has an active row with
  the index that CPA shows for it, so that the sweep finds it and gives no row up;
  and a row is only closed once its file is enabled or an operator's. Its second premise excludes `CutShort`, the four ways
  in which a disable is left without its row: the PATCH is applied and its answer lost, the
  rollback fails, the process stops before the row is written, or the file is deleted between GET and
  PATCH. `OwnedUntilDisturbed`
  (`UndisturbedDisableIsOwned`) is the same until the first such event. Everything else may happen: failing calls and statements, restarts at other points, operators who
  toggle, delete and replace files.
* `UsageCollector_proofs`. `TypeCorrect` and `HandedAtMostOnce` (`HandedOnce`).
  `HandedOnce` alone is not inductive: one has to know that an event some goroutine
  still has to hand over has not been handed over yet, and that no two
  goroutines, and no two positions of one batch, have the same event to hand over.
  `IInv` adds both; `NewPositions` establishes them in one transaction. `CountedOnce`
  (`InsertedIsCounted`) adds `CountsOwn`: only a goroutine that hands over has something to
  count, what it has to count are rows of this process, each once, and no two goroutines count
  the same; then the counter and the union of what is left to count add up.
* `AccountActions_proofs`. One inductive invariant, `IInv`, gives everything the run
  `actions_queue` checks. Two things are added to the properties: a row that the worker
  or a request has read goes on existing with its issue (`Backed`), and of a file that was
  looked at one knows something as long as it is not uploaded again: it is for the
  account (`Checked`), or it is gone (`Gone`). Both last because of how
  a step may change the table (`RowsEvolve`) and the files (`FilesEvolve`); so there is a
  lemma per statement on what it does to them, a lemma on what lasts, and one lemma per
  group of actions. `TypeCorrect`, `OnePending`, `OnRecord`, `DeletedGone` and
  `HitsAccount` follow. `Implements` (`ImplementsQueue`) is a step simulation: an upsert is
  a report or a stutter, a decision a `Close` or a stutter, and no other step touches
  the table.
* `CodexInspection_proofs`. `TypeCorrect`, `CallsReachTheirAccount` (`CallsHitTheAccount`)
  and `RunsKeepTheLedger` (`ImplementsLedger`) rest on one inductive invariant, `IInv`. Its
  parts are `Exclusive` (a goroutine past `acquireRun` holds the flag, and there is one of
  them), `RowsOK` (a success in the table is of a call CPA accepted) and `JobsOK`, which
  says at each step of a goroutine what its local variables know: that what it found is
  what the table says, that what is left to do is disjoint from what is under way and from
  what has an outcome, that of a file's accounts one at most is called, and that an account
  it is to call was in its file at upload `seen`. `Exclusive` is what makes this inductive:
  nobody else writes the rows a goroutine has read. The refinement is a step simulation
  with one lemma per action; a `Call` of the ledger needs that the file was not tried, the
  advice was not settled and the accounts agreed, which are `JobsOK`'s conjuncts on `todo`
  and `busy`.
* `PanelSession_proofs`. `TypeCorrect` comes with `TokenInv`: the request that others
  may join is the latest one, and under way. `WritesStay` (`OwnWritesStay`) adds that
  this one request, the only one that may still fill the store, was read after the
  last save the store was told of (`WriteInv`). `AcceptedBeforeLetIn`
  (`AuthenticatedMeansAccepted`) and `FetchedStaysInSession` (`FetchedForThisSession`)
  rest on `IInv`. Its core is `LoginsMatch`: a login waits for a request of its own
  connection. As a login may join a request, that needs to know of which connection
  the current request is in every place a login can start from: without a session it
  belongs to a login the user is waiting for (`SomeoneWaits`), a remembered key has
  nobody working for it (`RememberedRests`), and with a session only a login, or one
  that took over, may have a request elsewhere (`StrayFetch`).
* `FeatureAvailability_proofs`. `ShownForKey` (`ShownForThisKey`): the invariant relates
  each hook to the detection it waits for, the cache to its own key, and gives
  detections unique numbers, which is why a key that changes back is harmless.
  `PanelTyped` (`MCPanelSession`'s `TypeOK`) puts the session's invariant and this one side by side.
* `PanelPages_proofs`, for any number of files, accounts, sites, pages opened and requests under way.
  - Auth files. `OneChange` (`OneChangePerSwitch`): the switches that wait are exactly those of
    the changes under way, which are disjoint. `DroppedAreGone` (`DroppedAreDeleted`): what is
    dropped is what CPA's answer names as deleted, in each of its forms.
  - Quota page, `QuotaInv`. `CardsAreServed` (`LoadingIsServed`) and `PendingIsServed`
    (`RefreshIsServed`) are inductive with the types. `SupplementaryIsFresh`
    (`SupplementaryIsNotOlder`) is not: what a batch has gathered and not yet shown must be known to
    carry no supplementary answer and to be of no later read than the file's last one
    (`Gathered`), and so must what the store shows (`Sound`).
  - Local inspection, `InspectionInv`. `ResultsAreOurs`, `LiveResultsAreOwn` and `RunsAreServed`
    need what `PageOK` says between the sessions and the page: the session the page follows is of
    the connection in use, is live only while the page says so and has been settled once the page
    says that it succeeded, and a page from which actions are executed follows no live run, so that the
    end of an execution never replaces a run's results. `Accounts` is assumed to be finite.
  - Config editor, `ConfigInv`. `Shows`: the visual tab over a text that was loaded has that
    text's values as its baseline, and a field not marked as changed has the
    baseline's value; from it follows `EditorsAgreeAlways` (`EditorsAgree`), as
    a text patched with unchanged values says the same, though it is not the same (`AppliedSays`).
    `Offers`: what the dialog offers from the visual tab is a patch of its base; from it, and from what a
    patched text reads as (`AppliedReads`), `VisualSavesArePatches`
    (`VisualSaveIsAPatch`). `MaxRequests > 0` is assumed, as the page begins with
    a load.
  - `PagesTyped` (`MCPanelPages`'s `TypeOK`) puts the invariants of all seven pages side by side.
* `PanelFeeds_proofs`.
  - OAuth. `WaitersArePolled` (`WaitingIsPolled`) is inductive with the types for any number of attempts;
    `NextAttempt` is the least number not yet begun, which is there by the well-foundedness of the
    numbers.
  - Monitoring. `RowsAnswer` (`RowsAnswerTheFilter`): `MonitoringInv` says what the request
    that the hook waits for asks (`Awaits`: the filter in use, at the place the
    list has reached), and that the events gathered are of the list's own filter
    (`ItemsOwn`). Every late answer has another `requestId`.
  - Logs. `LogShownWhole` (`LogIsOneStretch`) for logs and buffers of any length: between the last
    line shown and the position asked from lies no line (`Meets`), nor between that position and
    the first line of an answer under way, unless that answer fills the buffer by itself
    (`Follows`), and both stay true while CPA writes lines and clears. Loads may fail at any
    moment. A full load that fails and leaves lines without a position sets `adrift`, for
    which the property makes an exception; what the invariant says of the answer under way goes on,
    so that the first answer that replaces the buffer makes it whole again.

An attempt to prove the types of the config editor showed that its model had been wrong. "The visual
tab is not shown over a parse error" was not inductive: the page can be left in the manager
tab with no text loaded and a parse error from a save, and then be asked for the visual tab.
TLC then found that state with `MaxRequests = 3`; the run had used 2. In the code an effect
takes the visual tab away again, which the model did only after answers; now `EnterUnloaded` does
as well, it and `ConfirmAnswers` start the load that the changed tab asks for, and the run has the
larger bound.

Only model-checked: liveness (`DueIsClosed`, `ItemsArrive`, `CancelledRunsEnd`,
`LoginSettles`, `RunEnds`), which is out of the prover's reach. Every invariant and action property
of a passing run is also a theorem. Proved only: `EnableOnlyWhenDue`, `OneHandPerFile` of the run loop, `SweepSnapshots`,
`OnePendingPerIssue` (which `ImplementsQueue` shows in another form), the types of
the collector, and the types of each page by itself (`OAuthTyped`, `QuotaTyped`, ...).

## 5. Not modelled

* Server: read-only queries, the management proxy and the HTTP layer change no server
  state. Parsing and redaction of payloads, prices and aliases are sequential. What we
  mean to model is in the plan.
* Panel: the map covers under a twentieth of the panel's lines. Most of the rest renders one answer:
  tables, charts, drawers, forms whose state is a copy of their inputs, translations,
  styles, and arithmetic over a response (`features/usage-analytics`,
  `features/monitoring/model`, `utils/usage.ts`). They have no order of events to get
  wrong, and a model of them would be their transcription; so no map of this project
  will cover a third of the lines. Left out of the modelled pages: the first-time setup of
  the login page, the reset of a quota, downloads, the editors of prefix, proxy and OAuth
  exclusions, the manager tab's form, the rendered window of the log and the list of
  error logs, project ids and the Vertex import, the aggregation of monitoring rows.

## 6. Plan

1. A composition of the cooldown worker and the account actions over the same
   auth files: every disabled file is explained by a cooldown or a candidate, and
   whether recovery may enable a file that the issue worker wants disabled (the panel
   says of those, `src/apps/web/src/i18n/locales/en.json:3336`: "It never auto-recovers them").
2. `AutomationSettings`: last known settings and the auto-disable flag against
   concurrent updates.
3. `ManagerConfig`: Setup and Update writing two records in opposite orders, the
   collector restart, a restart of the process; abstract specification: one
   configuration record.
4. The page over the server's inspection (`features/monitoring/ServerCodexInspectionPage.tsx`),
   and an instance of `CodexInspection` with two files, so that a run's calls overlap.
5. `AuthSnapshots`: the cache against `clear` and two goroutines.
6. Lists of providers and plugins: edits by position in a list that another client changes.
7. Pure functions against reference definitions: due schedules of the inspection,
   backoff, uniqueness of aliases.
8. Proofs: the theorems of the modules to come.

The runs are kept few: as modules are added, questions that a theorem settles
for every instance and the smaller disagreements give up their run.
