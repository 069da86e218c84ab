------------------------------ MODULE QuotaPanel ------------------------------
(***************************************************************************)
(* The quota page with its section for Gemini CLI files: the page's list   *)
(* of files, the section's batch over the files it shows, the refresh of   *)
(* one file, and the quota store, which outlives the page.  A file's quota *)
(* comes in two answers: its buckets, and a supplementary one (tier and    *)
(* credits) that is scheduled when the buckets arrive and goes to a cache  *)
(* of its own if the buckets are not in the store yet.                     *)
(***************************************************************************)
EXTENDS Integers, FiniteSets

CONSTANTS
    QuotaFiles,      \* names of auth files
    MaxLists,        \* bound: lists of files under way
    MaxReads,        \* bound: how often one file's buckets are read
    MaxBatches,      \* bound: batches under way, those of pages left included
    MaxSingles       \* bound: refreshes of one file under way

ASSUME QuotaPanelAssumption ==
    /\ MaxLists \in Nat /\ MaxReads \in Nat
    /\ MaxBatches \in Nat /\ MaxSingles \in Nat

VARIABLES
    open,         \* the quota page is open
    files,        \* the page's list
    filesLoading, \* the page's loading flag
    lists,        \* number of the page's lists under way
    pending,      \* pendingQuotaRefreshRef: the section waits for the list
    quota,        \* the store: per file, status, bucket request and supplementary shown
    batches,      \* loadQuota calls: of the open page, files still to answer, answers
    singles,      \* per file, refreshes of its own under way
    requestIds,   \* geminiCliSupplementaryRequestIds
    suppCache,    \* geminiCliSupplementaryCache: the request it is of; 0 when none
    supps         \* supplementary requests under way

quotaVars == <<open, files, filesLoading, lists, pending, quota,
               batches, singles, requestIds, suppCache, supps>>

Quota == [status : {"none", "loading", "success", "error"}, read : 0 .. MaxReads, supp : 0 .. MaxReads]
NoQuota == [status |-> "none", read |-> 0, supp |-> 0]
Loading == [status |-> "loading", read |-> 0, supp |-> 0]
Failed == [status |-> "error", read |-> 0, supp |-> 0]
NoBatch == [mine |-> FALSE, left |-> {}, got |-> [f \in {} |-> Failed]]
Batches == 1 .. MaxBatches

QuotaInit ==
    /\ open = FALSE
    /\ files = {} /\ filesLoading = TRUE /\ lists = 0
    /\ pending = FALSE
    /\ quota = [f \in QuotaFiles |-> NoQuota]
    /\ batches = [i \in Batches |-> NoBatch]
    /\ singles = [f \in QuotaFiles |-> 0]
    /\ requestIds = [f \in QuotaFiles |-> 0]
    /\ suppCache = [f \in QuotaFiles |-> 0]
    /\ supps = {}

-----------------------------------------------------------------------------
\* Mutated forms of definitions below: a batch of a page that was left is
\* dropped; any supplementary answer counts; a pending refresh needs a new list.
OnlyIfOpen(i, results) ==
    IF batches[i].mine
    THEN [f \in QuotaFiles |-> IF f \in DOMAIN results THEN results[f] ELSE quota[f]]
    ELSE quota
AnyCounts(s) == TRUE
IfListed(listed) == filesLoading /\ listed # files

\* buildSuccessState(): the supplementary answer of this very read, if it is cached.
Snapshot(f, read) == IF suppCache[f] = read THEN read ELSE 0
Success(f, read) == [status |-> "success", read |-> read, supp |-> Snapshot(f, read)]

\* The open page's section runs a batch: loadingRef.
Batching == \E i \in Batches : batches[i].mine

\* loadQuota() of the files shown, unless a batch is under way.
LoadQuota(shown, before) ==
    IF Batching \/ shown = {}
    THEN quota' = before /\ UNCHANGED batches
    ELSE \E i \in Batches :
            /\ batches[i] = NoBatch
            /\ \A j \in 1 .. i - 1 : batches[j] # NoBatch
            /\ quota' = [f \in QuotaFiles |-> IF f \in shown THEN Loading ELSE before[f]]
            /\ batches' = [batches EXCEPT ![i] = [mine |-> TRUE, left |-> shown, got |-> NoBatch.got]]

\* loadFiles(), for the first time, by the header's refresh or after a new sign-in.
LoadFiles ==
    /\ lists < MaxLists
    /\ filesLoading' = TRUE
    /\ lists' = lists + 1

OpenPage ==
    /\ ~open
    /\ open' = TRUE
    /\ LoadFiles
    /\ UNCHANGED <<files, pending, quota, batches, singles, requestIds, suppCache, supps>>

\* What the page asked for goes on: its lists find no page, its batches write the store.
ClosePage ==
    /\ open
    /\ open' = FALSE
    /\ files' = {} /\ pending' = FALSE /\ filesLoading' = TRUE /\ lists' = 0
    /\ batches' = [i \in Batches |-> [batches[i] EXCEPT !.mine = FALSE]]
    /\ UNCHANGED <<quota, singles, requestIds, suppCache, supps>>

HeaderRefresh ==
    /\ open
    /\ LoadFiles
    /\ UNCHANGED <<open, files, pending, quota, batches, singles, requestIds, suppCache, supps>>

\* The section's own button, which is disabled while anything is loading.
RefreshSection ==
    /\ open /\ ~filesLoading /\ ~Batching
    /\ pending' = TRUE
    /\ LoadFiles
    /\ UNCHANGED <<open, files, quota, batches, singles, requestIds, suppCache, supps>>

\* The effect that drops the quotas of files the list has no more.
Pruned(listed) == [f \in QuotaFiles |-> IF f \in listed THEN quota[f] ELSE NoQuota]

\* The effect that waits for the end of a load: a pending refresh reads what is shown.
LoadEnded(listed) == filesLoading

\* A list answers or fails.  The page shows any part of the list: its page, a search.
ListAnswers ==
    /\ lists > 0
    /\ lists' = lists - 1
    /\ files' \in SUBSET QuotaFiles
    /\ filesLoading' = FALSE
    /\ IF pending /\ LoadEnded(files')
       THEN /\ pending' = FALSE
            /\ \E shown \in SUBSET files' : LoadQuota(shown, Pruned(files'))
       ELSE /\ UNCHANGED <<pending, batches>>
            /\ quota' = Pruned(files')
    /\ UNCHANGED <<open, singles, requestIds, suppCache, supps>>

\* refreshQuotaForFile(): no second one while the file is loading.
RefreshFile(f) ==
    /\ open /\ f \in files
    /\ quota[f].status # "loading" /\ singles[f] < MaxSingles
    /\ quota' = [quota EXCEPT ![f] = Loading]
    /\ singles' = [singles EXCEPT ![f] = @ + 1]
    /\ UNCHANGED <<open, files, filesLoading, lists, pending, batches, requestIds, suppCache, supps>>

-----------------------------------------------------------------------------
\* The buckets arrive: scheduleGeminiCliSupplementaryRefresh().
Schedule(f) ==
    /\ requestIds[f] < MaxReads
    /\ requestIds' = [requestIds EXCEPT ![f] = @ + 1]
    /\ suppCache' = [suppCache EXCEPT ![f] = 0]
    /\ supps' = supps \cup {[file |-> f, id |-> requestIds[f] + 1]}

\* A batch writes its results once all have arrived, whatever page is open.
BatchWrites(i, results) ==
    [f \in QuotaFiles |-> IF f \in DOMAIN results THEN results[f] ELSE quota[f]]

\* One request of a batch answers; the last one writes them all.
BatchAnswers(i, f) ==
    /\ f \in batches[i].left
    /\ \E ok \in BOOLEAN :
        LET before == batches[i].got
            got == [g \in DOMAIN before \cup {f} |->
                        IF g # f THEN before[g]
                        ELSE IF ok THEN [status |-> "success", read |-> requestIds[f] + 1, supp |-> 0]
                        ELSE Failed]
            final == [g \in DOMAIN got |->
                        IF got[g].status = "success" /\ g # f THEN Success(g, got[g].read) ELSE got[g]]
        IN
        /\ IF ok THEN Schedule(f) ELSE UNCHANGED <<requestIds, suppCache, supps>>
        /\ IF batches[i].left = {f}
           THEN /\ batches' = [batches EXCEPT ![i] = NoBatch]
                /\ quota' = BatchWrites(i, final)
           ELSE /\ batches' = [batches EXCEPT ![i].left = @ \ {f}, ![i].got = got]
                /\ UNCHANGED quota
    /\ UNCHANGED <<open, files, filesLoading, lists, pending, singles>>

\* A refresh of one file answers, wherever the user is by now.
SingleAnswers(f) ==
    /\ singles[f] > 0
    /\ singles' = [singles EXCEPT ![f] = @ - 1]
    /\ \/ /\ Schedule(f)
          /\ quota' = [quota EXCEPT ![f] = [status |-> "success", read |-> requestIds[f] + 1, supp |-> 0]]
       \/ /\ quota' = [quota EXCEPT ![f] = Failed]
          /\ UNCHANGED <<requestIds, suppCache, supps>>
    /\ UNCHANGED <<open, files, filesLoading, lists, pending, batches>>

\* Only the file's latest supplementary request counts.
IsLatest(s) == requestIds[s.file] = s.id

SupplementaryAnswers(s) ==
    /\ supps' = supps \ {s}
    /\ IF IsLatest(s)
       THEN /\ suppCache' = [suppCache EXCEPT ![s.file] = s.id]
            /\ quota' = IF quota[s.file].status = "success" THEN [quota EXCEPT ![s.file].supp = s.id] ELSE quota
       ELSE UNCHANGED <<suppCache, quota>>
    /\ UNCHANGED <<open, files, filesLoading, lists, pending, batches, singles, requestIds>>

QuotaNext ==
    \/ OpenPage \/ ClosePage \/ HeaderRefresh \/ RefreshSection
    \/ ListAnswers
    \/ \E f \in QuotaFiles : RefreshFile(f) \/ SingleAnswers(f)
    \/ \E i \in Batches, f \in QuotaFiles : BatchAnswers(i, f)
    \/ \E s \in supps : SupplementaryAnswers(s)

QuotaSpec == QuotaInit /\ [][QuotaNext]_quotaVars

-----------------------------------------------------------------------------
QuotaTypeOK ==
    /\ open \in BOOLEAN /\ filesLoading \in BOOLEAN /\ pending \in BOOLEAN
    /\ files \subseteq QuotaFiles
    /\ lists \in 0 .. MaxLists
    /\ quota \in [QuotaFiles -> Quota]
    /\ \A i \in Batches :
        /\ batches[i].mine \in BOOLEAN /\ batches[i].left \subseteq QuotaFiles
        /\ DOMAIN batches[i].got \subseteq QuotaFiles \ batches[i].left
    /\ singles \in [QuotaFiles -> 0 .. MaxSingles]
    /\ requestIds \in [QuotaFiles -> 0 .. MaxReads]
    /\ suppCache \in [QuotaFiles -> 0 .. MaxReads]
    /\ supps \subseteq [file : QuotaFiles, id : 1 .. MaxReads]

\* A file the store calls loading has a request under way which will end that,
\* though the store outlives the page and the list prunes it: no card spins for ever.
LoadingIsServed ==
    \A f \in QuotaFiles : quota[f].status = "loading" =>
        singles[f] > 0 \/ \E i \in Batches : f \in batches[i].left \cup DOMAIN batches[i].got

\* The tier and credits shown are never of an earlier read than the buckets
\* they are shown with, in whatever order the answers come.
SupplementaryIsNotOlder ==
    \A f \in QuotaFiles : quota[f].supp # 0 => quota[f].supp >= quota[f].read

\* A refresh of the section waits for a list that is under way, not for one that
\* another load, a failure or a visit elsewhere has taken away: it is not forgotten.
RefreshIsServed == pending => filesLoading /\ lists > 0
=============================================================================
