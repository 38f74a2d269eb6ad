---------------------------- MODULE FleetConsole ----------------------------
(***************************************************************************)
(* The fleet inventory page of the operations console: the URL that holds  *)
(* the query, the cache of results per query, the first-page fetch, the    *)
(* "load next page" operation with its one restart on a rejected cursor,   *)
(* the bounded refresh timer, the correction of the URL against the facets *)
(* the server answered with (ui/src/components/fleet/fleet-view.tsx,       *)
(* ui/src/lib/use-fleet-data.ts, fleet-pages.ts, fleet-refresh.ts,         *)
(* fleet-query.ts); and the API replicas that answer, each from an index   *)
(* of its own (internal/fleet/rebuild.go, pagination.go, cursor.go).       *)
(*                                                                         *)
(* Any replica answers any request.  A replica numbers the snapshots it    *)
(* publishes from 1 and begins anew when it restarts, so that two replicas *)
(* use one number for different snapshots.                                 *)
(*                                                                         *)
(* The browser runs the page's code one task at a time; an action here is  *)
(* one task, with the promise continuations and React effects it runs to   *)
(* the end before the next network answer, timer or user event.            *)
(***************************************************************************)
EXTENDS Integers, Sequences, FiniteSets, SequencesExt

CONSTANTS
    Key,           \* the queries: a view, and whether the filter value is set
    Apps,          \* the applications, numbered in the sort order of the query
    Tagged,        \* those the filter value of the model selects
    PageSize,      \* records per page
    Replicas,      \* the API replicas
    MaxChanges,    \* bound: changes of the fleet
    MaxSent,       \* bound: requests that are told apart by their order
    MaxUser,       \* bound: clicks and navigations of the operator
    MaxFaults,     \* bound: requests that fail and replicas that restart
    MaxFails,      \* the failure count at which the refresh delay is capped
    None           \* a value outside every other set

ASSUME KeyAssumption ==
    /\ Key \subseteq [view : {"table", "treemap"}, filter : BOOLEAN]
    /\ \A k \in Key : [k EXCEPT !.filter = FALSE] \in Key

ASSUME FleetConsoleAssumption ==
    /\ Apps \subseteq Nat \ {0} /\ IsFiniteSet(Apps)
    /\ Tagged \subseteq Apps
    /\ PageSize \in Nat \ {0}
    /\ {MaxChanges, MaxSent, MaxUser, MaxFaults, MaxFails} \subseteq Nat

VARIABLES
    fleet,         \* external: the applications in the cluster
    index,         \* [Replicas -> the snapshot it answers from, [gen, apps]]
    url,           \* the query the page shows, a Key
    nav,           \* the navigation router.replace asked for, or None
    cache,         \* react-query: pages per key, None when nothing arrived yet
    failedQuery,   \* react-query: keys whose last fetch ended in an error
    fetch,         \* the fetch of the shown key, or None
    lastReplace,   \* lastCanonicalReplace: the correction already asked for
    operation,     \* loadMoreOperation.current, or None
    late,          \* an aborted operation whose answer had already arrived
    loadMoreError, \* the key load-more failed for, or None
    loadingMoreKey,\* the key whose button shows "Loading", or None
    recovered,     \* recoveredCursors of the current loader
    hidden,        \* document.visibilityState = "hidden"
    timer,         \* the refresh timer is armed
    running,       \* a scheduled refresh is in flight
    failureCount,  \* consecutive failed refreshes, capped at MaxFails
    sent,          \* requests sent, up to MaxSent (history)
    asked,         \* the request that brought each key's first page (history)
    user, faults, changes  \* events used up

server  == <<fleet, index, changes>>
order   == <<sent, asked>>
data    == <<cache, failedQuery, fetch>>
more    == <<operation, late, loadMoreError, loadingMoreKey, recovered>>
timing  == <<hidden, timer, running, failureCount>>
address == <<url, nav, lastReplace>>
budget  == <<user, faults>>
vars    == <<server, order, data, more, timing, address, budget>>

Snapshots == [gen : Nat \ {0}, apps : SUBSET Apps]
Page == [from : Apps \cup {0}, gen : Nat \ {0}, total : 0..Cardinality(Apps),
         apps : SUBSET Apps, next : Apps \cup {0}, facets : BOOLEAN]
Fetches == [key : Key, poll : BOOLEAN, cached : Seq(Page) \cup {None},
            answer : Page \cup {None}, no : 0..MaxSent]
Operations == [key : Key, base : Seq(Page), cursor : Apps, restarted : BOOLEAN,
               answer : Page \cup {None}, no : 0..MaxSent]

ASSUME NoneAssumption ==
    /\ None \notin Key /\ None \notin Page /\ None \notin Seq(Page)
    /\ None \notin Fetches /\ None \notin Operations

-----------------------------------------------------------------------------
(* pagination.go: one page of an immutable snapshot.                       *)

Matching(snapshot, key) == {a \in snapshot.apps : key.filter => a \in Tagged}

(* QueryApplications, seekApplicationPage: the first PageSize applications *)
(* after the cursor's boundary, whichever snapshot the cursor came from;   *)
(* facets leave out the filter they count, so the value is offered while   *)
(* any application has it                                                  *)
QueryApplications(snapshot, key, cursor) ==
    LET matching == Matching(snapshot, key)
        rest  == {a \in matching : a > cursor}
        taken == IF key.view = "treemap" THEN {}
                 ELSE {a \in rest : Cardinality({b \in rest : b <= a}) <= PageSize}
    IN [from   |-> cursor,
        gen    |-> snapshot.gen,
        total  |-> Cardinality(matching),
        apps   |-> taken,
        next   |-> IF key.view = "treemap" \/ taken = rest THEN 0
                   ELSE CHOOSE a \in taken : \A b \in taken : b <= a,
        facets |-> snapshot.apps \cap Tagged # {}]

-----------------------------------------------------------------------------
(* What the page derives from the cache while rendering.                   *)

Has(key) == cache[key] # None

(* applicationData's total: the latest page's, zero without pages *)
Total(pages) == IF pages = <<>> THEN 0 ELSE Last(pages).total

(* applicationData's facets: the first page's, none without pages *)
Facets(pages) == pages # <<>> /\ Head(pages).facets

(* While the shown key has nothing yet, react-query's placeholder keeps    *)
(* the previous data on screen, marked stale                               *)
DataStatus ==
    IF Has(url)
    THEN IF loadMoreError = url THEN "partial"
         ELSE IF url \in failedQuery THEN "error"
         ELSE IF Total(cache[url]) = 0 THEN "empty" ELSE "ready"
    ELSE IF \E k \in Key : Has(k) THEN "stale"
         ELSE IF url \in failedQuery THEN "error" ELSE "loading"

Settled == {"ready", "empty", "partial"}

HasMore == /\ Has(url) /\ url.view = "table" /\ cache[url] # <<>>
           /\ Last(cache[url]).next # 0

-----------------------------------------------------------------------------
(* fleet-refresh.ts: the bounded refresh.                                  *)

(* Mutant: the next timer is armed only after a refresh that succeeded *)
FinishedGivingUp(succeeded) ==
    /\ running' = FALSE
    /\ failureCount' = IF succeeded THEN 0
                       ELSE IF failureCount < MaxFails THEN failureCount + 1
                       ELSE failureCount
    /\ timer' = (~hidden /\ succeeded)
    /\ UNCHANGED hidden

(* The finally clause of runRefresh: count, report, arm the next timer *)
Finished(succeeded) ==
    /\ running' = FALSE
    /\ failureCount' = IF succeeded THEN 0
                       ELSE IF failureCount < MaxFails THEN failureCount + 1
                       ELSE failureCount
    /\ timer' = ~hidden
    /\ UNCHANGED hidden

(* How a fetch that ends releases the refresh that awaits it *)
Release(ended, succeeded) ==
    IF ended # None /\ ended.poll THEN Finished(succeeded) ELSE UNCHANGED timing

(* The requests are numbered in the order they are sent; anew when no      *)
(* load-more is under way or on its way, since all that is shown was asked *)
(* for before then                                                         *)
Quiet == operation = None /\ late = None
NextNo == IF Quiet THEN 0 ELSE IF sent < MaxSent THEN sent + 1 ELSE sent
Send == /\ sent' = NextNo
        /\ asked' = IF Quiet THEN [k \in Key |-> 0] ELSE asked

NewFetch(key, poll) == [key |-> key, poll |-> poll, cached |-> cache[key], answer |-> None,
                        no |-> NextNo]

(* refetch(): the query function answers from the cache while load-more    *)
(* runs; a fetch in flight is joined when nothing is cached and replaced   *)
(* otherwise                                                               *)
Refetch ==
    IF operation # None /\ operation.key = url /\ Has(url)
    THEN /\ fetch' = None
         /\ failedQuery' = failedQuery \ {url}
         /\ UNCHANGED <<cache, order>>
         /\ Finished(TRUE)
    ELSE /\ IF fetch # None /\ ~Has(url)
            THEN fetch' = [fetch EXCEPT !.poll = TRUE] /\ UNCHANGED order
            ELSE fetch' = NewFetch(url, TRUE) /\ Send
         /\ running' = TRUE
         /\ timer' = FALSE
         /\ UNCHANGED <<cache, failedQuery, hidden, failureCount>>

(* runRefresh, called by the timer and by focus after clearing the timer *)
RunRefresh ==
    IF running
    THEN timer' = FALSE /\ UNCHANGED <<order, data, hidden, running, failureCount>>
    ELSE Refetch

TimerFires ==
    /\ timer /\ ~hidden
    /\ UNCHANGED <<server, more, address, budget>>
    /\ RunRefresh

WindowFocus ==
    /\ ~hidden /\ user < MaxUser
    /\ user' = user + 1
    /\ UNCHANGED <<server, more, address, faults>>
    /\ RunRefresh

(* Mutant: becoming visible again does not arm the timer *)
VisibleWithoutTimer ==
    /\ user < MaxUser
    /\ user' = user + 1
    /\ hidden' = ~hidden
    /\ timer' = FALSE
    /\ UNCHANGED <<server, order, data, more, address, running, failureCount, faults>>

VisibilityChange ==
    /\ user < MaxUser
    /\ user' = user + 1
    /\ hidden' = ~hidden
    /\ timer' = hidden
    /\ UNCHANGED <<server, order, data, more, address, running, failureCount, faults>>

-----------------------------------------------------------------------------
(* use-fleet-data.ts: fetching the first page.                             *)

(* canRetainLaterPages *)
CanRetain(cached, first) ==
    /\ cached # None
    /\ Len(cached) > 1
    /\ first.next # 0
    /\ Head(cached).next = first.next
    /\ \A i \in DOMAIN cached : cached[i].gen = first.gen /\ cached[i].total = first.total

(* refreshApplicationData; a map or matrix result is one page *)
Refreshed(cached, first) ==
    IF CanRetain(cached, first) THEN <<first>> \o Tail(cached) ELSE <<first>>

ServerAnswersFetch ==
    /\ fetch # None /\ fetch.answer = None
    /\ \E s \in Replicas :
          fetch' = [fetch EXCEPT !.answer = QueryApplications(index[s], fetch.key, 0)]
    /\ UNCHANGED <<server, order, cache, failedQuery, more, timing, address, budget>>

FetchSucceeds ==
    /\ fetch # None /\ fetch.answer # None
    /\ cache' = [cache EXCEPT ![fetch.key] = Refreshed(fetch.cached, fetch.answer)]
    /\ asked' = [asked EXCEPT ![fetch.key] = fetch.no]
    /\ failedQuery' = failedQuery \ {fetch.key}
    /\ fetch' = None
    /\ Release(fetch, TRUE)
    /\ UNCHANGED <<server, sent, more, address, budget>>

(* The error that remains after the retries of query-provider.tsx *)
FetchFails ==
    /\ fetch # None /\ faults < MaxFaults
    /\ faults' = faults + 1
    /\ failedQuery' = failedQuery \cup {fetch.key}
    /\ fetch' = None
    /\ Release(fetch, FALSE)
    /\ UNCHANGED <<server, order, cache, more, address, user>>

-----------------------------------------------------------------------------
(* use-fleet-data.ts and fleet-pages.ts: loading the next page.            *)

(* loadMore up to its request: cancelQueries ends the fetch in flight,     *)
(* which hands the cached pages to the refresh awaiting it                 *)
LoadMore ==
    /\ HasMore /\ loadingMoreKey # url /\ operation = None
    /\ user < MaxUser
    /\ user' = user + 1
    /\ operation' = [key |-> url, base |-> cache[url], cursor |-> Last(cache[url]).next,
                     restarted |-> FALSE, answer |-> None, no |-> NextNo]
    /\ Send
    /\ loadingMoreKey' = url
    /\ fetch' = None
    /\ Release(fetch, TRUE)
    /\ UNCHANGED <<server, cache, failedQuery, late, loadMoreError, recovered, address, faults>>

ServerAnswersMore ==
    /\ operation # None /\ operation.answer = None
    /\ \E s \in Replicas :
          operation' = [operation EXCEPT !.answer =
              QueryApplications(index[s], operation.key,
                                IF operation.restarted THEN 0 ELSE operation.cursor)]
    /\ UNCHANGED <<server, order, data, late, loadMoreError, loadingMoreKey, recovered, timing,
                   address, budget>>

(* Mutant: the page is appended to whatever the cache holds by then *)
AppendedAnywhere(latest, op) ==
    IF op.restarted
    THEN IF latest = <<>> THEN <<op.answer>> ELSE latest
    ELSE Append(latest, op.answer)

(* Mutant: the page of a restart replaces what arrived since *)
RestartReplaces(latest, op) ==
    IF op.restarted THEN <<op.answer>>
    ELSE IF latest = op.base THEN Append(latest, op.answer) ELSE latest

(* The updater loadMore gives setQueryData: a restart fills only the reset *)
(* entry, a further page extends only the pages it was asked for           *)
Appended(latest, op) ==
    IF op.restarted
    THEN IF latest = <<>> THEN <<op.answer>> ELSE latest
    ELSE IF latest = op.base THEN Append(latest, op.answer) ELSE latest

(* Whether the operation is what brings the first page of its key *)
BringsFirst(op) ==
    LET latest == cache[op.key] pages == Appended(latest, op)
    IN  /\ latest # None /\ pages # <<>>
        /\ latest = <<>> \/ Head(pages) # Head(latest)

(* setQueryData keeps an entry that is gone, and clears its error *)
SetQueryData(op) ==
    /\ asked' = IF BringsFirst(op) THEN [asked EXCEPT ![op.key] = op.no] ELSE asked
    /\ cache' = [cache EXCEPT ![op.key] = IF @ = None THEN None ELSE Appended(@, op)]
    /\ failedQuery' = IF cache[op.key] = None THEN failedQuery ELSE failedQuery \ {op.key}

EndOperation ==
    /\ operation' = None
    /\ loadingMoreKey' = None

MoreSucceeds ==
    /\ operation # None /\ operation.answer # None
    /\ SetQueryData(operation)
    /\ EndOperation
    /\ loadMoreError' = None
    /\ recovered' = IF operation.restarted THEN recovered ELSE recovered \ {operation.cursor}
    /\ UNCHANGED <<server, sent, fetch, late, timing, address, budget>>

(* DecodePageCursor refuses the cursor (InvalidArgument): not for coming   *)
(* from another replica or an earlier snapshot, but for its schema version *)
(* or its query's hash, which change with the software of the replica.     *)
(* Once per cursor the accumulated pages are discarded and page one is     *)
(* asked for                                                               *)
CursorRejected ==
    /\ operation # None /\ ~operation.restarted /\ faults < MaxFaults
    /\ operation.cursor \notin recovered
    /\ faults' = faults + 1
    /\ recovered' = recovered \cup {operation.cursor}
    /\ cache' = [cache EXCEPT ![operation.key] = <<>>]
    /\ failedQuery' = failedQuery \ {operation.key}
    /\ operation' = [operation EXCEPT !.restarted = TRUE, !.answer = None,
                                            !.no = NextNo]
    /\ Send
    /\ UNCHANGED <<server, fetch, late, loadMoreError, loadingMoreKey, timing, address, user>>

(* Any other error, or a cursor rejected again *)
MoreFails ==
    /\ operation # None /\ faults < MaxFaults
    /\ faults' = faults + 1
    /\ loadMoreError' = operation.key
    /\ EndOperation
    /\ UNCHANGED <<server, order, data, late, recovered, timing, address, user>>

(* The continuation of an aborted operation whose answer was already in *)
LateAnswer ==
    /\ late # None
    /\ SetQueryData(late)
    /\ late' = None
    /\ UNCHANGED <<server, sent, fetch, operation, loadMoreError, loadingMoreKey, recovered,
                   timing, address, budget>>

-----------------------------------------------------------------------------
(* fleet-view.tsx: the URL.                                                *)

(* patchState: merges into the query the URL holds now *)
PatchState ==
    /\ user < MaxUser
    /\ user' = user + 1
    /\ \E k \in Key \ {url} :
          nav' = k /\ (k.view = url.view \/ k.filter = url.filter)
    /\ UNCHANGED <<server, order, data, more, timing, url, lastReplace, faults>>

(* reconcileFleetQuery over the facets of settled data: a filter value the *)
(* facets do not list is removed                                           *)
Reconciled(key, status) ==
    IF status \in Settled /\ Has(key) /\ ~Facets(cache[key])
    THEN [key EXCEPT !.filter = FALSE]
    ELSE key

(* The canonical-replace effect *)
ReconcileEffect ==
    LET canonical == Reconciled(url, DataStatus)
    IN /\ canonical # url
       /\ lastReplace # <<url, canonical>>
       /\ lastReplace' = <<url, canonical>>
       /\ nav' = canonical
       /\ UNCHANGED <<server, order, data, more, timing, url, budget>>

(* The navigation happens: the old key loses its observer, so its fetch is *)
(* cancelled (an awaiting refresh gets the cached pages, or a failure when *)
(* there are none); its load-more is aborted; the new key is fetched when  *)
(* it has nothing, or when what it has is older than the stale time        *)
Navigate ==
    /\ nav # None
    /\ nav' = None
    /\ url' = nav
    /\ UNCHANGED <<server, cache, failedQuery, loadMoreError, budget>>
    /\ lastReplace' = IF Reconciled(nav, DataStatus') = nav THEN <<>> ELSE lastReplace
    /\ IF nav = url
       THEN UNCHANGED <<order, fetch, operation, late, loadingMoreKey, recovered, timing>>
       ELSE /\ \/ fetch' = NewFetch(nav, FALSE) /\ Send
               \/ Has(nav) /\ fetch' = None /\ UNCHANGED order
            /\ Release(fetch, Has(url))
            /\ late' = IF operation # None /\ operation.answer # None THEN operation ELSE late
            /\ EndOperation
            /\ recovered' = {}

-----------------------------------------------------------------------------
(* rebuild.go: the replicas' indexes.                                      *)

page == <<order, data, more, timing, address>>

(* External: an application is created or deleted *)
FleetChanges ==
    /\ changes < MaxChanges
    /\ changes' = changes + 1
    /\ \E a \in Apps : fleet' = IF a \in fleet THEN fleet \ {a} ELSE fleet \cup {a}
    /\ UNCHANGED <<index, page, budget>>

(* ApplyDeltas: a batch that changes the snapshot publishes the next one *)
ApplyDeltas(s) ==
    /\ index[s].apps # fleet
    /\ index' = [index EXCEPT ![s] = [gen |-> index[s].gen + 1, apps |-> fleet]]
    /\ UNCHANGED <<fleet, changes, page, budget>>

(* Rebuild: a replica that restarted has no snapshot, and publishes its    *)
(* first; until then it is not asked                                       *)
Rebuild(s) ==
    /\ faults < MaxFaults
    /\ faults' = faults + 1
    /\ index' = [index EXCEPT ![s] = [gen |-> 1, apps |-> fleet]]
    /\ UNCHANGED <<fleet, changes, page, user>>

Init ==
    /\ fleet = Apps
    /\ index = [s \in Replicas |-> [gen |-> 1, apps |-> Apps]]
    /\ url \in Key
    /\ nav = None
    /\ cache = [k \in Key |-> None]
    /\ failedQuery = {}
    /\ fetch = [key |-> url, poll |-> FALSE, cached |-> None, answer |-> None,
                no |-> 0]
    /\ sent = 0 /\ asked = [k \in Key |-> 0]
    /\ lastReplace = <<>>
    /\ operation = None /\ late = None
    /\ loadMoreError = None /\ loadingMoreKey = None
    /\ recovered = {}
    /\ hidden = FALSE /\ timer = TRUE /\ running = FALSE /\ failureCount = 0
    /\ user = 0 /\ faults = 0 /\ changes = 0

Next ==
    \/ TimerFires \/ WindowFocus \/ VisibilityChange
    \/ ServerAnswersFetch \/ FetchSucceeds \/ FetchFails
    \/ LoadMore \/ ServerAnswersMore \/ MoreSucceeds \/ CursorRejected \/ MoreFails
    \/ LateAnswer
    \/ PatchState \/ ReconcileEffect \/ Navigate
    \/ FleetChanges \/ \E s \in Replicas : ApplyDeltas(s) \/ Rebuild(s)

Spec == Init /\ [][Next]_vars

(* The browser delivers every armed timer, answered request and started    *)
(* navigation; some replica answers every request, and every replica       *)
(* works off its informers' events                                         *)
FairSpec ==
    /\ Spec
    /\ WF_vars(TimerFires)
    /\ WF_vars(ServerAnswersFetch) /\ WF_vars(FetchSucceeds)
    /\ WF_vars(ServerAnswersMore) /\ WF_vars(MoreSucceeds)
    /\ WF_vars(ReconcileEffect) /\ WF_vars(Navigate)
    /\ \A s \in Replicas : WF_vars(ApplyDeltas(s))

-----------------------------------------------------------------------------
(* Types; and at most one of the first-page fetch and the load-more        *)
(* operation runs, for the query on screen (useFleetData's effects)        *)
TypeOK ==
    /\ fleet \subseteq Apps /\ index \in [Replicas -> Snapshots]
    /\ sent \in 0..MaxSent /\ asked \in [Key -> 0..MaxSent]
    /\ url \in Key /\ nav \in Key \cup {None}
    /\ cache \in [Key -> Seq(Page) \cup {None}]
    /\ failedQuery \subseteq Key
    /\ fetch \in Fetches \cup {None}
    /\ operation \in Operations \cup {None} /\ late \in Operations \cup {None}
    /\ fetch # None => fetch.key = url
    /\ operation # None => operation.key = url /\ fetch = None
    /\ loadMoreError \in Key \cup {None} /\ loadingMoreKey \in Key \cup {None}
    /\ recovered \subseteq Apps
    /\ hidden \in BOOLEAN /\ timer \in BOOLEAN /\ running \in BOOLEAN
    /\ failureCount \in 0..MaxFails

Continue(pages) ==
    \A i \in DOMAIN pages : pages[i].from = IF i = 1 THEN 0 ELSE pages[i - 1].next

(* The pages accumulated for a query continue one another: each was asked  *)
(* for with the cursor its predecessor ended at, whatever refreshes,       *)
(* restarts, aborted requests and replicas came between                    *)
PagesContinue == \A k \in Key : Has(k) => Continue(cache[k])

(* Scheduled refreshing never dies: while the page is visible a timer is   *)
(* armed, or a refresh runs whose fetch is still there to end it           *)
RefreshNeverStops ==
    ~hidden => timer \/ (running /\ fetch # None /\ fetch.poll)

(* The load-more button shows "Loading" only while its own operation is in *)
(* flight for the query on screen                                          *)
BusyIsReal ==
    loadingMoreKey # None => operation # None /\ operation.key = loadingMoreKey

(* k keeps its first page, or gets one asked for later, or is reset *)
Stands(k) == \/ cache[k] \in {None, <<>>} \/ cache'[k] = <<>>
             \/ /\ cache'[k] # None
                /\ Head(cache'[k]) = Head(cache[k]) \/ asked[k] <= asked'[k]

(* The first page held for a query is never replaced by the answer to a    *)
(* request that was sent before the one that brought it, whichever         *)
(* replicas answer and however late (useFleetData: cancellation, the       *)
(* updater of loadMore); only the reset of a rejected cursor discards it   *)
NeverOlder == [][\A k \in Key : Stands(k)]_vars

(* The first page on screen is what the fleet is now, whichever replica    *)
(* said so                                                                 *)
Fresh == /\ Has(url) /\ cache[url] # <<>>
         /\ LET first == Head(cache[url])
            IN  first = QueryApplications([gen |-> first.gen, apps |-> fleet], url, 0)

(* A visible page catches up: the first page of the query on screen is     *)
(* again and again what the fleet is now, however requests failed and      *)
(* replicas lagged or restarted (fleet-refresh.ts, refetch)                *)
CatchesUp == []<>(hidden \/ Fresh)

(* A refresh that runs awaits the fetch in flight                          *)
RefreshAwaits == running => fetch # None /\ fetch.poll

(* The inductive form of PagesContinue: the pages a fetch may retain, and  *)
(* the answers in flight or on their way after an abort, fit where they    *)
(* are going to be put                                                     *)
Fits(op) ==
    /\ op.base # <<>> /\ op.cursor = Last(op.base).next
    /\ op.answer # None => op.answer.from = IF op.restarted THEN 0 ELSE op.cursor
AnswersFit ==
    /\ fetch # None /\ fetch.cached # None => Continue(fetch.cached)
    /\ fetch # None /\ fetch.answer # None => fetch.answer.from = 0
    /\ operation # None => Fits(operation) /\ Has(operation.key)
    /\ late # None => Fits(late) /\ late.answer # None

(* The inductive form of NeverOlder: a first page in flight was asked for  *)
(* after what it is going to replace, and after an aborted operation whose *)
(* answer is still on its way                                              *)
AnswersOrdered ==
    /\ \A k \in Key : asked[k] <= sent
    /\ operation # None => operation.no <= sent
    /\ late # None => late.no <= sent
    /\ fetch # None =>
          /\ fetch.no <= sent /\ asked[fetch.key] <= fetch.no
          /\ late # None => late.no <= fetch.no

(* What holds the page together: its types, one operation at a time,       *)
(* refreshing that never stops, and answers that fit what they extend      *)
ConsoleInv == /\ TypeOK /\ BusyIsReal /\ RefreshNeverStops /\ RefreshAwaits
              /\ PagesContinue /\ AnswersFit /\ AnswersOrdered
=============================================================================
