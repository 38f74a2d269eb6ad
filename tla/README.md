# TLA+ verification of Paprika

Paprika is a Kubernetes operator for continuous delivery. Users declare an
Application; the operator resolves its source, renders manifests, and delivers
them ring by ring, each ring through a Release that may run a canary, wait for
an approval, verify itself, be rolled back or be tried again. Several replicas
of the operator share the work through a Redis registry. Operators follow and
drive it from a console, a browser application in TypeScript (`ui/src`), which
also hosts Insights, a workspace of shared dashboards.

This directory holds TLA+ models of the delivery core and of the parts of the
console that keep state against a server, the TLC runs that check
them on small instances, and TLAPS proofs of the results that hold for every
instance. `PROJECT.json` is the index: which definition models which lines, what
each run checks, which mutation of the code each property detects.

Contents: inventory, modules, runs, fairness, proofs, departures, limits, plan.

## 1. Inventory of the system

### 1.1 Replica coordinator (`internal/coordinator`)

State: a Redis set of pod names, one heartbeat key with a TTL per pod, and in
each replica a consistent-hash ring, a healthy flag and a heartbeat loop.

Operations: `Join` (SADD and SET in a pipeline, first sync, start of the loop),
the loop's tick (SET, EXPIRE, sync), `syncRing` (SMEMBERS, then one EXISTS per
member and an SREM for each stale one, then the ring is rebuilt), `Leave`,
`Ring.Lookup`, and `RingShardFilter.Matches`, which every controller asks before
it reconciles a namespace.

Interaction: replicas meet only in Redis. Nothing is transactional, not even the
two commands of a pipeline. Hard: commands of different replicas interleave,
pods crash without cleaning up, Redis fails in between, keys expire.

Correct means: no replica evicts itself; dead replicas leave every ring; no
namespace is left to nobody; a running replica stays registered.

### 1.2 Application delivery flow (`application_controller.go` and helpers)

State: the Application's status (phase, recorded source hash, current stage,
release reference), its annotations (sync trigger, manual sync), and the copy of
the status a reconcile works on between its writes.

Operations: consume a sync trigger; poll the source and record what it resolves
to; start a new release flow (sync window, restart at the first ring, supersede
the current release); create, adopt, resync or park a release; follow its phase;
observe a completed one (drift, degradation, analysis) and ask for a resync or a
rollback; promote to the next ring in three writes.

Interaction: it creates Releases and asks things of them by annotations; the
Release controller answers in the Release's status and, after a rollback, writes
the Application's release reference itself. Users enter by annotations and API.

Hard: every status write replaces the whole status from a copy that may be old;
crashes between two writes; names of releases are hashes, so a reverted commit
meets its own old releases; two controllers count the same retry budget.

Correct means: rings are passed in order, one at a time; what is reported
Healthy is what runs; the newest source arrives everywhere; a rolled-back
release is not brought back by automation; retries are bounded.

### 1.3 Release controller (`release_controller.go`, `canary_readiness.go`, `gates`)

State: the Release's status (phase, canary step, weight, step start, snapshot),
its resync and rollback annotations, the gates' statuses (kept on the
Application), and what is applied to the stage.

Operations: admission behind other releases of the stage; approval gates;
promotion (render, snapshot, apply); the canary ladder with its readiness gate,
step interval, analysis and progress deadline; promotion of the canary;
verification; resync of an ended release; rollback to an earlier snapshot.

Interaction: five workers reconcile different releases at once; Application
reconciles and API handlers write the same gate statuses.

Hard: check-then-write admission, lost updates of gate statuses, an apply that
is recorded only afterwards, workloads that break or never converge.

Correct means: a canary is verified only up its whole ladder; a failed check
ends it; every release ends; decisions at a gate are the operators'.

### 1.4 Console session (`ui/src/lib/browser-session.ts`, `session-request.ts`, `transport.ts`, login and callback pages)

State: localStorage (ID token, logged-out mark, whether refreshing is available,
a revision), the HttpOnly refresh cookie, the session lock (Web Locks, or a
lease in localStorage), and in each tab a snapshot, an epoch, the refresh in
flight and the query cache.

Operations: hydrate and ensure a valid session, refresh (one flight per tab,
under the lock), an API request with its one recovery after an unauthenticated
answer, sign-in by authorization code and by password, logout, the reaction to
another tab's storage event, reconnect, reload.

Interaction: tabs share storage, cookie and lock and hear of each other only by
events that arrive later. Hard: every operation awaits in between and another
tab may have logged out or signed in meanwhile.

Correct means: an ended session stays ended; tabs come to show the same
session; no tab shows or caches the data of another account; nobody waits for a
lock that no one will give back.

### 1.5 Fleet view (`components/fleet/fleet-view.tsx`, `lib/use-fleet-data.ts`, `fleet-*.ts`)

State: the query in the URL, a cache of pages per query, the first-page fetch,
the load-more operation, the refresh timer with its backoff; and in each API
replica (`internal/fleet`) an index of its own, whose published snapshots it
numbers from 1.

Operations: scheduled and focused refresh, load more with one restart when the
server rejects the cursor, change of view or filter, correction of the URL
against the facets of the answer, visibility.

Hard: indexes change between two pages and differ between replicas, two by
default, any of which may answer; answers arrive for queries that are no longer
shown; a refresh replaces the first page of a list somebody is paging through.
Correct means: pages continue one another, an answer never replaces a later
one, refreshing never dies, a visible page catches up.

### 1.6 Insights: bundle import (`bundle-import.ts`, `import-review.ts`, `portable-import-panel.tsx`)

State: the review (saved versions, choices per dashboard and query, data source),
the retry session (identities already minted, what is done), the attempt under
way. Operations: review, choose, import (list, preflight, queries, dashboards,
each read, conditionally written and confirmed), retry.

Hard: a write may be lost, taken with its answer lost, or taken after the client
gave it up; others write between two requests; the operator changes the choices
between two attempts. Correct means: nothing is replaced that was not reviewed,
one identity per document, drilldowns agree, a dashboard is saved against the
queries that were verified.

### 1.7 Insights: dashboard workspace (`insights-app.tsx`, `history.ts`, `use-workspace-refresh.ts`)

State: the dashboard on the canvas with its undo history, the fingerprint of its
saved version, the library list, a revision per dashboard, the notice about
remote changes, pending operations. Operations: edit, undo, redo, save, open,
create, duplicate, delete, move, reload, import, confirm or cancel, refresh.

Hard: a refresh every five seconds races with every one of them, and other
people write the same dashboards. Correct means: no draft is lost without
consent, no version is overwritten that was not shown, a list requested before a
write does not undo it on screen, and changes by others are noticed.

### 1.8 Insights: widget queries (`query.ts`, `tooltip-query.tsx`)

State: the scheduler's entries, queue and cache; per widget the request, the
outcome and what is retained between mounts. Operations: mount, change, refresh,
poll, hide, debounce, subscribe, abort, answer, failure, invalidation.

Hard: clients share requests and leave them at any time; an abort must free a
place exactly once. Correct means: leaving cancels only the leaver's share, no
place is lost, answers belong to the question on screen, loading ends.

### 1.9 Insights: canvas layout (`layout-edit.ts`, `responsive-layout.ts`, `canvas.tsx`)

State: the saved boxes. Operations: move, resize and drag by keyboard and
pointer, add, duplicate, remove; and, as functions, the projections for narrow and dense
canvases. Hard: an order has to be found in which every widget rests on the
ones it follows. Correct means: nothing overlaps or snaps back, no cycle forms,
rows stay whole, projections keep the reading order and balance statistics.

### 1.10 Parts not modelled

| part | reason |
|---|---|
| promotion between environments | second state machine over several Applications; planned |
| pipelines and workflow engine | DAG scheduling with step retries; planned |
| release hooks | attempts and deletion policies; only their waiting is modelled; planned |
| rollouts controller and strategies | blue-green, A/B, mirror, rolling; planned |
| satellite link, fleet read model, event broker | streams, projections, fan-out; planned |
| application sets, stages, templates, artifacts, notifications | one-write reconciles |
| rendering, diff, source fetching, traffic routers | third-party data transformation, I/O |
| policies, conftest, governance, webhooks | stateless evaluation |
| API handlers, MCP, OAuth, observability gateway | reads and proxies; the handlers that drive releases are inputs of the models |
| application page of the console | many panels of server data, actions that are single calls; planned |
| sync and diff workbench | presents a comparison made by the server |
| widget editor, query explorer | forms over a draft; what they write enters InsightsWorkspace as an edit |
| chart renderers and plugins | drawing: a function of the result |
| generated client | generated code |
| landing page | geometry of illustrations |
| command line, other console pages, charts of the deployment | wiring and presentation |

`PROJECT.json` lists all of them with their paths. By lines, most of the
TypeScript is in the last seven rows: rendering, generated code and geometry.
The modules of 1.4 to 1.9 translate about 3 200 of its 100 000 lines, which
hold nearly all of the state the console keeps against other actors.

## 2. Modules

Each component has a specification, an `MC` module with the instances for TLC,
and, CanvasLayout apart, a proof module:

    Coordinator        MCCoordinator        CoordinatorProofs
    Application        MCApplication        ApplicationProofs
    Release            MCRelease            ReleaseProofs
    BrowserSession     MCBrowserSession     BrowserSessionProofs
    FleetConsole       MCFleetConsole       FleetConsoleProofs
    BundleImport       MCBundleImport       BundleImportProofs       (implements ImportLedger)
    InsightsWorkspace  MCInsightsWorkspace  InsightsWorkspaceProofs
    WidgetQuery        MCWidgetQuery        WidgetQueryProofs
    CanvasLayout       MCCanvasLayout

Conventions. In the controllers an action is one atomic write (to Redis, to the
API server, to a target cluster) with everything the code does up to it; in the
console it is one JavaScript task up to its next await, with the continuations
and effects that run before any other task, or one answer of the server. Users,
crashes and failures are inputs: `Inputs` says which kinds a run allows and `MaxEvents`
bounds their number, so bounds limit disturbances, never the program's own
steps. Definitions named as mutants are used by no specification; they are the
plausible bugs that show each property to be sensitive to the code. History
variables record what happened for the properties and are read by no guard.

### 2.1 Coordinator

| variable | code |
|---|---|
| `members`, `setTTL` | the set `paprika:coordinator:replicas` and whether it has an expiry |
| `hb` | pods whose heartbeat key exists |
| `proc[r]` | loop position, renewal state, ring, and the locals of `syncRing` |

`JoinAdd` and `JoinSet` are the commands of Join's pipeline, `JoinFail` its
degraded mode. `Heartbeat` is a successful tick, `HeartbeatFail` a failed one.
`SyncRead`, `CheckMember`, `RemoveMember`, `SyncDone` are syncRing; each Redis
call has a failing twin that does what the code does with the error. `Crash` also
stands for a Leave whose cleanup failed.

Time: a heartbeat key expires only when its pod has stopped renewing it, and the
set only when no ticking replica renews it. Two facts of the code justify this: a
tick and its sync share a timeout of at most half the TTL, and ticks come several
times per TTL. Join's first sync has no such timeout; it is assumed to be
shorter than the TTL. The hash function is the constant `Rank`: for each
namespace the order in which a clockwise walk meets the replicas.

### 2.2 Application

| variable | code |
|---|---|
| `head`, `window` | what the source resolves to; the sync window |
| `app`, `ann` | the stored status; the trigger and manual-sync annotations |
| `ctl` | the reconcile in progress: position, copy of the status, what it saw |
| `rel` | every Release: phase, retry counter, requests, snapshot, creation order |
| `live` | what was last applied to each ring |
| `rb` | per release, the rollback in progress: its step, its target, whether its copy is at the cap |
| `verified`, `vetoed`, `overtaken` | history: completed releases; rolled back with no run asked for; stamped between a retry's test and its write |

`Reconcile` reads the Application and chooses the handler as reconcileApp does.
The following actions are grouped by handler: sync trigger (`ConsumeSyncTrigger`
to `FinishSyncTrigger`), healthy phase (`ReplaceRelease`, `PollSource`,
`Observe`), ring promotion (`PromoteToNextRing`, `RingPromoted`,
`PersistRingAdvance`), new flow (`NewFlowBlocked`, `SupersedeCurrentRelease`,
`StartNewReleaseFlow`), release flow (`FollowRelease` to `FinishAdoption`).
`AbortReconcile` is a crash, or a write that fails for good, at any point.

An adoption that resyncs an ended release is three steps, as in the code:
`DecideResync` tests the retry budget (application_controller.go:1486-1494),
`ResyncAdopted` reads the release again and raises the counter without another
test (3168-3187), `FinishAdoption` writes the status.

The Release controller appears here coarsely: new or Pending, active (Promoting
or AwaitingApproval), canarying, applied (Verifying), ended. A canary does not
count as active where releases wait for each other
(`hasActiveConcurrentRelease`). A rollback is five steps, and several run at
once, one per release: `RollbackBegin` (find the target), `RollbackApply` (apply
its snapshot), `RollbackStamp` (spend the retry budget, a merge patch without a
lock, release_controller.go:3231-3239), `MarkRolledBack` (the status) and
`PatchApplicationReleaseRef`. One worker holds a release at a time, so nothing
else of the Release controller touches it in between; the Application controller
and the users do. `HandleResync` merges the two writes that the Release module
has one by one.

A release is named by the pair of source hash and ring, which is what the code
hashes into its name once parameters are fixed.

### 2.3 Release

| variable | code |
|---|---|
| `rel[r]` | status and annotations of a release of the stage |
| `wrk[r]` | its worker: what it has done and not recorded yet |
| `gate`, `appCopy` | the gate's entry on the Application; the same in a reconcile's copy |
| `stage` | the last apply to the stage: release, weight, converged or not |
| `late` | whether the progress deadline of the current step has passed |
| `vouched`, `flunked`, `skipped`, `said` | history: converged steps, failed checks, releases that lost their ladder, decisions |

Actions follow the phases: resync, admission, gates, promotion, ladder, canary
promotion, verification, rollback. `PromoteWaits` stands for every reason to
requeue in the middle of a promotion (hooks, sync waves, management policies,
conftest); a wait or a failure after the render records the snapshot too
(`Unfinished`). `AdvanceWithoutStage` is the promotion whose read of the Stage
fails: the error is not looked at and the release goes to Verifying
(release_controller.go:694-714). `TransitionToVerifying` is a canary that finds
its Stage without steps (3689-3691). The write of the gate statuses and that of the phase which follows
are one step, and so are a failed check and the Failed it leads to in
`HandleAnalysisRollback`. Waiting for a step's interval needs no action: it only delays.

### 2.4 BrowserSession

| variable | code |
|---|---|
| `store`, `grant` | localStorage; whose grant the refresh cookie holds |
| `lock`, `lockKind` | the session lock; Web Locks or the lease |
| `tab[t]`, `cache[t]` | the module's variables and snapshot; whose data the query cache holds |
| `mail` | tabs with an undelivered storage event |
| `flight`, `boot`, `req`, `sign`, `out` | per tab, the pending refresh, ensureValidSession, API request, sign-in, logout |
| `issued`, `outs`, `owed` | history: tokens and when they were asked for, logouts, unfinished logouts |

The functions of browser-session.ts transform a record `World(t)` of what a task
reads and writes; a task's action composes them in the order of the code. Tokens
are numbers with a user and an age (fresh, refresh due, expired); time is the
action `AgeToken`, and the end of a lease is `LeaseExpires`.

### 2.5 FleetConsole

`url`, `nav` and `lastReplace` are the query and its corrections; `cache`,
`failedQuery` and `fetch` what react-query keeps; `operation`, `late`,
`recovered` and the two load-more flags the paging; `hidden`, `timer`,
`running` and `failureCount` the refresh. The action of an answer includes the
effects React runs on it, the correction of the URL apart, which is a
navigation and comes later.

The server is `index`: each replica answers from a snapshot with a number of its
own, `QueryApplications` cuts a page of it, and any replica answers any request.
`ApplyDeltas` publishes the next snapshot when the cluster (`fleet`) has
changed, so replicas lag behind it and each other; `Rebuild` is a restart, after
which a replica counts from 1 again. Numbers of two replicas say nothing of each
other (internal/fleet/pagination.go:34-36), and no property compares them. A
cursor is the last application of a page. It seeks in whatever snapshot it
meets; it is refused only when its schema version or its query's hash differ
(cursor.go:377-409), which happens when the replica runs other software, and is
a bounded fault here.

What is newer is therefore told by the order of requests: `sent` numbers them
and `asked` keeps the number that brought each first page. Both are history. The
numbers start over when no load-more is under way or late, because all that is
shown has been asked for by then; this keeps `MaxSent` small.

### 2.6 BundleImport and ImportLedger

`snapshot`, the choices, `mapping`, `remaining` and `lockedActions` are the
panel; `session` is the ImportSession; `run` is the attempt with its position;
`stray` is a write the client gave up which the server may still take. Every
request of an attempt is a step, so others may write between any two. A
revision is the hash of a document, so contents stand for ETags. `ImportLedger`
is the promise: per document the identities it was stored under and whether it was reported.

### 2.7 InsightsWorkspace

`doc`, `past`, `future`, `saved` are the canvas; `etags`, `list`, `remote` what
is known of the server; `nav`, `work`, `poll` the pending navigation, the
operation that makes the console busy and the refresh. The counter openRequest
is modelled by what its comparisons see: a navigation clears `current` in the
others. `shown`, `overwrote`, `agreed`, `floor` and `clock` are history.

### 2.8 WidgetQuery

`sched` is the scheduler's record (entries, pending by key, queue, cache);
`ask`, `phase`, `prev`, `state` and `retained` are the hooks. An entry that is
over leaves its slot. `Serve` is the provider reading its observations,
`Answer` the arrival of what it read: an answer may be old when it arrives.

### 2.9 CanvasLayout

`layout` maps widgets to boxes. `Arrange` is arrange(), with `Precedes` for the
pairs its before() records; `MoveLayout`, `ResizeLayout` and `DragLayout` are
the edits; `AddWidget` and `DuplicateWidget` are newWidget and onDuplicate.
`edited` tells whether the layout has been edited, and whether the last edit
settled it. `NarrowLayout` and `DenseLayout` are canvasLayout and
denseCanvasLayout, with the roundings of the code. `SmallW` is the width up to
which a plugin is drawn in half (4 of 12 columns in the code, 1 of 2 in the
run); `DropRows` bounds where a widget is dropped; `Spare` are statistics the
projections are asked to draw in addition to the layout.

## 3. Runs

Sizes are distinct states. All runs pass.

| run | checks | instance | states |
|---|---|---|---|
| `coordinator` | `NoSelfEviction`, `EventuallyCovered`, `DeadReplicasForgotten` | 2 replicas, 2 namespaces, 4 events | 13 747 |
| `application_rings` | `RingOrder` | 2 rings, 2 sources, 3 inputs of 11 kinds | @rings@ |
| `application_retry` | `NoAutoResurrection`, `RetryCap` | 2 rings, heads that return, 3 inputs of 5 kinds | @retry@ |
| `application_live` | `DeliversEverywhere`, `HealthyMeansDeployed`, `OneRingAtATime` | 2 rings, 4 inputs | @live@ |
| `release_steps` | `ReleaseInv`, `LadderClimbed`, `FailedChecksStop`, `NoInventedDecision` | 1 release, manual gate, 4 steps, 8 inputs of 12 kinds | @steps@ |
| `release_queue` | `EveryReleaseEnds` | 2 releases, 2 steps, 4 inputs | @queue@ |
| `browser_session` | `SessionInv`, `SignedOutStays`, `TabsFollow`, `CacheIsOwn`, `LogoutNotCancelled`, `PasswordStandsAlone` | 2 tabs (symmetric), an OIDC and a password account, both locks, 4 events, 3 tokens | 1 017 486 |
| `fleet_console` | `ConsoleInv`, `PagesContinue`, `NeverOlder`, `CatchesUp` | 2 replicas, 2 applications, pages of 1, a change of the fleet, 3 clicks, 1 fault | @fleet@ |
| `bundle_import` | `ImportInv`, `ReplacesReviewed`, `LinksAgree`, `SavedAgainstVerified`, `ImplementsLedger` | 2 dashboards, one opening the other, 1 query, 2 data sources, 2 attempts, 3 clicks, 2 troubles | 3 793 780 |
| `insights_workspace` | `OverwritesShown`, `OwnWritesStay`, `DraftKept`, `ChangeNoticed` | 2 dashboards and a new one, 3 contents, 2 clicks, 1 trouble | 815 032 |
| `widget_query` | `SchedulerInv`, `OwnAnswer`, `NeverOlder`, `LoadingEnds` | 2 widgets, a tooltip, 3 keys, 2 places, cache of 1, 2 changes, 2 data versions | 105 834 |
| `canvas_layout` | `LayoutInv`, `RowsStayWhole`, `ProjectionsReadable` | 3 widgets and 2 spare statistics, 2 columns, heights 1 and 5 at first | @canvas@ |

What they show, and why the bounds reach the interesting cases:

- `coordinator`. Two replicas: one syncs while the other joins, lapses, is
  condemned or syncs itself. Each of two namespaces prefers another replica, so
  that diverging rings could leave one to nobody. Four events allow both to join
  and two to fail, leave or return. Events are finite: the liveness properties
  speak of what happens after the last. Coverage is "some replica reconciles
  it", not "exactly one": an empty ring matches everything. For more replicas
  the invariants are proved (section 5); liveness is checked for two only.
- `application_rings`. Two commits and two rings allow a commit to arrive at
  every point of the previous one's promotion, with two further disturbances
  among crash, failure, rollback, resync, drift, degradation, failed analysis,
  API error, closing window and sync. Manual syncs are left out: with them the
  property fails (section 6). For any rings, sources and number of inputs the
  property is proved, under the same condition.
- `application_retry`. `MaxRetries` is 2 where the code has 3: enough for
  "below", "at" and "past" the cap. Heads that go back and forth bring a
  rolled-back release's name up again, which is when it could be resurrected.
  Two rings allow two rollbacks at once. The run reaches the race that both
  properties except (section 6), so the exceptions are not vacuous.
- `application_live`. Commits that never return, triggers, a closing window and
  a failing status write. Crashes and failures are not among the inputs: a
  failed release without a rollback action leaves the application Degraded,
  which never polls again, by design of the code.
- `release_steps`. The ladder 0, 50, 100, 100 has a soak at zero and a step
  behind full weight, so both ways to reach the promotion occur, behind a manual
  gate that operators, the worker and an Application reconcile with its own copy
  all write. Eight inputs allow a create, a decision, a copy, and five
  disturbances, a Stage that cannot be read among them. One release: `LadderClimbed` is about a release alone on its
  stage, since one that overtakes a canary replaces its workloads.
- `release_queue`. Workloads may never converge; the deadline must end such a
  canary. The releases wait for each other at admission. No gate, because
  nothing obliges an operator to decide.
- `browser_session`. Two tabs are enough for every pair of an operation and a
  change by somebody else during it. Three tokens allow a sign-in, a refresh and
  a second account. `PasswordStandsAlone` and the lock part of `SessionInv` are
  about Web Locks; the lease excludes less (section 6).
- `fleet_console`. Two applications on pages of one need a second page; one
  change of the fleet makes two replicas disagree until both have applied it,
  and a restart makes them use one number for different snapshots. One fault is
  a failed request, a refused cursor or a restart; two requests in order are
  enough because at most a load-more and a fetch overlap. `NeverOlder` excepts
  the reset after a refused cursor, which empties the entry before it fills it
  again. `CatchesUp` is about the first page: a refresh keeps later pages when
  the numbers and totals agree (`canRetainLaterPages`), and numbers of different
  replicas can agree by chance. For any replicas, applications and bounds the
  safety properties are proved.
- `bundle_import`. The first dashboard uses the query and opens the second, and
  both are in the workspace already, so keep, replace and copy are all possible.
  Two attempts and two troubles: a lost answer and then another writer or a late
  delivery.
- `insights_workspace`. Two dashboards for a navigation that is overtaken, one
  new identity for create, duplicate and import. `DraftKept` speaks of drafts
  that exist nowhere else.
- `widget_query`. Three clients on two places: one must queue. One widget polls,
  one debounces, and one key has no query yet. The cache of one evicts.
- `canvas_layout`. Every saved layout of the three widgets within the bounds is
  initial, overlapping ones included, since the schema accepts them; the
  calendar, half or full width, and the heights reach each branch of the
  projections. Resizing reaches the heights in between. With the spare
  statistics below the layout there are groups of up to four, whose balanced
  rows differ from rows of three.

Every property has a mutant in `PROJECT.json`, a plausible bug in one mapped
definition under which TLC finds the property violated.

Deadlock is checked in the Application runs, where a reconcile can always begin,
and in `canvas_layout`. The coordinator (no replica running), the Release module
(all releases ended) and the console's modules (the user has closed or finished
everything, or the bounds on users and faults are used up) may really stop, and
their configurations say so.

## 4. Fairness

- Coordinator: weak fairness of each replica's own next command and of the
  expiry of keys nobody renews. The ticker fires again after every outcome, and
  Redis drops keys past their TTL. Joins, failures and crashes are not fair.
- Application: weak fairness of the reconcile's next write, of each release's
  next write, those of its rollback included. Both controllers return a requeue, or an error
  that is requeued, whenever something is unfinished. A closed window opens
  again, because schedules recur.
- Release: weak fairness of each worker, of the passing of a deadline, and of
  the end of an Application reconcile that has begun. Not of converging
  workloads and not of operators.

- FleetConsole: weak fairness of the armed timer, of the server's answers, of
  their processing, of a navigation that was asked for, and of each replica's
  work on the events of its informers. Failures and restarts are bounded and not
  fair; the user owes nothing.
- InsightsWorkspace: weak fairness of the refresh (its interval fires again
  whatever the last one met) and of the answers of writes.
- WidgetQuery: weak fairness of progress as a whole: queued microtasks run and
  the provider serves and answers. Changes are bounded, so progress as a whole
  reaches every client. Timers (debounce, polling) are not fair.

BrowserSession, BundleImport and CanvasLayout have safety properties only.
Strong fairness is assumed nowhere.

## 5. Proofs

All proofs hold for arbitrary constants under the named assumptions of the
modules: rings and bounds are natural numbers, special values differ from real
ones, sources are finite (creation order counts releases), the ladder consists
of percentages, configuration values are the ones the code distinguishes.

**CoordinatorProofs.** `RegistryInvariant` and `NeverEvictsItself`. That no
victim is the replica itself is not inductive: one must know that the replica's
own key exists when it is tested. `SyncInv` adds that a syncing replica is
renewing, that a renewing replica is up and has its key, and that a victim does
not outlive its SREM. The key is set before the walk (order in heartbeatLoop)
and expires only for pods that stopped renewing.

**ApplicationProofs.** `ApplicationTyped`, `RetriesAreCapped`, `NoResurrection`,
all from `BudgetInv`:

- types need `PromoteInv`, since a promotion computes stage + 1;
- a rolled-back release stays down because of `VetoInv`: its retry counter is at
  the cap, no resync is pending or decided, and it has ended, or its rollback is
  about to be recorded. `RollbackInv` adds that until then, if it is still
  Complete, its rollback annotation keeps a drift resync away, and that the
  stamp is left out only where the counter is at the cap. The stamp before the
  status is what makes this inductive;
- the cap is not tested where the counter is raised. `DecidedInv` carries the
  test to the write: budget is left, unless the sync is manual or a rollback of
  the same release stamped in between (`overtaken`), and then the counter is at
  the cap at most.

Both theorems have the exception of the code: a run that was asked for or
decided when the cap was stamped still happens, and can take the counter to one
past the cap. What they say of every other interleaving, with any number of
rollbacks at once, is not weakened by it.

The induction has one case per action. `KeptStep` treats the many actions that
write one release in a way the budget tolerates.

`RingsInOrder` states the order of the rings, with the hypothesis that
`manualSync` is not among the inputs: a manual sync keeps the ring it is on
(section 6), everything else restarts at the first. It adds `RingInv` to the
induction:

- the order alone says nothing of the stage a reconcile creates from. `StageInv`
  says that a status copy in the flow, or on its way through a promotion,
  records a ring its source has reached, and that a copy at the point of
  promoting names a release that completed;
- a resting status (Healthy or RolledBack) may name a newer source than the
  ring it records, because recordResolvedSource writes the source before
  startNewReleaseFlow resets the stage. So the stored status satisfies only
  "resting, or reached", and the handlers that work on a resting copy create
  nothing before the reset;
- persistRingAdvance writes the stage of the copy into the stored status, which
  may have another author by then; that the two agree on the source between the
  observation and this write is a conjunct of its own;
- `CompletedInv` ties a Complete phase to the history, and says that a rollback
  that is about to be recorded concerns a release that exists.

The steps are split in two: what they do to the releases (`ReleasesKept`) and
where they leave the reconcile (`Leads`, one lemma for each way to move on).

`DeployedWhenHealthy` and `OneRing` state `HealthyMeansDeployed` and
`OneRingAtATime` for any sources, rings, commits and number of inputs, with two
hypotheses. `Undisturbed`: the inputs are those of the run `application_live`,
commits, webhooks, the window and failing status writes. `NoReturn`: the commits
can be numbered in order, so no head comes back. Neither can be dropped: TLC violates
both properties when drift, when a crash, or when a returning head is added to
commits. A drift resync of a superseded release, or a crash between the creation
of the next ring's release and the status that refers to it followed by a commit,
leaves two rings deploying; a source that returns finds its old releases ended
and runs them again. The invariant, `DeliveryInv(f)` for a numbering f, follows
the delivery:

- `QuietInv`: nobody asks a release for anything, so none fails, rolls back or
  runs again;
- `CopyInv`: what the copy of a reconcile and the stored status have to do with
  each other at each point. They agree while it reads, and differ in a known way
  between the creation of a release and the write that refers to it. A failed
  write of a promotion is the delicate case: the stored status then stays behind
  until persistRingAdvance stores ring and reference over the phase Healthy;
- `FlowInv`: with `Cur`, the status the flow has reached (the copy while it is
  ahead), the only unfinished release is the one `Cur` refers to, an applied
  release is what its ring runs, and every existing release is of an earlier
  source or of the current one up to the current ring. From the last part
  follows that the next release does not exist yet, so none is ever adopted in
  an ended state; it is the reason for the numbering;
- `SourceInv`: the recorded source is not ahead of the one a reconcile has seen,
  nor that one of the head.

A release that moves changes what its own ring runs; that the stored status, when
it is behind, refers to another ring is read off the promotion in the copy.

**ReleaseProofs.** `ReleaseInvariant`, `DecisionsAreReal`, `ChecksAreFinal` and
`LadderIsClimbed`, for any number of releases, any ladder and any inputs; the
last two with the condition under which the property is claimed (checks that do
more than report; a release alone on its stage that did not lose its ladder to
an unreadable or changed Stage).

- `SteppedInv` keeps an unrecorded step inside the ladder (the types need it);
  `GateInv` says that whatever a worker, a copy or the Application holds of the
  gate was once decided, and that everything past the gate was approved once;
- `PhasesHeld` says what phase a release still has when its worker records
  something it decided some writes earlier. That a release awaits approval only
  behind a manual gate had to be added;
- `LadderInv` follows an attempt: not begun, or begun with all steps below the
  current one seen converged and the current one seen or running on the stage; a
  weight that was applied and not recorded is the next one up. The claim about
  verified releases is not inductive without the stage's side of it.

**FleetConsoleProofs.** `ConsoleInvariant`, `PagesAlwaysContinue` and
`ShownNeverOlder`, for any applications, page size, replicas and numbers of
snapshots. That the
cached pages continue one another depends on answers still under way:
`AnswersFit` says where each of them (the fetch, the load-more operation, a late
answer of an aborted one) fits, and that a running operation has pages to extend.
`AnswersOrdered` does the same for the order of requests: what is in flight was
sent no later than the last request, and a fetch was sent after whatever it is
going to replace and after an aborted operation whose answer is still to come.

**BrowserSessionProofs.** `SessionInvariant` and from it `LogoutIsFinal`,
`TabsAlwaysFollow`, `CacheAlwaysOwn`, `LogoutCompletes` and `PasswordAlone`, for
any number of tabs, accounts and tokens.

- `WorldsInv` is about what one task reads and writes; each function of
  browser-session.ts is shown once to keep it, and the actions that compose
  functions inherit it;
- `FenceInv`: a refresh or sign-in that still finds the revision it started
  from was asked for after the last logout, so that what it installs is no
  session the user has ended;
- `BearerInv` relates a request's bearer to the account on screen as long as the
  identity epoch has not moved; `LockInv` says exactly who holds the Web Lock;
  `GrantInv` says that no grant exists without refresh, and none while a password
  account is installed;
- `ListeningInv` had to be added: a page that does not listen for storage events
  yet has nothing under way. The proof also showed that a reload must not be
  given a grant when refresh is disabled, which the model used to allow.

**BundleImportProofs.** `ImportInvariant`, `ReviewedOnly`, `LinksAlwaysAgree`,
`ChecksBeforeSave` and `ImplementsTheLedger`, for any bundle with any links and
uses, any data sources, choices and number of attempts. The invariant follows
the attempt: `DestinationsInv` (identities settled with their actions),
`ReviewInv` (choices stand while it runs, replacements are approved),
`QueriesInv` and `DashboardsInv` (the document it works on and the targets it has
for its queries), `StoredInv` (what the server holds leads where the session
says) and `StrayInv`: a write the client gave up satisfies today what it
satisfied when it was sent, since the server may still take it. Documents are
processed in a fixed order by the code; the model keeps the set of those left
and takes its first.

`ImplementsTheLedger` is the refinement: initial states map to initial states,
and every step to a step of ImportLedger or a stutter. `stored` is the history of
identities the server took a document under, `reported` is read off the session;
a step that reports a document needs `StoredInv` for its identity.

**InsightsWorkspaceProofs.** `WorkspaceTyped`, `ReplacesWhatWasShown`,
`OwnWritesAreKept` and `DraftsAreKept`, for any dashboards, contents and
failures. The invariant has four parts. `TypeInv` gives every pending operation its shape. `RevisionInv`
says where a revision may come from: what `etags` or a pending save, move or
delete carries for a dashboard is in `shown`, so that a conditional write that
the store accepts replaces something shown. It is not enough to look at the
write: a refresh, a move and an import put revisions into `etags` too.
`FloorInv` orders versions: no floor is ahead of the store's clock, and what the
store, the library and a refresh that is still current hold is no older than the
console's last write. The library alone is not inductive, since a list in flight
becomes the library. `DraftInv` is about drafts: the last saved document was
shown; what a question is about (the draft to leave, the revision to adopt)
stands still while the question is open; and whatever will replace the canvas, a
navigation that loads, a reload after a conflict, an import, replaces a draft
that is on record or that the user agreed to lose (`Yielded`). `DraftKept` is an
action property, and looks at the moment of replacement only; the agreement is
given tasks earlier, so the pending operation has to carry it. The proof needs
that an operation that is overtaken is marked so, since its answer still comes.
One lemma per action, one step per part.

**WidgetQueryProofs.** `SchedulerInvariant`, `AnswersAreOwn` and
`AnswersNeverOlder`, for any number of widgets, tooltips and requests, any
concurrency and any cache size. The invariant `Main` is about the scheduler and
its clients together:

- the shape of the scheduler: the queue names each waiting entry once, the
  pending map leads from a key to its entry and only while it can be joined, a
  cached key is cached once and has no pending entry, and what runs stays within
  the concurrency;
- every entry has a client or is running aborted, so a client without an entry
  always finds a free slot: a counting argument over `Slots`;
- a client that waits is subscribed to exactly the entry of the request it
  asks; a client's outcome, and what the canvas retains of a widget, is of that
  request or of its query;
- nothing on screen is newer than what the cache, an entry in flight or the
  provider holds for its key. That an answer never goes back to an older one is
  not inductive without this: a late answer passes through the cache before a
  second client reads it.

Each operation of the scheduler (enqueue, join, cancel, finish, the next one
started) is shown once to keep the shape; the actions compose them.

The types and the registry invariant of Coordinator, Application and
InsightsWorkspace, `RingInv` and `DeliveryInv` are established by these proofs
and are no properties of a run; the invariants of Release, BrowserSession,
FleetConsole and BundleImport and the scheduler's of WidgetQuery are both. TLC
checked each inductive invariant before it was proved, `RingInv` also with heads
that return, `DeliveryInv` with three sources and three rings.

Only model-checked:

- all liveness (the prover does not treat fairness);
- CanvasLayout: what its folds compute for every layout would need induction
  over data, which is out of the prover's reach.

## 6. Departures from documents and expectations

The models follow the code. In these places a document, a comment or the
reader's expectation says otherwise, and the properties are stated so that they
hold of the code as it is. None was reproduced on a running system, and which
side should change is for the maintainers to say.

Controllers:

- a rollback applies the target's snapshot and then stamps the retry cap with a
  patch that takes no lock (`release_controller.go:3231`). An adoption that
  tested the budget (`application_controller.go:1486`) or wrote its resync
  before the stamp is not stopped by it: the release runs again, which the
  comment at `release_controller.go:3223` means to prevent, and the counter can
  reach one past the cap, since `requestReleaseResync` (3187) does not test it.
  `NoAutoResurrection` and `RetryCap` except exactly this;
- when the Stage cannot be read after the manifests were applied,
  `advanceAfterPromotion` goes on to Verifying (`release_controller.go:705`), and
  the release is verified without its canary ladder; so is one whose Stage loses
  its steps during the canary (3689). `LadderClimbed` excepts both (`skipped`);
- a reconcile's status write can overwrite the release reference a rollback has
  just stored (`application_controller.go:880`);
- a replica evicted while Redis failed renews only its key afterwards and is
  never registered again (`coordinator.go:184`);
- after c1, c2 and c1 again, ring 2's release of c1 exists and has ended, is
  taken as created, and ring 2 stays on c2 (`application_controller.go:2783`);
- a failed release can roll back to a superseded one, which the Application then
  waits for without polling (`application_controller.go:1551`);
- a drift resync handled after its release was superseded redeploys the old
  source while the Application stays Healthy (`release_controller.go:439`);
- an approval between evaluation and write-back becomes Pending again
  (`release_controller.go:4220`);
- a manual sync that finds a new commit deploys it on the current, later ring
  (`docs/guides/multi-cluster.md:797` has new revisions restart at the first);
- a failed analysis can ask for a rollback while a drift resync is pending
  (`docs/guides/self-healing.md:76` calls the two mutually exclusive);
- the reconcile that promotes the next ring may just have asked to resync the
  one it leaves, so that two rings deploy (`docs/guides/multi-cluster.md:783`);
- two workers may both list an idle stage before either writes Promoting
  (`docs/superpowers/specs/2026-06-07-paprika-design.md:390`);
- an approval stays on the Application and lets the next release pass the same
  gate (`docs/guides/gates.md:30`);
- without rollbackOnFail a failed canary check is only reported
  (`docs/guides/canary.md:15`);
- the promotion applies the steady-state manifests before a first step of
  weight 0 (`docs/guides/canary.md:12`);
- with no complete release left, a rollback can restore a release that was
  itself rolled back (comment at `release_controller.go:3147`).

Console:

- ensureValidSession decides from what it read before its await, so that
  anonymous() can delete the session another tab has just signed in
  (`browser-session.ts:252`);
- the lease lasts 15 s (`browser-session.ts:197`) and a sign-in holds it over
  two requests of up to 12 s each (`:344`), so with leases two flows can overlap;
- a tab that adopts an expired token by a storage event, and one whose callback
  failed, show "loading" until something else asks for a session;
- a rejected cursor whose restart finds nothing caches an empty answer, whose
  facets then remove filters from the URL (`use-fleet-data.ts:201`;
  `docs/frontend.md:54`);
- a refresh keeps the later pages of a list when generation numbers and totals
  agree (`use-fleet-data.ts:386`), although numbers of different replicas are not
  comparable (`internal/fleet/pagination.go:34`): pages of unrelated snapshots
  can stand together. Each still continues the one before it;
- a retry after the write of a dashboard copy was lost fails when the data
  source was changed in between;
- a delete without a known revision is unconditional (`insights-app.tsx:856`); a
  save during an open can leave the fingerprint of the previous document;
  creating a dashboard overtakes a pending open before the user confirms; edits
  made while a delete is in flight are dropped;
- hiding the page during the 350 ms debounce cancels a widget's first request
  and nothing starts it again (`query.ts:366`), hence `LoadingEnds` without
  debounced widgets;
- a saved document with overlapping widgets can form a cycle (comment at
  `layout-edit.ts:104`), hence the condition of `NeverCyclic`; adding and
  removing can creep to the last row; the dense projection aligns panels of one
  row and height before it resolves overlaps, so aligned panels can part
  (comment at `responsive-layout.ts:106`);
- a widget that moves up past a row of unequal heights can split it, where the
  comment at `layout-edit.ts:132` says that a row never splits; `RowsStayWhole`
  covers rows of one height upwards, and every row downwards;
- statistics are balanced by their number alone, so a group that begins beside a
  half-width plugin fills the row and can leave its last metric alone in the
  next (`responsive-layout.ts:31`); `ProjectionsReadable` asks for full rows only
  of groups that begin one.

## 7. Limits of the models

- Application: parameter changes and the pruning of old releases (the code keeps
  ten) are left out, as are inline publishers, which own the release reference
  of their applications. Where section 2.2 names no separate step, the read of a
  Release and the write that depends on it are one; informer caches are assumed
  to be current. A lost update of the status (`application_controller.go:880`)
  happens in the model, and no property excludes it.
- A Degraded application (no rollback action) follows its release and does not
  poll. The model does the same, so `DeliversEverywhere` is checked without
  failures.
- Release: clusters in agent mode skip the readiness gate in the code; here
  every cluster has one. Stages with a Rollout strategy, webhook gates and
  several gates on one stage are left out.
- A release's status is updated field by field in the model; the code writes the
  whole status of its copy. Hazard list: `patchReleaseStatus`.
- Coordinator: one set expiry, no clocks; see 2.1 for the TTL argument.
- Hazards of the controllers that are known and not in `PROJECT.json`, which
  keeps the ones that weigh most: Join's first sync without a timeout, contrary
  requests of two subsystems (`analysis_manager.go:186`), admission by check and
  write (`release_controller.go:515`), the choice of a rollback target, analysis
  rollbacks the release ignores, snapshot names shared by canaries of a stage.
- BrowserSession: a request's interceptor asks for a valid session and
  sessionFetch asks again; the two are one. Clocks are ages of tokens. The
  deadline of 20 s on waiting for a lease (`browser-session.ts:209`) and the
  fallback when storage is denied (41-53) are left out.
- FleetConsole: one filter and two views; a replica that is restarting is not
  asked, and how a rebuild replays concurrent updates is left out; the rendering of maps and lists is
  left out; the application page and its streams too.
- BundleImport: reviewing another document, legacy bundles, the limit of eight
  sessions, capability checks and parsing are left out, as are the store's
  refusals of documents that are too many or too large. What `changed` records
  starts over when the checks of a dashboard begin, so `SavedAgainstVerified`
  allows any change during them.
- InsightsWorkspace: example mode, lost answers of moves, the Explorer's library
  and the URL are left out. The server's reading and the console's processing of
  an answer are one step in `PollAnswered`, `OpenAnswered` and `ReloadAnswered`;
  the revision counters they compare are those of the code. A consent recorded
  in `agreed` keeps excusing the same draft until another is given.
- WidgetQuery: decoding of results and their size limits are left out, as are a
  resolver that throws before anything is scheduled (`query.ts:36`) and a tile
  that mounts outside the viewport and starts disabled (`canvas.tsx:158`).
- CanvasLayout: resizing by pointer is settled by react-grid-layout and is left
  out; dense heights distinguish statistics, plots and calendars only, and
  without referenceCompact; identifiers break exact ties in reading order, where
  canvasLayout leaves the order of the document.
- Bounded runs say nothing beyond their bounds; only section 5 does.

## 8. Plan

1. Release: copies of the release's status in the worker (stale caches), the
   hook phases with attempts and deletion, several gates.
2. Application: inline publishers against the ring advance; parameter changes;
   pruning.
3. An abstract specification of a release's life (waiting, deploying, ended,
   restarted) that Release implements and that Application uses as its view of
   releases; refinement checked by TLC, its safety part proved.
4. Rollouts: the strategies' common state machine and the canary variant.
5. Satellite dispatch: tasks over a reconnecting link, with duplicated and lost
   acknowledgements.
6. Workflow DAG: scheduling order and retries, the pure part against a
   reference definition.
7. Event broker and fleet rebuild: bounded queues, rebuild against updates.
8. Console: URL and route state of the workspace, then the application page with
   its event stream.
9. Proofs: the refinement of item 3. The safety properties of the runs are
   proved, those of CanvasLayout apart.

## 9. Reproducing

In this directory:

    tlc -workers 2 -config Coordinator.cfg MCCoordinator
    tlc -workers 2 -config BundleImport.cfg MCBundleImport
    tlapm InsightsWorkspaceProofs.tla

and likewise for the other configurations and proof modules; `PROJECT.json`
says which properties each run checks.
