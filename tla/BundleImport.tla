---------------------------- MODULE BundleImport ----------------------------
(***************************************************************************)
(* Importing a bundle of dashboards and saved queries into the workspace:  *)
(* the review panel (portable-import-panel.tsx, import-review.ts) and the  *)
(* importer with its retry session (bundle-import.ts).  Every request may  *)
(* be lost, answered with the answer lost, or applied after the client     *)
(* gave it up; other writers change the workspace between two requests.    *)
(*                                                                         *)
(* A revision is the hash of a document (store.go), so a document's        *)
(* content stands for its ETag and for its fingerprint.                    *)
(***************************************************************************)
EXTENDS Integers, Sequences, FiniteSets, SequencesExt

CONSTANTS
    Bundle,       \* the dashboards of the bundle, in order
    Definitions,  \* its saved queries, in order
    Uses,         \* per dashboard, the saved queries it refers to
    Links,        \* per dashboard, the dashboards its drilldowns open
    Providers,    \* data sources the bundle may be connected to
    Home,         \* the data source of the workspace's own queries
    Accepts,      \* workspace queries that fit the bundle's bindings
    Saved,        \* dashboards of the bundle that the workspace has already
    Old, Edited,  \* contents that others give a document
    Capacity,     \* dashboards a workspace holds (100)
    MaxIds,       \* bound: identities minted per document
    MaxTries,     \* bound: attempts
    MaxClicks,    \* bound: choices the operator changes
    MaxTrouble,   \* bound: requests that fail and writes of others
    None

Docs    == Range(Bundle)
Queries == Range(Definitions)

ASSUME BundleAssumption ==
    /\ Bundle \in Seq(Docs) /\ Definitions \in Seq(Queries)
    /\ Uses \in [Docs -> SUBSET Queries] /\ Links \in [Docs -> SUBSET Docs]
    /\ UNION Range(Uses) = Queries
    /\ Home \in Providers /\ Saved \subseteq Docs
    /\ {Capacity, MaxIds, MaxTries, MaxClicks, MaxTrouble} \subseteq Nat
    /\ None \notin Docs \cup Queries \cup Providers

VARIABLES
    dash,      \* the server's dashboards: content per identity, or None
    query,     \* the server's saved queries, likewise
    elsewhere, \* dashboards others added to the workspace
    snapshot,  \* the panel: the saved documents under review, or None
    dashboardChoices, queryChoices, mapping,
    remaining, \* the panel: dashboards without a completed decision
    lockedActions,
    session,   \* the importer's ImportSession
    run,       \* the attempt in progress, or None
    stray,     \* a write the client gave up that may still arrive, or None
    approved,  \* history: what the operator agreed to replace
    overwrote, \* history: what the import replaced
    stored,    \* history: identities under which the server took a document
    changed,   \* history: queries changed since the saving dashboard's check
    tries, clicks, trouble

server  == <<dash, query, elsewhere>>
panel   == <<snapshot, dashboardChoices, queryChoices, mapping, remaining, lockedActions>>
history == <<approved, overwrote, stored, changed>>
vars    == <<server, panel, session, run, stray, history, tries, clicks, trouble>>

(* Identity 0 is the document's own, the others are minted for copies *)
Ids(S)  == S \X (0 .. MaxIds)
Own(x)  == <<x, 0>>
Foreign == {Old, Edited}

Actions == {"keep", "replace", "copy"}
Points  == {"list", "preflight", "library", "kept", "query", "fresh", "put", "confirm query",
            "dashboard", "verify", "read", "save", "confirm", "finish"}

(* What the server holds: a query has a provider's definition or that of   *)
(* others, a dashboard is others' or one this import wrote                 *)
Content  == Providers \cup Foreign \cup {None}
Imports  == UNION {[of    : {d}, via : Providers,
                    refs  : [Uses[d] -> Ids(Queries) \cup {None}],
                    links : [Links[d] -> Ids(Docs) \cup {None}]] : d \in Docs}
Contents == Foreign \cup {None} \cup Imports

Snapshots == [dash : [Docs -> Contents], query : [Queries -> Content]]
Sessions  == [ids : [Docs -> Ids(Docs) \cup {None}], actions : [Docs -> Actions \cup {None}],
              completed : SUBSET Docs,
              copies : [Queries \X Providers -> Ids(Queries) \cup {None}],
              attempted : SUBSET ((Ids(Docs) \X Imports) \cup (Ids(Queries) \X Content)),
              locked : BOOLEAN, minted : [Docs \cup Queries -> 0 .. MaxIds]]
Runs      == [at : Points, docs : SUBSET Docs, queries : SUBSET Queries,
              current : [Ids(Queries) -> Content], kept : [Queries -> Content],
              targets : [Queries -> Ids(Queries) \cup {None}], bad : SUBSET Queries,
              refs : SUBSET Queries, etag : Contents \cup Content]
Requests  == [kind : {"query"}, id : Ids(Queries), doc : Content, etag : Content]
             \cup [kind : {"dashboard"}, id : Ids(Docs), doc : Imports, etag : Contents]

(* Contents of others are not ours, and None is nothing else *)
ASSUME ContentAssumption ==
    /\ Foreign \cap (Providers \cup {None}) = {}
    /\ \A c \in Foreign \cup {None} : c \notin Imports
    /\ None \notin Actions \cup Ids(Docs) \cup Ids(Queries)
    /\ None \notin Snapshots /\ None \notin Runs /\ None \notin Requests

-----------------------------------------------------------------------------
(* The review panel.                                                       *)

DashboardAction(d) == IF dashboardChoices[d] = None THEN "copy" ELSE dashboardChoices[d]

(* The queries of the dashboards that will be written (selectBundleDashboards) *)
SelectedQueries(written) == UNION {Uses[d] : d \in written}

ActiveDocs == {d \in remaining : DashboardAction(d) # "keep"}

(* reviewSavedQuery: the incoming definition against the saved one *)
QueryStatus(q) == CASE snapshot.query[q] = None    -> "new"
                    [] snapshot.query[q] = mapping -> "identical"
                    [] OTHER                       -> "conflict"

QueryAction(q) ==
    IF queryChoices[q] # None THEN queryChoices[q]
    ELSE CASE QueryStatus(q) = "new"       -> "create"
           [] QueryStatus(q) = "identical" -> "keep"
           [] OTHER                        -> "copy"

ProviderOf(content) == IF content \in Providers THEN content ELSE Home

(* savedQueryCompatibility of a kept query with the bundle's bindings *)
Compatible(content) == content \in Providers \cup Accepts

(* A saved query's data source cannot be replaced, nor can a query that    *)
(* dashboards use in a way the incoming one does not serve                 *)
Replaceable(content) == /\ content # None
                        /\ ProviderOf(content) = mapping
                        /\ Compatible(content)

DashboardIssue(d) == DashboardAction(d) \in {"keep", "replace"} /\ snapshot.dash[d] = None

QueryIssue(q) == \/ QueryAction(q) = "keep" /\ ~(snapshot.query[q] # None /\ Compatible(snapshot.query[q]))
                 \/ QueryAction(q) = "replace" /\ ~Replaceable(snapshot.query[q])

Blocked == \/ snapshot = None \/ run # None \/ remaining = {}
           \/ \E d \in remaining : DashboardIssue(d)
           \/ \E q \in SelectedQueries(ActiveDocs) : QueryIssue(q)

Choosing == /\ snapshot # None /\ run = None /\ remaining # {}
            /\ clicks < MaxClicks /\ clicks' = clicks + 1

ChooseDashboard(d, action) ==
    /\ Choosing /\ d \in remaining /\ DashboardAction(d) # action
    /\ action \in {"keep", "replace"} => /\ snapshot.dash[d] # None
                                         /\ lockedActions[d] # "copy"
    /\ action = "copy" => lockedActions[d] \in {None, "copy"}
    /\ dashboardChoices' = [dashboardChoices EXCEPT ![d] = action]
    /\ UNCHANGED <<server, snapshot, queryChoices, mapping, remaining, lockedActions,
                   session, run, stray, history, tries, trouble>>

ChooseQuery(q, action) ==
    /\ Choosing /\ q \in SelectedQueries(ActiveDocs) /\ QueryAction(q) # action
    /\ action = "create" => QueryStatus(q) = "new"
    /\ action = "keep" => snapshot.query[q] # None /\ Compatible(snapshot.query[q])
    /\ action = "replace" => Replaceable(snapshot.query[q])
    /\ queryChoices' = [queryChoices EXCEPT ![q] = IF action = "create" THEN None ELSE action]
    /\ UNCHANGED <<server, snapshot, dashboardChoices, mapping, remaining, lockedActions,
                   session, run, stray, history, tries, trouble>>

ChooseProvider(p) ==
    /\ Choosing /\ p # mapping
    /\ mapping' = p
    /\ UNCHANGED <<server, snapshot, dashboardChoices, queryChoices, remaining, lockedActions,
                   session, run, stray, history, tries, trouble>>

(* loadBundleImportReview and clearReplacementChoices *)
RefreshReview ==
    /\ run = None /\ remaining # {}
    /\ snapshot' = [dash  |-> [d \in Docs |-> dash[Own(d)]],
                    query |-> [q \in Queries |-> query[Own(q)]]]
    /\ dashboardChoices' = [d \in Docs |-> IF dashboardChoices[d] = "replace" THEN "keep"
                                           ELSE dashboardChoices[d]]
    /\ queryChoices' = [q \in Queries |-> IF queryChoices[q] = "replace" THEN None
                                          ELSE queryChoices[q]]
    /\ UNCHANGED <<server, mapping, remaining, lockedActions, session, run, stray, history,
                   tries, clicks, trouble>>

-----------------------------------------------------------------------------
(* The importer: an attempt is a sequence of awaited requests, and run.at  *)
(* names the one it waits for.  It goes through the dashboards and the     *)
(* queries that are left in the order of the bundle.                       *)

First(s, S) == s[CHOOSE i \in DOMAIN s : s[i] \in S /\ \A j \in 1 .. (i - 1) : s[j] \notin S]
Doc   == First(Bundle, run.docs)
Query == First(Definitions, run.queries)

DocsLeft    == run.docs \ {Doc}
QueriesLeft == run.queries \ {Query}

NewSession ==
    [ids |-> [d \in Docs |-> None], actions |-> [d \in Docs |-> None], completed |-> {},
     copies |-> [k \in Queries \X Providers |-> None], attempted |-> {}, locked |-> FALSE,
     minted |-> [x \in Docs \cup Queries |-> 0]]

Reidentified(d) == session.ids[d] = None
                   \/ (session.actions[d] = "copy") # (DashboardAction(d) = "copy")

(* The choices of this attempt enter the session, unless a destination     *)
(* that a written dashboard may already link to would move                 *)
ImportBundle ==
    /\ ~Blocked /\ tries < MaxTries
    /\ LET open   == Docs \ session.completed
           minted == {d \in open : Reidentified(d) /\ DashboardAction(d) = "copy"}
       IN /\ \A d \in open : session.locked /\ session.actions[d] # None
                                => (session.actions[d] = "copy") = (DashboardAction(d) = "copy")
          /\ \A d \in minted : session.minted[d] < MaxIds
          /\ session' = [session EXCEPT
                !.actions = [d \in Docs |-> IF d \in open THEN DashboardAction(d) ELSE @[d]],
                !.minted  = [x \in Docs \cup Queries |-> IF x \in minted THEN @[x] + 1 ELSE @[x]],
                !.ids     = [d \in Docs |->
                    IF d \in open /\ Reidentified(d)
                    THEN IF d \in minted THEN <<d, session.minted[d] + 1>> ELSE Own(d)
                    ELSE @[d]]]
          /\ run' = [at |-> "list", docs |-> open, queries |-> {}, current |-> [i \in Ids(Queries) |-> None],
                     kept |-> [q \in Queries |-> None], targets |-> [q \in Queries |-> None],
                     bad |-> {}, refs |-> {}, etag |-> None]
    /\ approved' = approved \cup
           {<<Own(d), snapshot.dash[d]>> : d \in {e \in remaining : DashboardAction(e) = "replace"}}
           \cup {<<Own(q), snapshot.query[q]>> : q \in {r \in Queries : QueryAction(r) = "replace"}}
    /\ tries' = tries + 1
    /\ UNCHANGED <<server, panel, stray, overwrote, stored, changed, clicks, trouble>>

Throw == run' = None

(* The dashboards of this attempt that will be written *)
Written == {d \in Docs \ session.completed : session.actions[d] # "keep"}

ListDestinations ==
    /\ run # None /\ run.at = "list"
    /\ LET copies == {d \in run.docs : session.actions[d] = "copy" /\ dash[session.ids[d]] = None}
           held   == {i \in DOMAIN dash : dash[i] # None}
       IN IF elsewhere + Cardinality(held) + Cardinality(copies) > Capacity THEN Throw
          ELSE run' = [run EXCEPT !.at = "preflight",
                           !.docs = {d \in @ : session.actions[d] # "copy"}]
    /\ UNCHANGED <<server, panel, session, stray, history, tries, clicks, trouble>>

(* A stale dashboard review fails before any query changes *)
Preflight ==
    /\ run # None /\ run.at = "preflight"
    /\ IF run.docs = {}
       THEN run' = [run EXCEPT !.at = IF Written = {} THEN "finish" ELSE "library"]
       ELSE LET d     == Doc
                fresh == dash[Own(d)]
                acknowledged == /\ session.actions[d] = "replace"
                                /\ <<Own(d), fresh>> \in session.attempted
            IN IF fresh # None /\ (acknowledged \/ fresh = snapshot.dash[d])
               THEN run' = [run EXCEPT !.docs = DocsLeft]
               ELSE Throw
    /\ UNCHANGED <<server, panel, session, stray, history, tries, clicks, trouble>>

ListSavedQueries ==
    /\ run # None /\ run.at = "library"
    /\ LET selected == SelectedQueries(Written)
       IN run' = [run EXCEPT !.at = "kept",
                      !.current = IF selected = {} THEN @ ELSE query,
                      !.queries = {q \in selected : QueryAction(q) = "keep"}]
    /\ UNCHANGED <<server, panel, session, stray, history, tries, clicks, trouble>>

ReadKeptQuery ==
    /\ run # None /\ run.at = "kept"
    /\ IF run.queries = {}
       THEN run' = [run EXCEPT !.at = "query", !.queries = SelectedQueries(Written)]
       ELSE LET q == Query  fresh == query[Own(q)]
            IN IF fresh # None /\ fresh = snapshot.query[q] /\ Compatible(fresh)
               THEN run' = [run EXCEPT !.queries = QueriesLeft, !.kept[q] = fresh]
               ELSE Throw
    /\ UNCHANGED <<server, panel, session, stray, history, tries, clicks, trouble>>

(* remapImportBundle: a kept query stands in for the incoming one *)
Definition(q) == IF run.kept[q] # None THEN run.kept[q] ELSE mapping

QueryDone(q)   == run' = [run EXCEPT !.at = "query", !.queries = QueriesLeft,
                              !.current[run.targets[q]] = Definition(q)]
QueryFailed(q) == run' = [run EXCEPT !.at = "query", !.queries = QueriesLeft, !.bad = @ \cup {q}]

(* Mutant: every attempt makes its own copy *)
MintEachTime(q) == None

(* The copy this session already minted for the definition as mapped *)
MintedCopy(q) == session.copies[<<q, Definition(q)>>]

(* The target of a query, and the request its action and status call for *)
BeginQuery ==
    /\ run # None /\ run.at = "query" /\ run.queries # {}
    /\ LET q      == Query
           action == QueryAction(q)
           mint   == action = "copy" /\ MintedCopy(q) = None
           id     == IF action # "copy" THEN Own(q)
                     ELSE IF mint THEN <<q, session.minted[q] + 1>> ELSE MintedCopy(q)
           known  == run.current[id]
           begun  == [run EXCEPT !.targets[q] = id]
       IN /\ mint => session.minted[q] < MaxIds
          /\ session' = IF mint THEN [session EXCEPT !.copies[<<q, Definition(q)>>] = id,
                                                     !.minted[q] = @ + 1]
                        ELSE session
          /\ run' = CASE action = "replace" \/ known = Definition(q) -> [begun EXCEPT !.at = "fresh"]
                      [] action # "replace" /\ known = None /\ action # "keep" ->
                             [begun EXCEPT !.at = "put", !.etag = None]
                      [] OTHER -> [begun EXCEPT !.queries = QueriesLeft, !.bad = @ \cup {q}]
    /\ UNCHANGED <<server, panel, stray, history, tries, clicks, trouble>>

ReadQuery ==
    /\ run # None /\ run.at = "fresh"
    /\ LET q       == Query
           id      == run.targets[q]
           fresh   == query[id]
           receipt == <<id, Definition(q)>>
           replace == QueryAction(q) = "replace"
       IN \/ /\ fresh = Definition(q) /\ (replace => receipt \in session.attempted)
             /\ QueryDone(q) /\ UNCHANGED session
          \/ /\ replace /\ fresh # None /\ fresh = snapshot.query[q] /\ Replaceable(fresh)
             /\ ~(fresh = Definition(q) /\ receipt \in session.attempted)
             /\ session' = [session EXCEPT !.attempted = @ \cup {receipt}]
             /\ run' = [run EXCEPT !.at = "put", !.etag = fresh]
          \/ /\ fresh = None \/ (IF replace THEN fresh # snapshot.query[q] \/ ~Replaceable(fresh)
                                            ELSE fresh # Definition(q))
             /\ ~(fresh = Definition(q) /\ receipt \in session.attempted)
             /\ QueryFailed(q) /\ UNCHANGED session
    /\ UNCHANGED <<server, panel, stray, history, tries, clicks, trouble>>

-----------------------------------------------------------------------------
(* Writes.  If-Match carries the revision read before, and a create asks   *)
(* for If-None-Match: *.                                                   *)

(* The dashboard as it is written: its references and links lead to the    *)
(* documents' identities in this import                                    *)
Target(d) == [of |-> d, via |-> mapping,
              refs  |-> [q \in Uses[d] |-> run.targets[q]],
              links |-> [e \in Links[d] |-> session.ids[e]]]

Request == IF run.at = "put"
           THEN [kind |-> "query", id |-> run.targets[Query],
                 doc |-> Definition(Query), etag |-> run.etag]
           ELSE [kind |-> "dashboard", id |-> session.ids[Doc],
                 doc |-> Target(Doc), etag |-> run.etag]

(* store.go, preconditions: If-Match, or If-None-Match: * without a         *)
(* revision; and Put, which takes the document.                            *)
Fits(w) == (IF w.kind = "query" THEN query ELSE dash)[w.id] = w.etag

Taken(w) ==
    /\ overwrote' = IF w.etag = None THEN overwrote ELSE overwrote \cup {<<w.id, w.etag>>}
    /\ IF w.kind = "query"
       THEN query' = [query EXCEPT ![w.id] = w.doc] /\ UNCHANGED <<dash, elsewhere, stored>>
       ELSE /\ dash' = [dash EXCEPT ![w.id] = w.doc]
            /\ stored' = [stored EXCEPT ![w.doc.of] = @ \cup {w.id}]
            /\ UNCHANGED <<query, elsewhere>>

DashboardDone(d) == /\ session' = [session EXCEPT !.completed = @ \cup {d}]
                    /\ run' = [run EXCEPT !.at = "dashboard", !.docs = DocsLeft]

(* Mutant: destinations are fixed only by an acknowledged write *)
AttemptUnlocked(w) == [session EXCEPT !.attempted = @ \cup {<<w.id, w.doc>>}]

(* Even a lost acknowledgement can leave a saved drilldown behind *)
Attempt(w) == [session EXCEPT !.attempted = @ \cup {<<w.id, w.doc>>}, !.locked = TRUE]

Acknowledged ==
    IF run.at = "put" THEN QueryDone(Query) /\ UNCHANGED session
    ELSE /\ session' = [Attempt(Request) EXCEPT !.completed = @ \cup {Doc}]
         /\ run' = [run EXCEPT !.at = "dashboard", !.docs = DocsLeft]

Unacknowledged ==
    /\ session' = IF run.at = "put" THEN session ELSE Attempt(Request)
    /\ run' = [run EXCEPT !.at = IF @ = "put" THEN "confirm query" ELSE "confirm"]

Writing == run # None /\ run.at \in {"put", "save"}

WriteAnswered ==
    /\ Writing
    /\ IF Fits(Request) THEN Taken(Request) /\ Acknowledged
       ELSE UNCHANGED <<server, overwrote, stored>> /\ Unacknowledged
    /\ UNCHANGED <<panel, stray, approved, changed, tries, clicks, trouble>>

AnswerLost ==
    /\ Writing /\ Fits(Request) /\ trouble < MaxTrouble
    /\ trouble' = trouble + 1
    /\ Taken(Request) /\ Unacknowledged
    /\ UNCHANGED <<panel, stray, approved, changed, tries, clicks>>

(* The request is lost, or held up and delivered after the client gave up *)
RequestLost ==
    /\ Writing /\ trouble < MaxTrouble
    /\ trouble' = trouble + 1
    /\ stray' \in IF stray = None THEN {None, Request} ELSE {stray}
    /\ Unacknowledged
    /\ UNCHANGED <<server, panel, history, tries, clicks>>

DeliverStray ==
    /\ stray # None
    /\ stray' = None
    /\ IF Fits(stray)
       THEN /\ Taken(stray)
            /\ changed' = IF stray.kind = "query" THEN changed \cup {stray.id} ELSE changed
       ELSE UNCHANGED <<server, overwrote, stored, changed>>
    /\ UNCHANGED <<panel, session, run, approved, tries, clicks, trouble>>

(* Mutant: the read-back proves that the document exists, not that it is ours *)
ConfirmsExisting(found, expected) == found # None

(* A write whose answer was lost counts only if the document reads back *)
Confirms(found, expected) == found = expected

ConfirmQuery ==
    /\ run # None /\ run.at = "confirm query"
    /\ LET q == Query
       IN IF Confirms(query[run.targets[q]], Definition(q)) THEN QueryDone(q) ELSE QueryFailed(q)
    /\ UNCHANGED <<server, panel, session, stray, history, tries, clicks, trouble>>

-----------------------------------------------------------------------------
(* The dashboards.                                                         *)

DashboardFailed == run' = [run EXCEPT !.at = "dashboard", !.docs = DocsLeft]

BeginDashboards ==
    /\ run # None /\ run.at = "query" /\ run.queries = {}
    /\ run' = [run EXCEPT !.at = "dashboard", !.docs = Written]
    /\ UNCHANGED <<server, panel, session, stray, history, tries, clicks, trouble>>

BeginDashboard ==
    /\ run # None /\ run.at = "dashboard"
    /\ run' = IF run.docs = {} THEN [run EXCEPT !.at = "finish"]
              ELSE IF Uses[Doc] \cap run.bad # {} THEN [run EXCEPT !.docs = DocsLeft]
              ELSE [run EXCEPT !.at = "verify", !.refs = Uses[Doc]]
    /\ changed' = {}
    /\ UNCHANGED <<server, panel, session, stray, approved, overwrote, stored, tries, clicks, trouble>>

(* Mutant: the definitions prepared earlier are trusted *)
VerifyPrepared(q) == TRUE

(* The referenced query still has the definition this attempt prepared *)
Verified(q) == /\ query[run.targets[q]] # None
               /\ query[run.targets[q]] = run.current[run.targets[q]]

VerifyQuery ==
    /\ run # None /\ run.at = "verify"
    /\ IF run.refs = {}
       THEN run' = [run EXCEPT !.etag = None,
                       !.at = IF session.actions[Doc] = "replace" THEN "read" ELSE "save"]
       ELSE \E q \in run.refs : IF Verified(q) THEN run' = [run EXCEPT !.refs = @ \ {q}]
                                ELSE DashboardFailed
    /\ UNCHANGED <<server, panel, session, stray, history, tries, clicks, trouble>>

(* Mutant: whatever is saved now is replaced *)
ReviewedAny(d, fresh) == fresh # None

(* checkBaseline: what is saved is what the operator compared *)
Reviewed(d, fresh) == fresh # None /\ fresh = snapshot.dash[d]

ReadDashboard ==
    /\ run # None /\ run.at = "read"
    /\ LET d     == Doc
           fresh == dash[Own(d)]
       IN IF <<Own(d), Target(d)>> \in session.attempted /\ fresh = Target(d) THEN DashboardDone(d)
          ELSE /\ IF Reviewed(d, fresh) THEN run' = [run EXCEPT !.at = "save", !.etag = fresh]
                  ELSE DashboardFailed
               /\ UNCHANGED session
    /\ UNCHANGED <<server, panel, stray, history, tries, clicks, trouble>>

ConfirmDashboard ==
    /\ run # None /\ run.at = "confirm"
    /\ LET d == Doc
       IN IF Confirms(dash[session.ids[d]], Target(d)) THEN DashboardDone(d)
          ELSE DashboardFailed /\ UNCHANGED session
    /\ UNCHANGED <<server, panel, stray, history, tries, clicks, trouble>>

(* Keep decisions complete with the returned result *)
Finish ==
    /\ run # None /\ run.at = "finish"
    /\ LET kept == {d \in Docs \ session.completed : session.actions[d] = "keep"}
       IN session' = [session EXCEPT !.completed = @ \cup kept]
    /\ remaining' = Docs \ session'.completed
    /\ lockedActions' = IF session.locked THEN [d \in Docs |-> DashboardAction(d)] ELSE lockedActions
    /\ run' = None
    /\ UNCHANGED <<server, snapshot, dashboardChoices, queryChoices, mapping, stray, history,
                   tries, clicks, trouble>>

(* A read that fails ends the attempt, the query or the dashboard *)
ReadFails ==
    /\ run # None /\ trouble < MaxTrouble
    /\ trouble' = trouble + 1
    /\ \/ run.at \in {"list", "library"} /\ Throw
       \/ run.at = "preflight" /\ run.docs # {} /\ Throw
       \/ run.at = "kept" /\ run.queries # {} /\ Throw
       \/ run.at \in {"fresh", "confirm query"} /\ QueryFailed(Query)
       \/ run.at = "verify" /\ run.refs # {} /\ DashboardFailed
       \/ run.at \in {"read", "confirm"} /\ DashboardFailed
    /\ UNCHANGED <<server, panel, session, stray, history, tries, clicks>>

(* External: other writers of the workspace *)
OthersWrite ==
    /\ trouble < MaxTrouble
    /\ trouble' = trouble + 1
    /\ \/ /\ \E i \in DOMAIN dash : /\ dash[i] # None
                                    /\ \E c \in {Edited, None} : dash' = [dash EXCEPT ![i] = c]
          /\ UNCHANGED <<query, elsewhere, changed>>
       \/ /\ \E i \in DOMAIN query : /\ query[i] # None
                                     /\ \E c \in {Edited, None} : query' = [query EXCEPT ![i] = c]
                                     /\ changed' = changed \cup {i}
          /\ UNCHANGED <<dash, elsewhere>>
       \/ elsewhere' = elsewhere + 1 /\ UNCHANGED <<dash, query, changed>>
    /\ UNCHANGED <<panel, session, run, stray, approved, overwrote, stored, tries, clicks>>

-----------------------------------------------------------------------------
Init ==
    /\ dash = [i \in Ids(Docs) |-> IF i[1] \in Saved /\ i[2] = 0 THEN Old ELSE None]
    /\ query \in {f \in [Ids(Queries) -> {Old, Home, None}] :
                      \A i \in Ids(Queries) : i[2] > 0 => f[i] = None}
    /\ elsewhere = 0
    /\ snapshot = None
    /\ dashboardChoices = [d \in Docs |-> None] /\ queryChoices = [q \in Queries |-> None]
    /\ mapping = Home
    /\ remaining = Docs /\ lockedActions = [d \in Docs |-> None]
    /\ session = NewSession /\ run = None /\ stray = None
    /\ approved = {} /\ overwrote = {} /\ changed = {}
    /\ stored = [d \in Docs |-> {}]
    /\ tries = 0 /\ clicks = 0 /\ trouble = 0

Import == \/ ImportBundle \/ ListDestinations \/ Preflight \/ ListSavedQueries \/ ReadKeptQuery
          \/ BeginQuery \/ ReadQuery \/ ConfirmQuery \/ BeginDashboards \/ BeginDashboard
          \/ VerifyQuery \/ ReadDashboard \/ ConfirmDashboard \/ Finish

Next ==
    \/ RefreshReview
    \/ \E d \in Docs, a \in Actions : ChooseDashboard(d, a)
    \/ \E q \in Queries, a \in Actions \cup {"create"} : ChooseQuery(q, a)
    \/ \E p \in Providers : ChooseProvider(p)
    \/ Import
    \/ WriteAnswered \/ AnswerLost \/ RequestLost \/ DeliverStray \/ ReadFails
    \/ OthersWrite

Spec == Init /\ [][Next]_vars

-----------------------------------------------------------------------------
(* Properties.                                                             *)

(* Types of the review, of the retry session, of the attempt under way and *)
(* of a write on its way (ImportSession, importBundle).                    *)
TypeOK ==
    /\ dash \in [Ids(Docs) -> Contents] /\ query \in [Ids(Queries) -> Content]
    /\ elsewhere \in Nat
    /\ snapshot \in Snapshots \cup {None}
    /\ dashboardChoices \in [Docs -> Actions \cup {None}]
    /\ queryChoices \in [Queries -> Actions \cup {None}]
    /\ lockedActions \in [Docs -> Actions \cup {None}]
    /\ mapping \in Providers /\ remaining \subseteq Docs
    /\ session \in Sessions /\ run \in Runs \cup {None} /\ stray \in Requests \cup {None}
    /\ stored \in [Docs -> SUBSET Ids(Docs)] /\ changed \subseteq Ids(Queries)
    /\ tries \in 0 .. MaxTries /\ clicks \in 0 .. MaxClicks /\ trouble \in 0 .. MaxTrouble

(* The importer replaces a dashboard or a query only in the version the    *)
(* operator compared and agreed to replace: not a newer one of somebody    *)
(* else, not by a late delivery, not on a retry.                           *)
ReplacesReviewed == overwrote \subseteq approved

(* Dashboards that were imported together keep leading to one another: a   *)
(* drilldown of a document the server took opens the identity its target   *)
(* has in the session, whatever was chosen, lost or retried afterwards.    *)
LinksAgree ==
    \A i \in Ids(Docs) : dash[i] \notin Foreign \cup {None} =>
        \A e \in Links[dash[i].of] : dash[i].links[e] = session.ids[e]

(* When the server takes a dashboard, every saved query it refers to has   *)
(* the definition this attempt prepared, unless somebody changed the query *)
(* after the check of this dashboard's queries began.                      *)
SavedAgainstVerified ==
    [][\A d \in Docs : d \in session'.completed \ session.completed /\ run # None
                       /\ run.at = "save" =>
           \A q \in Uses[d] : run.targets[q] \in changed
                              \/ query[run.targets[q]] = run.current[run.targets[q]]]_vars

(* The import implements the promise of ImportLedger: one identity per     *)
(* document, and no document reported as saved that was not stored.        *)
Ledger == INSTANCE ImportLedger WITH
    Documents  <- Docs,
    Identities <- Ids(Docs),
    stored     <- stored,
    reported   <- [d \in Docs |-> IF d \notin session.completed THEN "open"
                                  ELSE IF session.actions[d] = "keep" THEN "kept" ELSE "saved"]
ImplementsLedger == Ledger!Spec

-----------------------------------------------------------------------------
(* What holds the importer together.                                       *)

(* A definition is copied once for each data source it is connected to,    *)
(* however often the import is retried.                                    *)
OneCopyPerDefinition ==
    \A q \in Queries, p \in Providers :
        Cardinality({i \in Ids({q}) : i[2] > 0 /\ query[i] = p}) <= 1

(* It can only be the copy the session minted for it *)
CopiesInv ==
    /\ \A q \in Queries, p \in Providers : session.copies[<<q, p>>] \in Ids({q}) \cup {None}
    /\ \A i \in Ids(Queries) : i[2] > 0 /\ query[i] \in Providers
          => session.copies[<<i[1], query[i]>>] = i

(* A destination is settled with its action, is the document's own unless  *)
(* it is a copy, and is known for every document once one may be written   *)
DestinationsInv ==
    /\ \A d \in Docs :
          /\ session.ids[d] \in Ids({d}) \cup {None}
          /\ session.ids[d] = None <=> session.actions[d] = None
          /\ session.actions[d] \in {"keep", "replace"} => session.ids[d] = Own(d)
          /\ run # None \/ session.locked \/ d \in session.completed => session.ids[d] # None
    /\ Docs \ session.completed \subseteq remaining
    /\ run = None \/ run.at \in {"list", "preflight", "library", "kept"} =>
          remaining = Docs \ session.completed

(* While an attempt runs, its choices stand and replacements are approved *)
ReviewInv ==
    run # None =>
        /\ snapshot # None
        /\ \A d \in Docs \ session.completed :
              /\ session.actions[d] = DashboardAction(d)
              /\ session.actions[d] = "replace" => <<Own(d), snapshot.dash[d]>> \in approved
        /\ \A q \in Queries :
              /\ QueryAction(q) = "replace" => <<Own(q), snapshot.query[q]>> \in approved
              /\ run.kept[q] # None => QueryAction(q) = "keep"

(* The query an attempt works on has the target its choice calls for, and  *)
(* every query of a dashboard to be written is waiting, prepared or failed *)
QueriesInv ==
    run # None =>
        /\ run.at = "kept" => \A q \in run.queries : QueryAction(q) = "keep"
        /\ run.at \in {"fresh", "put", "confirm query"} =>
              /\ run.queries # {} /\ run.targets[Query] \in Ids({Query})
              /\ run.targets[Query] = IF QueryAction(Query) = "copy" THEN MintedCopy(Query)
                                      ELSE Own(Query)
        /\ run.at = "put" /\ run.etag # None =>
              QueryAction(Query) = "replace" /\ run.etag = snapshot.query[Query]
        /\ run.at \in {"query", "fresh", "put", "confirm query"} =>
              \A q \in SelectedQueries(Written) \ (run.queries \cup run.bad) :
                  run.targets[q] # None

(* The dashboard an attempt works on is to be written, its queries have    *)
(* targets, and those it has verified are as prepared or changed since     *)
DashboardsInv ==
    run # None =>
        /\ run.docs \subseteq Docs \ session.completed
        /\ run.at \in {"dashboard", "verify", "read", "save", "confirm"} =>
              /\ run.docs \subseteq Written
              /\ \A q \in SelectedQueries(run.docs) \ run.bad : run.targets[q] # None
        /\ run.at \in {"verify", "read", "save", "confirm"} => run.docs # {}
        /\ run.at = "read" => session.actions[Doc] = "replace"
        /\ run.at \in {"verify", "read", "save"} =>
              /\ Uses[Doc] \cap run.bad = {} /\ (run.at # "verify" => run.refs = {})
              /\ \A q \in Uses[Doc] \ run.refs :
                    run.targets[q] \in changed
                    \/ query[run.targets[q]] = run.current[run.targets[q]]
        /\ run.at = "save" /\ run.etag # None =>
              session.actions[Doc] = "replace" /\ run.etag = snapshot.dash[Doc]

(* What the server took, or may still take, leads where the session says *)
Linked(doc, id) ==
    /\ session.locked /\ id = session.ids[doc.of]
    /\ \A e \in Links[doc.of] : doc.links[e] = session.ids[e]
StoredInv ==
    /\ \A d \in Docs : stored[d] \subseteq {session.ids[d]} /\ (stored[d] # {} => session.locked)
    /\ \A i \in Ids(Docs) : dash[i] \in Imports => Linked(dash[i], i) /\ i \in stored[dash[i].of]
Rightful(w) ==
    /\ w.etag # None => <<w.id, w.etag>> \in approved
    /\ w.kind = "dashboard" => Linked(w.doc, w.id)
    /\ w.kind = "query" /\ w.id[2] > 0 =>
          w.doc \in Providers /\ session.copies[<<w.id[1], w.doc>>] = w.id
StrayInv == stray # None => Rightful(stray)

(* The inductive invariant of the importer. *)
ImportInv == /\ TypeOK /\ OneCopyPerDefinition /\ CopiesInv /\ DestinationsInv /\ ReviewInv
             /\ QueriesInv /\ DashboardsInv /\ StoredInv /\ StrayInv /\ ReplacesReviewed
=============================================================================
