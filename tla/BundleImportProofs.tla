------------------------- MODULE BundleImportProofs -------------------------
(* Proofs about the import of a bundle, for any bundle, any data sources   *)
(* and any number of attempts, lost requests and writes of others.         *)
EXTENDS BundleImport, FiniteSetTheorems, WellFoundedInduction, TLAPS

-----------------------------------------------------------------------------
(* The order of the bundle.                                                *)

(* What comes first in the bundle is one of those that are left. *)
LEMMA FirstIn ==
  ASSUME NEW T, NEW s \in Seq(T), NEW S, S # {}, S \subseteq Range(s)
  PROVE  First(s, S) \in S
<1> DEFINE At == {i \in DOMAIN s : s[i] \in S}
<1>1. At \subseteq Nat /\ At # {}
  BY DEF Range
<1>2. PICK m \in At : \A n \in At : ~ (<<n, m>> \in OpToRel(<, Nat))
  BY <1>1, NatLessThanWellFounded, WFMin, Zenon
<1>3. m \in DOMAIN s /\ s[m] \in S /\ m \in Nat
  BY <1>1
<1>4. ASSUME NEW j \in 1 .. (m - 1)
      PROVE  s[j] \notin S
  <2>1. j \in DOMAIN s /\ j < m /\ j \in Nat
    BY <1>3
  <2>2. <<j, m>> \in OpToRel(<, Nat)
    BY <1>3, <2>1 DEF OpToRel
  <2> QED
    BY <1>2, <2>1, <2>2
<1> QED
  BY <1>3, <1>4 DEF First

LEMMA DocIn ==
  ASSUME run \in Runs, run.docs # {}
  PROVE  Doc \in run.docs /\ Doc \in Docs
<1>1. run.docs \subseteq Range(Bundle)
  BY DEF Runs, Docs
<1> QED
  BY <1>1, FirstIn, BundleAssumption DEF Doc, Docs

LEMMA QueryIn ==
  ASSUME run \in Runs, run.queries # {}
  PROVE  Query \in run.queries /\ Query \in Queries
<1>1. run.queries \subseteq Range(Definitions)
  BY DEF Runs, Queries
<1> QED
  BY <1>1, FirstIn, BundleAssumption DEF Query, Queries

-----------------------------------------------------------------------------
(* The ledger.                                                             *)

LedgerVars == <<stored, [d \in Docs |-> IF d \notin session.completed THEN "open"
                          ELSE IF session.actions[d] = "keep" THEN "kept" ELSE "saved"]>>

(* An attempt that reports nothing leaves the ledger alone. *)
LEMMA LedgerStutters ==
  ASSUME stored' = stored, session'.completed = session.completed,
         \A d \in session.completed : session'.actions[d] = session.actions[d]
  PROVE  UNCHANGED LedgerVars
  BY DEF LedgerVars

LEMMA LedgerStores ==
  ASSUME stored \in [Docs -> SUBSET Ids(Docs)], NEW d \in Docs, NEW i \in Ids(Docs),
         stored[d] \subseteq {i}, stored' = [stored EXCEPT ![d] = {i}],
         session'.completed = session.completed,
         session'.actions = session.actions
  PROVE  Ledger!Next
<1>1. Ledger!Store(d)
  BY DEF Ledger!Store
<1> QED
  BY <1>1 DEF Ledger!Next

LEMMA LedgerReports ==
  ASSUME session.completed \subseteq Docs, session'.actions = session.actions,
         NEW d \in Docs, d \notin session.completed, session.actions[d] # "keep",
         session'.completed = session.completed \cup {d},
         stored'[d] # {},
         \/ stored' = stored
         \/ \E i \in Ids(Docs) : stored[d] \subseteq {i} /\ stored' = [stored EXCEPT ![d] = {i}]
  PROVE  Ledger!Next
<1>1. Ledger!Report(d)
  BY DEF Ledger!Report
<1> QED
  BY <1>1 DEF Ledger!Next

LEMMA LedgerKeeps ==
  ASSUME session.completed \subseteq Docs, session'.actions = session.actions,
         session'.completed = session.completed
             \cup {d \in Docs \ session.completed : session.actions[d] = "keep"},
         stored' = stored
  PROVE  Ledger!Next
<1>1. Ledger!Keep
  <2> DEFINE D == {d \in Docs \ session.completed : session.actions[d] = "keep"}
  <2> QED
    BY DEF Ledger!Keep
<1> QED
  BY <1>1 DEF Ledger!Next

-----------------------------------------------------------------------------
(* What every step is shown to keep: the invariant, the check of the       *)
(* queries before a save, and the ledger.                                  *)

Checked ==
    \A d \in Docs : d \in session'.completed \ session.completed /\ run # None
                   /\ run.at = "save" =>
        \A q \in Uses[d] : run.targets[q] \in changed
                           \/ query[run.targets[q]] = run.current[run.targets[q]]
Safe == ImportInv' /\ Checked /\ [Ledger!Next]_LedgerVars

RunInv == ReviewInv /\ QueriesInv /\ DashboardsInv

Early == {"list", "preflight", "library", "kept"}

Bounded == tries' \in 0 .. MaxTries /\ clicks' \in 0 .. MaxClicks /\ trouble' \in 0 .. MaxTrouble

SameDestinations ==
    /\ session'.ids = session.ids /\ session'.actions = session.actions
    /\ session'.completed = session.completed /\ session'.locked = session.locked

(* Copies are minted once and stay. *)
CopiesGrow ==
    \A q \in Queries, p \in Providers :
        /\ session.copies[<<q, p>>] # None => session'.copies[<<q, p>>] = session.copies[<<q, p>>]
        /\ session'.copies[<<q, p>>] \in Ids({q}) \cup {None}

LEMMA IdsFacts ==
  ASSUME NEW S, NEW i \in Ids(S)
  PROVE  /\ i = <<i[1], i[2]>> /\ i[1] \in S /\ i[2] \in 0 .. MaxIds
         /\ \A T : i[1] \in T => i \in Ids(T)
  BY DEF Ids

LEMMA OwnIn ==
  ASSUME NEW S, NEW x \in S
  PROVE  Own(x) \in Ids(S)
<1>1. MaxIds \in Nat
  BY BundleAssumption
<1>2. 0 \in 0 .. MaxIds
  BY <1>1
<1> QED
  BY <1>2 DEF Own, Ids

(* The minted copy is the only one, so a definition has one copy. *)
LEMMA OneCopy ==
  ASSUME TypeOK, CopiesInv
  PROVE  OneCopyPerDefinition
<1>1. SUFFICES ASSUME NEW q \in Queries, NEW p \in Providers
               PROVE  Cardinality({i \in Ids({q}) : i[2] > 0 /\ query[i] = p}) <= 1
  BY DEF OneCopyPerDefinition
<1> DEFINE C == {i \in Ids({q}) : i[2] > 0 /\ query[i] = p}
           m == session.copies[<<q, p>>]
<1>2. C \subseteq {m}
  <2>1. SUFFICES ASSUME NEW i \in C
                 PROVE  i = m
    OBVIOUS
  <2>2. i[1] = q /\ i \in Ids(Queries)
    BY IdsFacts
  <2> QED
    BY <2>1, <2>2 DEF CopiesInv
<1>3. IsFiniteSet({m}) /\ Cardinality({m}) = 1
  BY FS_Singleton
<1>4. IsFiniteSet(C) /\ Cardinality(C) <= Cardinality({m})
  BY <1>2, <1>3, FS_Subset
<1> QED
  BY <1>3, <1>4

LEMMA CopiesKept ==
  ASSUME ImportInv, query' = query, CopiesGrow
  PROVE  CopiesInv'
<1>1. query \in [Ids(Queries) -> Content]
  BY DEF ImportInv, TypeOK
<1>2. ASSUME NEW i \in Ids(Queries), i[2] > 0, query'[i] \in Providers
      PROVE  session'.copies[<<i[1], query'[i]>>] = i
  <2>1. session.copies[<<i[1], query[i]>>] = i /\ i # None /\ i[1] \in Queries
    BY <1>2, IdsFacts, ContentAssumption DEF ImportInv, CopiesInv
  <2> QED
    BY <1>2, <2>1 DEF CopiesGrow
<1> QED
  BY <1>2 DEF CopiesInv, CopiesGrow

LEMMA StoredKept ==
  ASSUME ImportInv, UNCHANGED <<dash, stored>>,
         session.locked => session'.locked /\ session'.ids = session.ids
  PROVE  StoredInv'
  BY DEF ImportInv, StoredInv, Linked

LEMMA StrayKept ==
  ASSUME ImportInv, stray' = stray, approved \subseteq approved', CopiesGrow,
         session.locked => session'.locked /\ session'.ids = session.ids
  PROVE  StrayInv'
<1>1. SUFFICES ASSUME stray # None
               PROVE  Rightful(stray)'
  BY DEF StrayInv
<1>2. Rightful(stray) /\ stray \in Requests
  BY <1>1 DEF ImportInv, StrayInv, TypeOK
<1>3. stray.kind = "dashboard" => Linked(stray.doc, stray.id)'
  BY <1>2 DEF Rightful, Linked
<1>4. ASSUME stray.kind = "query", stray.id[2] > 0
      PROVE  stray.doc \in Providers /\ session'.copies[<<stray.id[1], stray.doc>>] = stray.id
  <2>1. stray.id \in Ids(Queries)
    BY <1>2, <1>4 DEF Requests
  <2>2. stray.doc \in Providers /\ session.copies[<<stray.id[1], stray.doc>>] = stray.id
    BY <1>2, <1>4 DEF Rightful
  <2>3. stray.id # None /\ stray.id[1] \in Queries
    BY <2>1, IdsFacts, ContentAssumption
  <2> QED
    BY <2>2, <2>3 DEF CopiesGrow
<1> QED
  BY <1>2, <1>3, <1>4 DEF Rightful

LEMMA CopiesSame ==
  ASSUME ImportInv, session'.copies = session.copies
  PROVE  CopiesGrow
  BY DEF ImportInv, CopiesInv, CopiesGrow

(* A step of the attempt that leaves the server and the destinations alone. *)
LEMMA QuietStep ==
  ASSUME ImportInv, run # None, UNCHANGED <<server, panel, stray, approved, overwrote, stored>>,
         session' \in Sessions, SameDestinations, CopiesGrow,
         run' \in Runs \cup {None}, changed' \subseteq Ids(Queries), Bounded,
         run' = None \/ run'.at \in Early => run.at \in Early,
         RunInv'
  PROVE  Safe
<1>1. TypeOK'
  BY DEF ImportInv, TypeOK, server, panel, Bounded
<1>2. CopiesInv' /\ StoredInv' /\ StrayInv'
  BY CopiesKept, StoredKept, StrayKept DEF server, SameDestinations
<1>3. OneCopyPerDefinition'
  BY <1>1, <1>2, OneCopy, PTL
<1>4. DestinationsInv'
  BY DEF ImportInv, DestinationsInv, SameDestinations, panel, Early
<1>5. ReplacesReviewed'
  BY DEF ImportInv, ReplacesReviewed
<1>6. Checked
  BY DEF Checked, SameDestinations
<1>7. UNCHANGED LedgerVars
  BY LedgerStutters DEF SameDestinations
<1> QED
  BY <1>1, <1>2, <1>3, <1>4, <1>5, <1>6, <1>7 DEF Safe, ImportInv, RunInv

LEMMA PanelSame ==
  ASSUME UNCHANGED panel
  PROVE  /\ \A q : QueryAction(q)' = QueryAction(q)
         /\ \A d : DashboardAction(d)' = DashboardAction(d)
         /\ snapshot' = snapshot /\ mapping' = mapping
  BY DEF panel, QueryAction, QueryStatus, DashboardAction

LEMMA ReviewKept ==
  ASSUME ImportInv, run # None, run' # None, UNCHANGED panel, approved \subseteq approved',
         session'.actions = session.actions, session.completed \subseteq session'.completed,
         \A q \in Queries : run'.kept[q] # None => QueryAction(q) = "keep"
  PROVE  ReviewInv'
<1>1. ReviewInv
  BY DEF ImportInv
<1> QED
  BY <1>1, PanelSame DEF ReviewInv

LEMMA RunTyped ==
  ASSUME ImportInv, run # None
  PROVE  run \in Runs /\ session \in Sessions /\ snapshot \in Snapshots /\ mapping \in Providers
  BY DEF ImportInv, TypeOK, ReviewInv

LEMMA SelectedTyped ==
  ASSUME NEW D \in SUBSET Docs
  PROVE  SelectedQueries(D) \subseteq Queries
  BY BundleAssumption DEF SelectedQueries

(* A step of the attempt that only the attempt itself sees. *)
LEMMA RunStep ==
  ASSUME ImportInv, run # None,
         UNCHANGED <<server, panel, session, stray, approved, overwrote, stored, tries, clicks>>,
         trouble' \in 0 .. MaxTrouble, changed' \subseteq Ids(Queries),
         run' \in Runs, run'.kept = run.kept,
         run'.at \in Early => run.at \in Early,
         QueriesInv', DashboardsInv'
  PROVE  Safe
<1>1. run' # None
  BY ContentAssumption
<1>2. ReviewInv'
  <2>1. ReviewInv
    BY DEF ImportInv
  <2> QED
    BY <1>1, <2>1, ReviewKept DEF ReviewInv
<1>3. SameDestinations /\ session' \in Sessions
  BY RunTyped DEF SameDestinations
<1>4. CopiesGrow
  BY CopiesSame
<1>5. Bounded
  BY DEF Bounded, ImportInv, TypeOK
<1> QED
  BY <1>1, <1>2, <1>3, <1>4, <1>5, QuietStep DEF RunInv

(* An attempt that throws before it wrote anything. *)
LEMMA Thrown ==
  ASSUME ImportInv, run # None, run.at \in Early, run' = None,
         UNCHANGED <<server, panel, session, stray, history, tries, clicks>>,
         trouble' \in 0 .. MaxTrouble
  PROVE  Safe
<1>1. SameDestinations /\ session' \in Sessions
  BY RunTyped DEF SameDestinations
<1>2. CopiesGrow
  BY CopiesSame
<1>3. Bounded /\ changed' \subseteq Ids(Queries)
  BY DEF Bounded, ImportInv, TypeOK, history
<1>4. RunInv'
  BY DEF RunInv, ReviewInv, QueriesInv, DashboardsInv
<1> QED
  BY <1>1, <1>2, <1>3, <1>4, QuietStep DEF history

-----------------------------------------------------------------------------
(* Before the first write.                                                 *)

LEMMA ListDestinationsKeeps ==
  ASSUME ImportInv, ListDestinations
  PROVE  Safe
<1> DEFINE left == {d \in run.docs : session.actions[d] # "copy"}
<1> PICK r : r = [run EXCEPT !.at = "preflight", !.docs = left]
  OBVIOUS
<1>1. /\ run # None /\ run.at = "list" /\ (run' = None \/ run' = r)
      /\ UNCHANGED <<server, panel, session, stray, history, tries, clicks, trouble>>
  BY DEF ListDestinations, Throw
<1>2. run \in Runs /\ trouble \in 0 .. MaxTrouble /\ changed \subseteq Ids(Queries)
  BY <1>1, RunTyped DEF ImportInv, TypeOK
<1>3. CASE run' = None
  BY <1>1, <1>2, <1>3, Thrown DEF Early
<1>4. CASE run' = r
  <2>1. r \in Runs /\ r.at = "preflight" /\ r.docs = left /\ r.kept = run.kept
    BY <1>2 DEF Runs, Points
  <2>2. QueriesInv'
    BY <1>4, <2>1 DEF QueriesInv
  <2>3. DashboardsInv'
    BY <1>1, <1>4, <2>1 DEF ImportInv, DashboardsInv
  <2> QED
    BY <1>1, <1>2, <1>4, <2>1, <2>2, <2>3, RunStep DEF Early, history
<1> QED
  BY <1>1, <1>3, <1>4

LEMMA PreflightKeeps ==
  ASSUME ImportInv, Preflight
  PROVE  Safe
<1> PICK at : at = IF Written = {} THEN "finish" ELSE "library"
  OBVIOUS
<1> PICK a : a = [run EXCEPT !.at = at]
  OBVIOUS
<1> PICK b : b = [run EXCEPT !.docs = DocsLeft]
  OBVIOUS
<1>1. /\ run # None /\ run.at = "preflight" /\ (run' = None \/ run' = a \/ run' = b)
      /\ UNCHANGED <<server, panel, session, stray, history, tries, clicks, trouble>>
  BY DEF Preflight, Throw
<1>2. run \in Runs /\ trouble \in 0 .. MaxTrouble /\ changed \subseteq Ids(Queries)
  BY <1>1, RunTyped DEF ImportInv, TypeOK
<1>3. CASE run' = None
  BY <1>1, <1>2, <1>3, Thrown DEF Early
<1>4. CASE run' = a
  <2>1. a \in Runs /\ a.at \in {"finish", "library"} /\ a.docs = run.docs /\ a.kept = run.kept
    BY <1>2 DEF Runs, Points
  <2>2. QueriesInv' /\ DashboardsInv'
    BY <1>1, <1>4, <2>1 DEF ImportInv, QueriesInv, DashboardsInv
  <2> QED
    BY <1>1, <1>2, <1>4, <2>1, <2>2, RunStep DEF Early, history
<1>5. CASE run' = b
  <2>1. b \in Runs /\ b.at = "preflight" /\ b.docs \subseteq run.docs /\ b.kept = run.kept
    BY <1>1, <1>2 DEF Runs, DocsLeft
  <2>2. QueriesInv' /\ DashboardsInv'
    BY <1>1, <1>5, <2>1 DEF ImportInv, QueriesInv, DashboardsInv
  <2> QED
    BY <1>1, <1>2, <1>5, <2>1, <2>2, RunStep DEF Early, history
<1> QED
  BY <1>1, <1>3, <1>4, <1>5

LEMMA ListSavedQueriesKeeps ==
  ASSUME ImportInv, ListSavedQueries
  PROVE  Safe
<1> PICK n : n = IF SelectedQueries(Written) = {} THEN run.current ELSE query
  OBVIOUS
<1> PICK kept : kept = {q \in SelectedQueries(Written) : QueryAction(q) = "keep"}
  OBVIOUS
<1> PICK r : r = [run EXCEPT !.at = "kept", !.current = n, !.queries = kept]
  OBVIOUS
<1>1. /\ run # None /\ run.at = "library" /\ run' = r
      /\ UNCHANGED <<server, panel, session, stray, history, tries, clicks, trouble>>
  BY DEF ListSavedQueries
<1>2. run \in Runs /\ trouble \in 0 .. MaxTrouble /\ changed \subseteq Ids(Queries)
      /\ query \in [Ids(Queries) -> Content]
  BY <1>1, RunTyped DEF ImportInv, TypeOK
<1>3. kept \subseteq Queries /\ n \in [Ids(Queries) -> Content]
  BY <1>2, SelectedTyped DEF Written, Runs
<1>4. r \in Runs /\ r.at = "kept" /\ r.docs = run.docs /\ r.kept = run.kept /\ r.queries = kept
  BY <1>2, <1>3 DEF Runs, Points
<1>5. QueriesInv'
  BY <1>1, <1>4, PanelSame DEF QueriesInv
<1>6. DashboardsInv'
  BY <1>1, <1>4 DEF ImportInv, DashboardsInv
<1> QED
  BY <1>1, <1>2, <1>4, <1>5, <1>6, RunStep DEF Early, history

KeptAs(r, u, k) == [r EXCEPT !.queries = u, !.kept = k]
LEMMA KeptAsTyped ==
  ASSUME NEW r \in Runs, NEW u \in SUBSET Queries, NEW k \in [Queries -> Content]
  PROVE  /\ KeptAs(r, u, k) \in Runs /\ KeptAs(r, u, k).queries = u /\ KeptAs(r, u, k).kept = k
         /\ KeptAs(r, u, k).at = r.at /\ KeptAs(r, u, k).docs = r.docs
  BY DEF Runs, KeptAs

LEMMA ReadKeptQueryKeeps ==
  ASSUME ImportInv, ReadKeptQuery
  PROVE  Safe
<1> PICK fresh : fresh = query[Own(Query)]
  OBVIOUS
<1> PICK a : a = [run EXCEPT !.at = "query", !.queries = SelectedQueries(Written)]
  OBVIOUS
<1> PICK b : b = [run EXCEPT !.queries = QueriesLeft, !.kept[Query] = fresh]
  OBVIOUS
<1>1. /\ run # None /\ run.at = "kept"
      /\ \/ run' = None
         \/ run' = a
         \/ run' = b /\ run.queries # {}
      /\ UNCHANGED <<server, panel, session, stray, history, tries, clicks, trouble>>
  BY DEF ReadKeptQuery, Throw
<1>2. run \in Runs /\ trouble \in 0 .. MaxTrouble /\ changed \subseteq Ids(Queries)
      /\ query \in [Ids(Queries) -> Content]
  BY <1>1, RunTyped DEF ImportInv, TypeOK
<1>3. CASE run' = None
  BY <1>1, <1>2, <1>3, Thrown DEF Early
<1>4. CASE run' = a
  <2>1. SelectedQueries(Written) \subseteq Queries
    BY SelectedTyped DEF Written
  <2>2. /\ a \in Runs /\ a.at = "query" /\ a.docs = run.docs /\ a.kept = run.kept
        /\ a.queries = SelectedQueries(Written)
    BY <1>2, <2>1 DEF Runs, Points
  <2>3. QueriesInv' /\ DashboardsInv'
    BY <1>1, <1>4, <2>2 DEF ImportInv, QueriesInv, DashboardsInv, Written
  <2> QED
    BY <1>1, <1>2, <1>4, <2>2, <2>3, RunStep DEF Early, history
<1>5. CASE run' = b /\ run.queries # {}
  <2>1. Query \in run.queries /\ Query \in Queries
    BY <1>2, <1>5, QueryIn
  <2>2. fresh \in Content
    BY <1>2, <2>1, BundleAssumption DEF Own, Ids
  <2>3. /\ b \in Runs /\ b.at = "kept" /\ b.docs = run.docs /\ b.queries \subseteq run.queries
        /\ \A q \in Queries : b.kept[q] = IF q = Query THEN fresh ELSE run.kept[q]
    <3> PICK k : k = [run.kept EXCEPT ![Query] = fresh]
      OBVIOUS
    <3>1. b = KeptAs(run, QueriesLeft, k)
      BY DEF KeptAs
    <3>2. k \in [Queries -> Content] /\ \A q \in Queries : k[q] = IF q = Query THEN fresh ELSE run.kept[q]
      BY <1>2, <2>1, <2>2 DEF Runs
    <3>3. QueriesLeft \subseteq run.queries
      BY DEF QueriesLeft
    <3>4. QueriesLeft \in SUBSET Queries
      BY <1>2, <3>3 DEF Runs
    <3>5. /\ b \in Runs /\ b.at = run.at /\ b.docs = run.docs /\ b.queries = QueriesLeft
          /\ b.kept = k
      BY <1>2, <3>1, <3>2, <3>4, KeptAsTyped
    <3> QED
      BY <1>1, <3>2, <3>3, <3>5
  <2>4. \A q \in Queries : b.kept[q] # None => QueryAction(q) = "keep"
    BY <1>1, <2>1, <2>3 DEF ImportInv, QueriesInv, ReviewInv
  <2>5. ReviewInv'
    BY <1>1, <1>5, <2>3, <2>4, ContentAssumption, ReviewKept DEF history
  <2>6. QueriesInv' /\ DashboardsInv'
    BY <1>1, <1>5, <2>3, PanelSame DEF ImportInv, QueriesInv, DashboardsInv
  <2>7. SameDestinations /\ session' \in Sessions /\ CopiesGrow /\ Bounded
    BY <1>1, RunTyped, CopiesSame DEF SameDestinations, Bounded, ImportInv, TypeOK
  <2> QED
    BY <1>1, <1>2, <1>5, <2>3, <2>5, <2>6, <2>7, QuietStep DEF Early, RunInv, history
<1> QED
  BY <1>1, <1>3, <1>4, <1>5

-----------------------------------------------------------------------------
(* The queries.                                                            *)

LEMMA DefinitionTyped ==
  ASSUME ImportInv, run # None, NEW q \in Queries
  PROVE  /\ Definition(q) \in Content
         /\ QueryAction(q) = "copy" => Definition(q) = mapping /\ mapping \in Providers
<1>1. run \in Runs /\ mapping \in Providers
  BY RunTyped
<1>2. QueryAction(q) = "copy" => run.kept[q] = None
  BY DEF ImportInv, ReviewInv
<1> QED
  BY <1>1, <1>2 DEF Definition, Runs, Content

LEMMA CopyTyped ==
  ASSUME ImportInv, run # None, NEW q \in Queries, QueryAction(q) = "copy"
  PROVE  MintedCopy(q) \in Ids({q}) \cup {None}
  BY DefinitionTyped DEF ImportInv, CopiesInv, MintedCopy

(* An attempt that gives up a query keeps the rest. *)
Dropped(r, u, v) == [r EXCEPT !.queries = u, !.bad = v]
DropsOnly(r, u, v, n) ==
    /\ n \in Runs /\ n.queries = u /\ n.bad = v /\ n.at = r.at
    /\ n.docs = r.docs /\ n.kept = r.kept /\ n.targets = r.targets
LEMMA DroppedQuery ==
  ASSUME NEW r \in Runs, NEW u \in SUBSET Queries, NEW v \in SUBSET Queries
  PROVE  DropsOnly(r, u, v, Dropped(r, u, v))
  BY DEF Runs, Dropped, DropsOnly

(* Where an attempt goes on with its query. *)
GoesOn(r, n) == /\ n \in Runs /\ n.queries = r.queries /\ n.bad = r.bad
                /\ n.docs = r.docs /\ n.kept = r.kept /\ n.targets = r.targets
Fresh(r) == [r EXCEPT !.at = "fresh"]
Put(r)   == [r EXCEPT !.at = "put", !.etag = None]
LEMMA OnWithQuery ==
  ASSUME NEW r \in Runs
  PROVE  /\ GoesOn(r, Fresh(r)) /\ Fresh(r).at = "fresh"
         /\ GoesOn(r, Put(r)) /\ Put(r).at = "put" /\ Put(r).etag = None
<1>1. GoesOn(r, Fresh(r)) /\ Fresh(r).at = "fresh"
  BY DEF Runs, Points, Fresh, GoesOn
<1>2. Put(r) \in Runs
  BY DEF Runs, Points, Content, Put
<1>3. /\ Put(r).queries = r.queries /\ Put(r).bad = r.bad /\ Put(r).docs = r.docs
      /\ Put(r).kept = r.kept /\ Put(r).targets = r.targets
      /\ Put(r).at = "put" /\ Put(r).etag = None
  BY DEF Runs, Put
<1> QED
  BY <1>1, <1>2, <1>3 DEF GoesOn

(* A minted copy enters the session. *)
Minted(s, f, m) == [s EXCEPT !.copies = f, !.minted = m]
MintsOnly(s, f, n) == /\ n \in Sessions /\ n.copies = f
                      /\ n.ids = s.ids /\ n.actions = s.actions
                      /\ n.completed = s.completed /\ n.locked = s.locked
LEMMA MintedTyped ==
  ASSUME NEW s \in Sessions, NEW f \in [Queries \X Providers -> Ids(Queries) \cup {None}],
         NEW m \in [Docs \cup Queries -> 0 .. MaxIds]
  PROVE  MintsOnly(s, f, Minted(s, f, m))
<1>1. Minted(s, f, m) \in Sessions
  BY DEF Sessions, Minted
<1>2. /\ Minted(s, f, m).copies = f
      /\ Minted(s, f, m).ids = s.ids /\ Minted(s, f, m).actions = s.actions
      /\ Minted(s, f, m).completed = s.completed /\ Minted(s, f, m).locked = s.locked
  BY DEF Sessions, Minted
<1> QED
  BY <1>1, <1>2 DEF MintsOnly

LEMMA BeginQueryKeeps ==
  ASSUME ImportInv, BeginQuery
  PROVE  Safe
<1> PICK q : q = Query
  OBVIOUS
<1> DEFINE mint == QueryAction(q) = "copy" /\ MintedCopy(q) = None
<1> PICK id : id = IF QueryAction(q) # "copy" THEN Own(q)
                   ELSE IF mint THEN <<q, session.minted[q] + 1>> ELSE MintedCopy(q)
  OBVIOUS
<1> PICK begun : begun = [run EXCEPT !.targets[q] = id]
  OBVIOUS
<1> PICK a : a = [begun EXCEPT !.at = "fresh"]
  OBVIOUS
<1> PICK b : b = [begun EXCEPT !.at = "put", !.etag = None]
  OBVIOUS
<1> PICK c : c = [begun EXCEPT !.queries = QueriesLeft, !.bad = begun.bad \cup {q}]
  OBVIOUS
<1>1. /\ run # None /\ run.at = "query" /\ run.queries # {}
      /\ mint => session.minted[q] < MaxIds
      /\ session' = IF mint THEN [session EXCEPT !.copies[<<q, Definition(q)>>] = id,
                                                 !.minted[q] = @ + 1]
                    ELSE session
      /\ run' = a \/ run' = b \/ run' = c
      /\ UNCHANGED <<server, panel, stray, history, tries, clicks, trouble>>
  <2>1. CASE QueryAction(q) = "replace" \/ run.current[id] = Definition(q)
    BY <2>1 DEF BeginQuery
  <2>2. CASE /\ ~(QueryAction(q) = "replace" \/ run.current[id] = Definition(q))
             /\ run.current[id] = None /\ QueryAction(q) # "keep"
    BY <2>2 DEF BeginQuery
  <2>3. CASE /\ ~(QueryAction(q) = "replace" \/ run.current[id] = Definition(q))
             /\ ~(run.current[id] = None /\ QueryAction(q) # "keep")
    BY <2>3 DEF BeginQuery
  <2> QED
    BY <2>1, <2>2, <2>3
<1>2. /\ run \in Runs /\ session \in Sessions /\ changed \subseteq Ids(Queries) /\ Bounded
      /\ q \in run.queries /\ q \in Queries /\ Definition(q) \in Content
  BY <1>1, RunTyped, QueryIn, DefinitionTyped DEF ImportInv, TypeOK, Bounded
<1>3. session.minted[q] \in 0 .. MaxIds /\ MaxIds \in Nat
  BY <1>2, BundleAssumption DEF Sessions
<1>4. id \in Ids({q}) /\ id \in Ids(Queries) /\ id # None
  <2>1. CASE QueryAction(q) # "copy"
    BY <1>2, <1>3, <2>1, ContentAssumption DEF Own, Ids
  <2>2. CASE QueryAction(q) = "copy" /\ mint
    <3>1. session.minted[q] + 1 \in 0 .. MaxIds
      BY <1>1, <1>3, <2>2
    <3> QED
      BY <1>2, <2>2, <3>1, ContentAssumption DEF Ids
  <2>3. CASE QueryAction(q) = "copy" /\ ~mint
    <3>1. id = MintedCopy(q) /\ id \in Ids({q})
      BY <1>1, <1>2, <2>3, CopyTyped
    <3> QED
      BY <1>2, <3>1, ContentAssumption DEF Ids
  <2> QED
    BY <2>1, <2>2, <2>3
<1>5. /\ session' \in Sessions /\ SameDestinations /\ CopiesGrow
      /\ QueryAction(q) = "copy" => session'.copies[<<q, Definition(q)>>] = id
  <2>1. CASE ~mint
    BY <1>1, <1>2, <2>1, CopiesSame DEF SameDestinations, MintedCopy
  <2>2. CASE mint
    <3> PICK k : k = <<q, Definition(q)>>
      OBVIOUS
    <3>1. k \in Queries \X Providers /\ session.copies[k] = None
      BY <1>1, <1>2, <2>2, DefinitionTyped DEF MintedCopy
    <3> PICK n : n = session.minted[q] + 1
      OBVIOUS
    <3>2. n \in 0 .. MaxIds
      BY <1>1, <1>3, <2>2
    <3> PICK f : f = [session.copies EXCEPT ![k] = id]
      OBVIOUS
    <3> PICK m : m = [session.minted EXCEPT ![q] = n]
      OBVIOUS
    <3>3. session' = Minted(session, f, m)
      BY <1>1, <2>2 DEF Minted
    <3>4. f \in [Queries \X Providers -> Ids(Queries) \cup {None}]
          /\ m \in [Docs \cup Queries -> 0 .. MaxIds]
      BY <1>2, <1>4, <3>1, <3>2 DEF Sessions
    <3>5. session' \in Sessions /\ SameDestinations /\ session'.copies = f
      <4>1. session \in Sessions
        BY <1>2
      <4>2. MintsOnly(session, f, Minted(session, f, m))
        BY <3>4, <4>1, MintedTyped
      <4>3. MintsOnly(session, f, session')
        BY <3>3, <4>2, Zenon
      <4> QED
        BY <4>3 DEF MintsOnly, SameDestinations
    <3>6. f[k] = id /\ \A x \in Queries \X Providers : x # k => f[x] = session.copies[x]
      BY <1>2, <3>1 DEF Sessions
    <3>7. CopiesGrow
      <4>1. SUFFICES ASSUME NEW x \in Queries, NEW p \in Providers
                     PROVE  /\ session.copies[<<x, p>>] # None =>
                                  session'.copies[<<x, p>>] = session.copies[<<x, p>>]
                            /\ session'.copies[<<x, p>>] \in Ids({x}) \cup {None}
        BY DEF CopiesGrow
      <4>2. CASE <<x, p>> = k
        <5>1. x = q
          BY <4>2
        <5> QED
          BY <1>4, <3>1, <3>5, <3>6, <4>2, <5>1
      <4>3. CASE <<x, p>> # k
        BY <3>5, <3>6, <4>3 DEF ImportInv, CopiesInv
      <4> QED
        BY <4>2, <4>3
    <3> QED
      BY <3>5, <3>6, <3>7
  <2> QED
    BY <2>1, <2>2
<1> PICK t : t = [run.targets EXCEPT ![q] = id]
  OBVIOUS
<1>6. /\ t \in [Queries -> Ids(Queries) \cup {None}] /\ t[q] = id
      /\ \A x \in Queries \ {q} : t[x] = run.targets[x]
  BY <1>2, <1>4 DEF Runs
<1>7. begun = [run EXCEPT !.targets = t]
  OBVIOUS
<1>8. /\ begun \in Runs /\ begun.targets = t /\ begun.at = "query"
      /\ begun.queries = run.queries /\ begun.bad = run.bad /\ begun.kept = run.kept
      /\ begun.docs = run.docs
  BY <1>1, <1>2, <1>6, <1>7 DEF Runs
<1>9. /\ Written' = Written /\ SelectedQueries(Written)' = SelectedQueries(Written)
      /\ SelectedQueries(Written) \subseteq Queries
  BY <1>5, SelectedTyped DEF SameDestinations, Written, SelectedQueries
<1>10. \A x \in SelectedQueries(Written) \ (run.queries \cup run.bad) : run.targets[x] # None
  BY <1>1 DEF ImportInv, QueriesInv
<1>11. /\ run' \in Runs /\ run'.targets = t /\ run'.kept = run.kept /\ run'.docs = run.docs
       /\ \/ run'.at \in {"fresh", "put"} /\ run'.queries = run.queries /\ run'.bad = run.bad
          \/ run'.at = "query" /\ run'.queries = run.queries \ {q} /\ run'.bad = run.bad \cup {q}
       /\ run'.at = "put" => run'.etag = None
  <2>1. CASE run' = a
    <3>1. run' = Fresh(begun)
      BY <2>1 DEF Fresh
    <3>2. GoesOn(begun, run') /\ run'.at = "fresh"
      BY <1>8, <3>1, OnWithQuery, Zenon
    <3> QED
      BY <1>8, <3>2 DEF GoesOn
  <2>2. CASE run' = b
    <3>1. run' = Put(begun)
      BY <2>2 DEF Put
    <3>2. GoesOn(begun, run') /\ run'.at = "put" /\ run'.etag = None
      BY <1>8, <3>1, OnWithQuery, Zenon
    <3> QED
      BY <1>8, <3>2 DEF GoesOn
  <2>3. CASE run' = c
    <3>1. QueriesLeft = run.queries \ {q} /\ QueriesLeft \subseteq Queries
      BY <1>2 DEF QueriesLeft, Runs
    <3>2. begun.bad \cup {q} = run.bad \cup {q} /\ begun.bad \cup {q} \subseteq Queries
      BY <1>2, <1>8 DEF Runs
    <3> PICK u : u = QueriesLeft
      OBVIOUS
    <3> PICK v : v = begun.bad \cup {q}
      OBVIOUS
    <3>3. u \in SUBSET Queries /\ v \in SUBSET Queries /\ begun \in Runs
      BY <1>8, <3>1, <3>2
    <3>4. DropsOnly(begun, u, v, Dropped(begun, u, v))
      BY <3>3, DroppedQuery
    <3>5. run' = Dropped(begun, u, v)
      BY <2>3 DEF Dropped
    <3>6. DropsOnly(begun, u, v, run')
      BY <3>4, <3>5, Zenon
    <3> QED
      BY <1>8, <3>1, <3>2, <3>6 DEF DropsOnly
  <2> QED
    BY <1>1, <2>1, <2>2, <2>3
<1>12. ReviewInv'
  <2>1. run' # None
    BY <1>11, ContentAssumption
  <2>2. \A x \in Queries : run'.kept[x] # None => QueryAction(x) = "keep"
    BY <1>1, <1>11 DEF ImportInv, ReviewInv
  <2> QED
    BY <1>1, <1>5, <2>1, <2>2, ReviewKept DEF SameDestinations, history
<1>13. QueriesInv'
  <2>1. run'.at \in {"fresh", "put"} => Query' = q
    BY <1>11 DEF Query
  <2>2. run'.at \in {"fresh", "put"} =>
           /\ QueryAction(q)' = QueryAction(q) /\ Definition(q)' = Definition(q)
           /\ MintedCopy(q)' = session'.copies[<<q, Definition(q)>>]
    BY <1>1, <1>11, PanelSame DEF Definition, MintedCopy
  <2>3. run'.at \in {"fresh", "put"} =>
           t[q] = IF QueryAction(q) = "copy" THEN session'.copies[<<q, Definition(q)>>] ELSE Own(q)
    BY <1>5, <1>6
  <2>4. \A x \in SelectedQueries(Written) \ (run'.queries \cup run'.bad) : t[x] # None
    BY <1>2, <1>4, <1>6, <1>9, <1>10, <1>11
  <2>5. run'.at \in {"fresh", "put"} =>
           /\ run'.queries # {} /\ run'.targets[Query'] \in Ids({Query'})
           /\ run'.targets[Query'] = IF QueryAction(Query)' = "copy" THEN MintedCopy(Query)'
                                    ELSE Own(Query')
    <3>1. SUFFICES ASSUME run'.at \in {"fresh", "put"}
                   PROVE  /\ run'.queries # {} /\ t[q] \in Ids({q})
                          /\ t[q] = IF QueryAction(q)' = "copy" THEN MintedCopy(q)' ELSE Own(q)
      BY <1>11, <2>1 DEF MintedCopy, Definition, QueryAction, QueryStatus
    <3> QED
      BY <1>1, <1>4, <1>6, <1>11, <2>2, <2>3, <3>1
  <2>6. run'.at \in {"query", "fresh", "put"} /\ (run'.at = "put" => run'.etag = None)
    BY <1>11
  <2> QED
    BY <1>9, <1>11, <2>4, <2>5, <2>6 DEF QueriesInv
<1>14. DashboardsInv'
  BY <1>1, <1>5, <1>11 DEF ImportInv, DashboardsInv, SameDestinations
<1>15. run'.at \notin Early /\ run' # None /\ changed' \subseteq Ids(Queries)
  BY <1>1, <1>2, <1>11, ContentAssumption DEF Early, history
<1>16. UNCHANGED <<server, panel, stray, approved, overwrote, stored>>
  BY <1>1 DEF history
<1> QED
  BY <1>1, <1>2, <1>5, <1>11, <1>12, <1>13, <1>14, <1>15, <1>16, QuietStep DEF RunInv

(* A query that is done or failed leaves the queue. *)
LEMMA QueryLeaves ==
  ASSUME ImportInv, run # None, run.at \in {"fresh", "put", "confirm query"},
         UNCHANGED <<panel, approved>>, SameDestinations,
         run' \in Runs, run'.at = "query", run'.queries = QueriesLeft, run'.docs = run.docs,
         run'.kept = run.kept, run'.targets = run.targets,
         run.bad \subseteq run'.bad
  PROVE  RunInv'
<1>1. run' # None /\ run \in Runs
  BY ContentAssumption, RunTyped
<1>2. ReviewInv'
  <2>1. \A x \in Queries : run'.kept[x] # None => QueryAction(x) = "keep"
    BY DEF ImportInv, ReviewInv
  <2> QED
    BY <1>1, <2>1, ReviewKept DEF SameDestinations
<1>3. SelectedQueries(Written)' = SelectedQueries(Written)
  BY DEF SameDestinations, Written, SelectedQueries
<1>4. /\ run.queries # {} /\ run.targets[Query] \in Ids({Query})
      /\ \A q \in SelectedQueries(Written) \ (run.queries \cup run.bad) : run.targets[q] # None
  BY DEF ImportInv, QueriesInv
<1>5. Query \in Queries /\ run.targets[Query] # None
  BY <1>1, <1>4, QueryIn, ContentAssumption DEF Ids
<1>6. \A q \in SelectedQueries(Written) \ (run'.queries \cup run'.bad) : run'.targets[q] # None
  BY <1>4, <1>5 DEF QueriesLeft
<1>7. QueriesInv'
  BY <1>3, <1>6 DEF QueriesInv
<1>8. DashboardsInv'
  BY DEF ImportInv, DashboardsInv, SameDestinations
<1> QED
  BY <1>2, <1>7, <1>8 DEF RunInv

(* What QueryDone and QueryFailed make of the attempt. *)
LEMMA QueryDoneTyped ==
  ASSUME ImportInv, run # None, run.at \in {"fresh", "put", "confirm query"},
         QueryDone(Query) \/ QueryFailed(Query)
  PROVE  /\ run' \in Runs /\ run'.at = "query" /\ run'.queries = QueriesLeft
         /\ run'.docs = run.docs /\ run'.kept = run.kept /\ run'.targets = run.targets
         /\ run.bad \subseteq run'.bad
<1> PICK q : q = Query
  OBVIOUS
<1>1. run \in Runs /\ run.queries # {} /\ run.targets[q] \in Ids({q})
  BY RunTyped DEF ImportInv, QueriesInv
<1>2. q \in Queries /\ run.targets[q] \in Ids(Queries)
  BY <1>1, QueryIn DEF Ids
<1> PICK u : u = QueriesLeft
  OBVIOUS
<1>3. u \subseteq Queries
  BY <1>1 DEF Runs, QueriesLeft
<1>4. CASE QueryDone(Query)
  <2> PICK f : f = [run.current EXCEPT ![run.targets[q]] = Definition(q)]
    OBVIOUS
  <2>1. run' = [run EXCEPT !.at = "query", !.queries = u, !.current = f]
    BY <1>4 DEF QueryDone
  <2>2. f \in [Ids(Queries) -> Content]
    BY <1>1, <1>2, DefinitionTyped DEF Runs
  <2> QED
    BY <1>1, <1>3, <2>1, <2>2 DEF Runs, Points
<1>5. CASE QueryFailed(Query)
  <2> PICK v : v = run.bad \cup {q}
    OBVIOUS
  <2>1. run' = [run EXCEPT !.at = "query", !.queries = u, !.bad = v]
    BY <1>5 DEF QueryFailed
  <2>2. v \subseteq Queries /\ run.bad \subseteq v
    BY <1>1, <1>2 DEF Runs
  <2> QED
    BY <1>1, <1>3, <2>1, <2>2 DEF Runs, Points
<1> QED
  BY <1>4, <1>5

(* The read or the read-back of a query that decides it. *)
LEMMA QueryDecided ==
  ASSUME ImportInv, run # None, run.at \in {"fresh", "put", "confirm query"},
         QueryDone(Query) \/ QueryFailed(Query),
         UNCHANGED <<server, panel, session, stray, history, tries, clicks>>,
         trouble' \in 0 .. MaxTrouble
  PROVE  Safe
<1>1. /\ run' \in Runs /\ run'.at = "query" /\ run'.queries = QueriesLeft
      /\ run'.docs = run.docs /\ run'.kept = run.kept /\ run'.targets = run.targets
      /\ run.bad \subseteq run'.bad
  BY QueryDoneTyped
<1>2. SameDestinations
  BY DEF SameDestinations
<1>3. UNCHANGED <<panel, approved>> /\ changed' \subseteq Ids(Queries)
  BY DEF history, ImportInv, TypeOK
<1>4. RunInv'
  BY <1>1, <1>2, <1>3, QueryLeaves
<1> QED
  BY <1>1, <1>3, <1>4, RunStep DEF Early, RunInv, history

LEMMA ConfirmQueryKeeps ==
  ASSUME ImportInv, ConfirmQuery
  PROVE  Safe
<1>1. /\ run # None /\ run.at = "confirm query" /\ (QueryDone(Query) \/ QueryFailed(Query))
      /\ UNCHANGED <<server, panel, session, stray, history, tries, clicks, trouble>>
  BY DEF ConfirmQuery
<1>2. trouble \in 0 .. MaxTrouble
  BY DEF ImportInv, TypeOK
<1> QED
  BY <1>1, <1>2, QueryDecided

LEMMA ReadQueryKeeps ==
  ASSUME ImportInv, ReadQuery
  PROVE  Safe
<1> PICK q : q = Query
  OBVIOUS
<1> PICK fresh : fresh = query[run.targets[q]]
  OBVIOUS
<1> PICK receipt : receipt = <<run.targets[q], Definition(q)>>
  OBVIOUS
<1> PICK r : r = [run EXCEPT !.at = "put", !.etag = fresh]
  OBVIOUS
<1>1. /\ run # None /\ run.at = "fresh"
      /\ UNCHANGED <<server, panel, stray, history, tries, clicks, trouble>>
      /\ \/ (QueryDone(q) \/ QueryFailed(q)) /\ UNCHANGED session
         \/ /\ QueryAction(q) = "replace" /\ fresh = snapshot.query[q]
            /\ session' = [session EXCEPT !.attempted = @ \cup {receipt}] /\ run' = r
  BY DEF ReadQuery
<1>2. /\ run \in Runs /\ session \in Sessions /\ changed \subseteq Ids(Queries) /\ Bounded
      /\ trouble \in 0 .. MaxTrouble /\ query \in [Ids(Queries) -> Content]
  BY <1>1, RunTyped DEF ImportInv, TypeOK, Bounded
<1>3. CASE (QueryDone(q) \/ QueryFailed(q)) /\ UNCHANGED session
  BY <1>1, <1>2, <1>3, QueryDecided
<1>4. CASE /\ QueryAction(q) = "replace" /\ fresh = snapshot.query[q]
           /\ session' = [session EXCEPT !.attempted = @ \cup {receipt}] /\ run' = r
  <2>1. /\ run.queries # {} /\ run.targets[q] \in Ids({q}) /\ run.targets[q] = Own(q)
        /\ \A x \in SelectedQueries(Written) \ (run.queries \cup run.bad) : run.targets[x] # None
    BY <1>1, <1>4 DEF ImportInv, QueriesInv
  <2>2. q \in Queries /\ run.targets[q] \in Ids(Queries) /\ Definition(q) \in Content
    BY <1>1, <1>2, <2>1, QueryIn, DefinitionTyped DEF Ids
  <2>3. receipt \in Ids(Queries) \X Content /\ fresh \in Content
    BY <1>2, <2>2
  <2>4. /\ r \in Runs /\ r.at = "put" /\ r.etag = fresh /\ r.queries = run.queries
        /\ r.docs = run.docs /\ r.kept = run.kept /\ r.targets = run.targets /\ r.bad = run.bad
    BY <1>2, <2>3 DEF Runs, Points
  <2>5. session' \in Sessions /\ SameDestinations /\ session'.copies = session.copies
    <3> PICK A : A = session.attempted \cup {receipt}
      OBVIOUS
    <3>1. A \in SUBSET ((Ids(Docs) \X Imports) \cup (Ids(Queries) \X Content))
      BY <1>2, <2>3 DEF Sessions
    <3>2. session' = [session EXCEPT !.attempted = A]
      BY <1>4
    <3> QED
      BY <1>2, <3>1, <3>2 DEF Sessions, SameDestinations
  <2>6. run' # None /\ run'.at \notin Early
    BY <1>4, <2>4, ContentAssumption DEF Early
  <2>7. ReviewInv'
    <3>1. \A x \in Queries : run'.kept[x] # None => QueryAction(x) = "keep"
      BY <1>1, <1>4, <2>4 DEF ImportInv, ReviewInv
    <3> QED
      BY <1>1, <2>5, <2>6, <3>1, ReviewKept DEF SameDestinations, history
  <2>8. QueriesInv'
    <3>1. Query' = q
      BY <1>4, <2>4 DEF Query
    <3>2. QueryAction(q)' = "replace" /\ snapshot' = snapshot
      BY <1>1, <1>4, PanelSame
    <3>3. QueryAction(Query)' = "replace"
      BY <3>1, <3>2 DEF QueryAction, QueryStatus
    <3>4. SelectedQueries(Written)' = SelectedQueries(Written)
      BY <2>5 DEF SameDestinations, Written, SelectedQueries
    <3> QED
      BY <1>4, <2>1, <2>4, <3>1, <3>2, <3>3, <3>4 DEF QueriesInv
  <2>9. DashboardsInv'
    BY <1>1, <1>4, <2>4, <2>5 DEF ImportInv, DashboardsInv, SameDestinations
  <2>10. CopiesGrow /\ UNCHANGED <<server, panel, stray, approved, overwrote, stored>>
    BY <1>1, <2>5, CopiesSame DEF history
  <2>11. changed' \subseteq Ids(Queries)
    BY <1>1, <1>2 DEF history
  <2> QED
    BY <1>1, <1>2, <1>4, <2>4, <2>5, <2>6, <2>7, <2>8, <2>9, <2>10, <2>11, QuietStep DEF RunInv
<1> QED
  BY <1>1, <1>3, <1>4

-----------------------------------------------------------------------------
(* The dashboards.                                                         *)

(* An attempt that goes on to its dashboards, or from one to the next. *)
LEMMA NextDashboard ==
  ASSUME ImportInv, run # None, UNCHANGED <<panel, approved>>,
         session'.actions = session.actions,
         session.completed \subseteq session'.completed,
         run' \in Runs, run'.at \in {"dashboard", "finish"}, run'.docs \subseteq run.docs,
         run.at \in {"dashboard", "verify", "read", "save", "confirm"},
         run'.docs \subseteq Docs \ session'.completed,
         run'.kept = run.kept, run'.targets = run.targets, run'.bad = run.bad
  PROVE  RunInv'
<1>1. run' # None
  BY ContentAssumption
<1>2. ReviewInv'
  <2>1. \A x \in Queries : run'.kept[x] # None => QueryAction(x) = "keep"
    BY DEF ImportInv, ReviewInv
  <2> QED
    BY <1>1, <2>1, ReviewKept
<1>3. /\ run.docs \subseteq Written
      /\ \A q \in SelectedQueries(run.docs) \ run.bad : run.targets[q] # None
  BY DEF ImportInv, DashboardsInv
<1>4. run'.docs \subseteq Written'
  BY <1>3 DEF Written
<1>5. SelectedQueries(run'.docs) \subseteq SelectedQueries(run.docs)
  BY DEF SelectedQueries
<1>6. SelectedQueries(run.docs)' = SelectedQueries(run'.docs)
  BY DEF SelectedQueries
<1>7. QueriesInv' /\ DashboardsInv'
  BY <1>3, <1>4, <1>5, <1>6 DEF QueriesInv, DashboardsInv
<1> QED
  BY <1>2, <1>7 DEF RunInv

LEMMA DashboardFailedTyped ==
  ASSUME ImportInv, run # None, DashboardFailed
  PROVE  /\ run' \in Runs /\ run'.at = "dashboard" /\ run'.docs = DocsLeft
         /\ run'.docs \subseteq run.docs
         /\ run'.kept = run.kept /\ run'.targets = run.targets /\ run'.bad = run.bad
<1> PICK D : D = DocsLeft
  OBVIOUS
<1>1. run \in Runs
  BY RunTyped
<1>2. D \subseteq run.docs /\ D \subseteq Docs
  BY <1>1 DEF DocsLeft, Runs
<1>3. run' = [run EXCEPT !.at = "dashboard", !.docs = D]
  BY DEF DashboardFailed
<1> QED
  BY <1>1, <1>2, <1>3 DEF Runs, Points

LEMMA DashboardSkipped ==
  ASSUME ImportInv, run # None, run.at \in {"verify", "read", "confirm"},
         DashboardFailed,
         UNCHANGED <<server, panel, session, stray, history, tries, clicks>>,
         trouble' \in 0 .. MaxTrouble
  PROVE  Safe
<1>1. /\ run' \in Runs /\ run'.at = "dashboard" /\ run'.docs \subseteq run.docs
      /\ run'.kept = run.kept /\ run'.targets = run.targets /\ run'.bad = run.bad
  BY DashboardFailedTyped
<1>2. run'.docs \subseteq Docs \ session'.completed
  BY <1>1 DEF ImportInv, DashboardsInv
<1>3. UNCHANGED <<panel, approved>> /\ changed' \subseteq Ids(Queries)
  BY DEF history, ImportInv, TypeOK
<1>4. RunInv'
  BY <1>1, <1>2, <1>3, NextDashboard
<1> QED
  BY <1>1, <1>3, <1>4, RunStep DEF Early, RunInv, history

LEMMA BeginDashboardsKeeps ==
  ASSUME ImportInv, BeginDashboards
  PROVE  Safe
<1> PICK W : W = Written
  OBVIOUS
<1> PICK r : r = [run EXCEPT !.at = "dashboard", !.docs = W]
  OBVIOUS
<1>1. /\ run # None /\ run.at = "query" /\ run.queries = {} /\ run' = r
      /\ UNCHANGED <<server, panel, session, stray, history, tries, clicks, trouble>>
  BY DEF BeginDashboards
<1>2. /\ run \in Runs /\ trouble \in 0 .. MaxTrouble /\ changed \subseteq Ids(Queries)
      /\ W \subseteq Docs \ session.completed /\ W \subseteq Docs
  BY <1>1, RunTyped DEF ImportInv, TypeOK, Written
<1>3. /\ r \in Runs /\ r.at = "dashboard" /\ r.docs = W /\ r.kept = run.kept
      /\ r.targets = run.targets /\ r.bad = run.bad
  BY <1>2 DEF Runs, Points
<1>4. Written' = W /\ SelectedQueries(run.docs)' = SelectedQueries(W)
  BY <1>1, <1>3 DEF Written, SelectedQueries
<1>5. \A q \in SelectedQueries(W) \ run.bad : run.targets[q] # None
  BY <1>1 DEF ImportInv, QueriesInv
<1>6. QueriesInv' /\ DashboardsInv'
  BY <1>1, <1>2, <1>3, <1>4, <1>5 DEF QueriesInv, DashboardsInv
<1> QED
  BY <1>1, <1>2, <1>3, <1>6, RunStep DEF Early, history

LEMMA BeginDashboardKeeps ==
  ASSUME ImportInv, BeginDashboard
  PROVE  Safe
<1> PICK a : a = [run EXCEPT !.at = "finish"]
  OBVIOUS
<1> PICK b : b = [run EXCEPT !.docs = DocsLeft]
  OBVIOUS
<1> PICK c : c = [run EXCEPT !.at = "verify", !.refs = Uses[Doc]]
  OBVIOUS
<1>1. /\ run # None /\ run.at = "dashboard" /\ changed' = {}
      /\ \/ run' = a
         \/ run' = b /\ run.docs # {}
         \/ run' = c /\ run.docs # {} /\ Uses[Doc] \cap run.bad = {}
      /\ UNCHANGED <<server, panel, session, stray, approved, overwrote, stored, tries, clicks, trouble>>
  BY DEF BeginDashboard
<1>2. /\ run \in Runs /\ trouble \in 0 .. MaxTrouble /\ changed' \subseteq Ids(Queries)
      /\ run.docs \subseteq Docs \ session.completed
  BY <1>1, RunTyped DEF ImportInv, TypeOK, DashboardsInv
<1>3. CASE run' = a
  <2>1. /\ a \in Runs /\ a.at = "finish" /\ a.docs = run.docs /\ a.kept = run.kept
        /\ a.targets = run.targets /\ a.bad = run.bad
    BY <1>2 DEF Runs, Points
  <2>2. RunInv'
    BY <1>1, <1>2, <1>3, <2>1, NextDashboard
  <2> QED
    BY <1>1, <1>2, <1>3, <2>1, <2>2, RunStep DEF Early, RunInv
<1>4. CASE run' = b
  <2>1. DocsLeft \subseteq run.docs /\ DocsLeft \subseteq Docs
    BY <1>2 DEF DocsLeft
  <2>2. /\ b \in Runs /\ b.at = "dashboard" /\ b.docs = DocsLeft /\ b.kept = run.kept
        /\ b.targets = run.targets /\ b.bad = run.bad
    BY <1>1, <1>2, <2>1 DEF Runs
  <2>3. RunInv'
    BY <1>1, <1>2, <1>4, <2>1, <2>2, NextDashboard
  <2> QED
    BY <1>1, <1>2, <1>4, <2>2, <2>3, RunStep DEF Early, RunInv
<1>5. CASE run' = c /\ run.docs # {} /\ Uses[Doc] \cap run.bad = {}
  <2>1. Doc \in Docs /\ Uses[Doc] \subseteq Queries
    BY <1>2, <1>5, DocIn, BundleAssumption
  <2>2. /\ c \in Runs /\ c.at = "verify" /\ c.docs = run.docs /\ c.kept = run.kept
        /\ c.targets = run.targets /\ c.bad = run.bad /\ c.refs = Uses[Doc]
    BY <1>2, <2>1 DEF Runs, Points
  <2>3. Doc' = Doc /\ Written' = Written /\ SelectedQueries(run.docs)' = SelectedQueries(run.docs)
    BY <1>1, <1>5, <2>2 DEF Doc, Written, SelectedQueries
  <2>4. QueriesInv'
    BY <1>5, <2>2 DEF QueriesInv
  <2>5. DashboardsInv'
    BY <1>1, <1>5, <2>2, <2>3 DEF ImportInv, DashboardsInv
  <2> QED
    BY <1>1, <1>2, <1>5, <2>2, <2>4, <2>5, RunStep DEF Early
<1> QED
  BY <1>1, <1>3, <1>4, <1>5

LEMMA VerifyQueryKeeps ==
  ASSUME ImportInv, VerifyQuery
  PROVE  Safe
<1> PICK at : at = IF session.actions[Doc] = "replace" THEN "read" ELSE "save"
  OBVIOUS
<1> PICK a : a = [run EXCEPT !.etag = None, !.at = at]
  OBVIOUS
<1>1. /\ run # None /\ run.at = "verify"
      /\ \/ run' = a /\ run.refs = {}
         \/ \E q \in run.refs : Verified(q) /\ run' = [run EXCEPT !.refs = run.refs \ {q}]
         \/ DashboardFailed
      /\ UNCHANGED <<server, panel, session, stray, history, tries, clicks, trouble>>
  BY DEF VerifyQuery
<1>2. /\ run \in Runs /\ trouble \in 0 .. MaxTrouble /\ changed' \subseteq Ids(Queries)
  BY <1>1, RunTyped DEF ImportInv, TypeOK, history
<1>3. CASE DashboardFailed
  BY <1>1, <1>2, <1>3, DashboardSkipped
<1>4. CASE run' = a /\ run.refs = {}
  <2>1. /\ a \in Runs /\ a.at \in {"read", "save"} /\ a.docs = run.docs /\ a.kept = run.kept
        /\ a.targets = run.targets /\ a.bad = run.bad /\ a.refs = {} /\ a.etag = None
        /\ a.current = run.current
    BY <1>2, <1>4 DEF Runs, Points, Content
  <2>2. Doc' = Doc /\ Written' = Written /\ SelectedQueries(run.docs)' = SelectedQueries(run.docs)
    BY <1>1, <1>4, <2>1 DEF Doc, Written, SelectedQueries
  <2>3. QueriesInv'
    BY <1>4, <2>1 DEF QueriesInv
  <2>4. DashboardsInv'
    BY <1>1, <1>4, <2>1, <2>2 DEF ImportInv, DashboardsInv, server, history
  <2> QED
    BY <1>1, <1>2, <1>4, <2>1, <2>3, <2>4, RunStep DEF Early, history
<1>5. ASSUME NEW q \in run.refs, Verified(q), run' = [run EXCEPT !.refs = run.refs \ {q}]
      PROVE  Safe
  <2> PICK R : R = run.refs \ {q}
    OBVIOUS
  <2>1. R \subseteq Queries
    BY <1>2 DEF Runs
  <2>2. /\ run' \in Runs /\ run'.at = "verify" /\ run'.docs = run.docs /\ run'.kept = run.kept
        /\ run'.targets = run.targets /\ run'.bad = run.bad /\ run'.refs = R
        /\ run'.current = run.current
    BY <1>1, <1>2, <1>5, <2>1 DEF Runs
  <2>3. Doc' = Doc /\ Written' = Written /\ SelectedQueries(run.docs)' = SelectedQueries(run.docs)
    BY <1>1, <2>2 DEF Doc, Written, SelectedQueries
  <2>4. QueriesInv'
    BY <2>2 DEF QueriesInv
  <2>5. \A x \in Uses[Doc] \ R : \/ run.targets[x] \in changed
                                 \/ query[run.targets[x]] = run.current[run.targets[x]]
    BY <1>1, <1>5 DEF ImportInv, DashboardsInv, Verified
  <2>6. DashboardsInv'
    BY <1>1, <2>2, <2>3, <2>5 DEF ImportInv, DashboardsInv, server, history
  <2> QED
    BY <1>1, <1>2, <2>2, <2>4, <2>6, RunStep DEF Early, history
<1> QED
  BY <1>1, <1>3, <1>4, <1>5

(* What the provers need to know of the document an attempt writes. *)
LEMMA TargetTyped ==
  ASSUME ImportInv, run # None, NEW d \in Docs
  PROVE  /\ Target(d) \in Imports /\ Target(d) \notin Foreign \cup {None} /\ Target(d).of = d
         /\ \A e \in Links[d] : Target(d).links[e] = session.ids[e]
<1>1. run \in Runs /\ session \in Sessions /\ mapping \in Providers
  BY RunTyped
<1>2. Uses[d] \subseteq Queries /\ Links[d] \subseteq Docs
  BY BundleAssumption
<1> PICK refs : refs = [q \in Uses[d] |-> run.targets[q]]
  OBVIOUS
<1> PICK links : links = [e \in Links[d] |-> session.ids[e]]
  OBVIOUS
<1>3. /\ refs \in [Uses[d] -> Ids(Queries) \cup {None}]
      /\ links \in [Links[d] -> Ids(Docs) \cup {None}]
  BY <1>1, <1>2 DEF Runs, Sessions
<1>4. Target(d) = [of |-> d, via |-> mapping, refs |-> refs, links |-> links]
  BY DEF Target
<1>5. Target(d) \in Imports
  BY <1>1, <1>3, <1>4 DEF Imports
<1> QED
  BY <1>4, <1>5, ContentAssumption

LEMMA ImportFields ==
  ASSUME NEW c \in Imports
  PROVE  c.of \in Docs /\ c \notin Foreign \cup {None}
  BY ContentAssumption DEF Imports

(* An attempt reports the dashboard it works on. *)
LEMMA DashboardReported ==
  ASSUME ImportInv, run # None, run.at \in {"read", "save", "confirm"},
         UNCHANGED <<panel, approved>>,
         session' \in Sessions, session'.ids = session.ids, session'.actions = session.actions,
         session'.completed = session.completed \cup {Doc}, session'.copies = session.copies,
         session.locked => session'.locked,
         run' = [run EXCEPT !.at = "dashboard", !.docs = DocsLeft]
  PROVE  /\ RunInv' /\ DestinationsInv' /\ CopiesGrow /\ run' \in Runs
         /\ Doc \in Docs \ session.completed /\ session.actions[Doc] # "keep"
         /\ session.ids[Doc] \in Ids(Docs)
<1>1. /\ run \in Runs /\ run.docs # {} /\ run.docs \subseteq Written
  BY RunTyped DEF ImportInv, DashboardsInv
<1>2. Doc \in run.docs /\ Doc \in Docs \ session.completed /\ session.actions[Doc] # "keep"
  BY <1>1, DocIn DEF Written
<1>3. session.ids[Doc] \in Ids(Docs)
  BY <1>2 DEF ImportInv, DestinationsInv, Ids
<1>4. /\ run' \in Runs /\ run'.at = "dashboard" /\ run'.docs = DocsLeft
      /\ run'.docs \subseteq run.docs
      /\ run'.kept = run.kept /\ run'.targets = run.targets /\ run'.bad = run.bad
  BY DashboardFailedTyped DEF DashboardFailed
<1>5. run'.docs \subseteq Docs \ session'.completed
  BY <1>1, <1>4 DEF DocsLeft, Written
<1>6. RunInv'
  BY <1>4, <1>5, NextDashboard
<1>7. DestinationsInv'
  <2>1. remaining' = remaining
    BY DEF panel
  <2>2. run' # None
    BY <1>4, ContentAssumption
  <2>3. DestinationsInv
    BY DEF ImportInv
  <2> QED
    BY <1>4, <2>1, <2>2, <2>3 DEF DestinationsInv
<1> QED
  BY <1>2, <1>3, <1>4, <1>6, <1>7, CopiesSame

(* It reads the dashboard back as it wrote it. *)
LEMMA DashboardConfirmed ==
  ASSUME ImportInv, run # None, run.at \in {"read", "confirm"}, DashboardDone(Doc),
         dash[session.ids[Doc]] = Target(Doc),
         UNCHANGED <<server, panel, stray, history, tries, clicks, trouble>>
  PROVE  Safe
<1> PICK C : C = session.completed \cup {Doc}
  OBVIOUS
<1>1. /\ run \in Runs /\ session \in Sessions /\ run.docs # {} /\ Doc \in Docs
  BY RunTyped, DocIn DEF ImportInv, DashboardsInv
<1>2. C \subseteq Docs /\ session' = [session EXCEPT !.completed = C]
  BY <1>1 DEF DashboardDone, Sessions
<1>3. /\ session' \in Sessions /\ session'.ids = session.ids /\ session'.actions = session.actions
      /\ session'.completed = session.completed \cup {Doc} /\ session'.copies = session.copies
      /\ session'.locked = session.locked
  BY <1>1, <1>2 DEF Sessions
<1>4. run' = [run EXCEPT !.at = "dashboard", !.docs = DocsLeft]
  BY DEF DashboardDone
<1>5. UNCHANGED <<panel, approved, overwrote, stored, changed>> /\ UNCHANGED <<dash, query, elsewhere>>
  BY DEF history, server
<1>6. /\ RunInv' /\ DestinationsInv' /\ CopiesGrow /\ run' \in Runs
      /\ Doc \in Docs \ session.completed /\ session.actions[Doc] # "keep"
      /\ session.ids[Doc] \in Ids(Docs)
  BY <1>3, <1>4, <1>5, DashboardReported
<1>7. TypeOK'
  BY <1>3, <1>5, <1>6 DEF ImportInv, TypeOK, panel
<1>8. CopiesInv' /\ StoredInv' /\ StrayInv'
  BY <1>3, <1>5, <1>6, CopiesKept, StoredKept, StrayKept
<1>9. OneCopyPerDefinition'
  BY <1>7, <1>8, OneCopy, PTL
<1>10. ReplacesReviewed' /\ Checked
  BY <1>5 DEF ImportInv, ReplacesReviewed, Checked
<1>11. stored[Doc] # {}
  <2>1. Target(Doc) \in Imports /\ Target(Doc).of = Doc
    BY <1>1, TargetTyped
  <2> QED
    BY <1>6, <2>1 DEF ImportInv, StoredInv
<1>12. Ledger!Next
  BY <1>3, <1>5, <1>6, <1>11, LedgerReports DEF Sessions
<1> QED
  BY <1>6, <1>7, <1>8, <1>9, <1>10, <1>12 DEF Safe, ImportInv, RunInv

LEMMA ConfirmDashboardKeeps ==
  ASSUME ImportInv, ConfirmDashboard
  PROVE  Safe
<1>1. /\ run # None /\ run.at = "confirm"
      /\ \/ dash[session.ids[Doc]] = Target(Doc) /\ DashboardDone(Doc)
         \/ DashboardFailed /\ UNCHANGED session
      /\ UNCHANGED <<server, panel, stray, history, tries, clicks, trouble>>
  BY DEF ConfirmDashboard, Confirms
<1>2. trouble \in 0 .. MaxTrouble
  BY DEF ImportInv, TypeOK
<1> QED
  BY <1>1, <1>2, DashboardConfirmed, DashboardSkipped

LEMMA ReadDashboardKeeps ==
  ASSUME ImportInv, ReadDashboard
  PROVE  Safe
<1> PICK fresh : fresh = dash[Own(Doc)]
  OBVIOUS
<1> PICK r : r = [run EXCEPT !.at = "save", !.etag = fresh]
  OBVIOUS
<1>1. /\ run # None /\ run.at = "read"
      /\ \/ fresh = Target(Doc) /\ DashboardDone(Doc)
         \/ Reviewed(Doc, fresh) /\ run' = r /\ UNCHANGED session
         \/ DashboardFailed /\ UNCHANGED session
      /\ UNCHANGED <<server, panel, stray, history, tries, clicks, trouble>>
  BY DEF ReadDashboard
<1>2. trouble \in 0 .. MaxTrouble /\ changed' \subseteq Ids(Queries) /\ dash \in [Ids(Docs) -> Contents]
  BY <1>1 DEF ImportInv, TypeOK, history
<1>3. /\ run \in Runs /\ session \in Sessions /\ run.docs # {} /\ run.docs \subseteq Written
  BY <1>1, RunTyped DEF ImportInv, DashboardsInv
<1>4. Doc \in run.docs /\ Doc \in Docs
  BY <1>3, DocIn
<1>5. session.actions[Doc] = "replace" /\ session.ids[Doc] = Own(Doc)
  BY <1>1, <1>4 DEF ImportInv, DashboardsInv, DestinationsInv
<1>6. CASE fresh = Target(Doc) /\ DashboardDone(Doc)
  BY <1>1, <1>5, <1>6, DashboardConfirmed
<1>7. CASE DashboardFailed /\ UNCHANGED session
  BY <1>1, <1>2, <1>7, DashboardSkipped
<1>8. CASE Reviewed(Doc, fresh) /\ run' = r /\ UNCHANGED session
  <2>1. fresh \in Contents /\ fresh = snapshot.dash[Doc]
    BY <1>2, <1>4, <1>8, OwnIn DEF Reviewed
  <2>2. /\ r \in Runs /\ r.at = "save" /\ r.docs = run.docs /\ r.kept = run.kept
        /\ r.targets = run.targets /\ r.bad = run.bad /\ r.refs = run.refs /\ r.etag = fresh
        /\ r.current = run.current
    BY <1>3, <2>1 DEF Runs, Points
  <2>3. Doc' = Doc /\ Written' = Written /\ SelectedQueries(run.docs)' = SelectedQueries(run.docs)
    BY <1>8, <2>2 DEF Doc, Written, SelectedQueries
  <2>4. QueriesInv'
    BY <1>8, <2>2 DEF QueriesInv
  <2>5. snapshot' = snapshot /\ query' = query /\ changed' = changed
    BY <1>1 DEF panel, server, history
  <2>6. DashboardsInv'
    BY <1>1, <1>5, <1>8, <2>1, <2>2, <2>3, <2>5 DEF ImportInv, DashboardsInv
  <2> QED
    BY <1>1, <1>2, <1>8, <2>2, <2>4, <2>6, RunStep DEF Early, history
<1> QED
  BY <1>1, <1>6, <1>7, <1>8

LEMMA FinishKeeps ==
  ASSUME ImportInv, Finish
  PROVE  Safe
<1> PICK K : K = {d \in Docs \ session.completed : session.actions[d] = "keep"}
  OBVIOUS
<1> PICK C : C = session.completed \cup K
  OBVIOUS
<1>1. /\ run # None /\ run.at = "finish" /\ run' = None
      /\ session' = [session EXCEPT !.completed = C]
      /\ remaining' = Docs \ session'.completed
      /\ lockedActions' = IF session.locked THEN [d \in Docs |-> DashboardAction(d)] ELSE lockedActions
      /\ UNCHANGED <<dash, query, elsewhere, snapshot, dashboardChoices, queryChoices, mapping, stray,
                     approved, overwrote, stored, changed, tries, clicks, trouble>>
  BY DEF Finish, server, history
<1>2. session \in Sessions /\ C \subseteq Docs
  BY <1>1, RunTyped DEF Sessions
<1>3. /\ session' \in Sessions /\ session'.ids = session.ids /\ session'.actions = session.actions
      /\ session'.completed = C /\ session'.copies = session.copies
      /\ session'.locked = session.locked
  BY <1>1, <1>2 DEF Sessions
<1>4. lockedActions' \in [Docs -> Actions \cup {None}]
  BY <1>1 DEF ImportInv, TypeOK, DashboardAction, Actions
<1>5. TypeOK'
  BY <1>1, <1>3, <1>4 DEF ImportInv, TypeOK
<1>6. CopiesGrow
  BY <1>3, CopiesSame
<1>7. CopiesInv' /\ StoredInv' /\ StrayInv'
  BY <1>1, <1>3, <1>6, CopiesKept, StoredKept, StrayKept
<1>8. OneCopyPerDefinition'
  BY <1>5, <1>7, OneCopy, PTL
<1>9. DestinationsInv'
  BY <1>1, <1>3 DEF ImportInv, DestinationsInv
<1>10. RunInv'
  BY <1>1 DEF RunInv, ReviewInv, QueriesInv, DashboardsInv
<1>11. ReplacesReviewed'
  BY <1>1 DEF ImportInv, ReplacesReviewed
<1>12. Ledger!Next
  BY <1>1, <1>2, <1>3, LedgerKeeps DEF Sessions
<1>13. Checked
  BY <1>1 DEF Checked
<1> QED
  BY <1>5, <1>7, <1>8, <1>9, <1>10, <1>11, <1>12, <1>13 DEF Safe, ImportInv, RunInv

-----------------------------------------------------------------------------
(* The panel.                                                              *)

(* While no attempt runs the operator's choices disturb nothing. *)
LEMMA PanelStep ==
  ASSUME ImportInv, run = None, run' = None, TypeOK',
         UNCHANGED <<dash, query, remaining, session, stray, approved, overwrote, stored>>
  PROVE  Safe
<1>1. CopiesGrow
  BY CopiesSame
<1>2. CopiesInv' /\ StoredInv' /\ StrayInv'
  BY <1>1, CopiesKept, StoredKept, StrayKept
<1>3. OneCopyPerDefinition'
  BY <1>2, OneCopy, PTL
<1>4. DestinationsInv' /\ ReplacesReviewed'
  BY DEF ImportInv, DestinationsInv, ReplacesReviewed
<1>5. RunInv'
  BY DEF RunInv, ReviewInv, QueriesInv, DashboardsInv
<1>6. Checked /\ UNCHANGED LedgerVars
  BY LedgerStutters DEF Checked
<1> QED
  BY <1>2, <1>3, <1>4, <1>5, <1>6 DEF Safe, ImportInv, RunInv

LEMMA ClickTyped ==
  ASSUME ImportInv, Choosing
  PROVE  clicks' \in 0 .. MaxClicks /\ run = None
<1>1. clicks \in 0 .. MaxClicks /\ clicks < MaxClicks /\ clicks' = clicks + 1 /\ MaxClicks \in Nat
  BY BundleAssumption DEF Choosing, ImportInv, TypeOK
<1> QED
  BY <1>1 DEF Choosing

LEMMA ChoicesKeep ==
  ASSUME ImportInv,
         \/ \E d \in Docs, a \in Actions : ChooseDashboard(d, a)
         \/ \E q \in Queries, a \in Actions \cup {"create"} : ChooseQuery(q, a)
         \/ \E p \in Providers : ChooseProvider(p)
  PROVE  Safe
<1>1. ASSUME NEW d \in Docs, NEW a \in Actions, ChooseDashboard(d, a)
      PROVE  Safe
  <2>1. /\ clicks' \in 0 .. MaxClicks /\ run = None
        /\ dashboardChoices' = [dashboardChoices EXCEPT ![d] = a]
        /\ UNCHANGED <<server, snapshot, queryChoices, mapping, remaining, lockedActions,
                       session, run, stray, history, tries, trouble>>
    BY <1>1, ClickTyped DEF ChooseDashboard
  <2>2. TypeOK'
    BY <2>1 DEF ImportInv, TypeOK, server, history
  <2> QED
    BY <2>1, <2>2, PanelStep DEF server, history
<1>2. ASSUME NEW q \in Queries, NEW a \in Actions \cup {"create"}, ChooseQuery(q, a)
      PROVE  Safe
  <2> PICK c : c = IF a = "create" THEN None ELSE a
    OBVIOUS
  <2>1. /\ clicks' \in 0 .. MaxClicks /\ run = None
        /\ queryChoices' = [queryChoices EXCEPT ![q] = c]
        /\ UNCHANGED <<server, snapshot, dashboardChoices, mapping, remaining, lockedActions,
                       session, run, stray, history, tries, trouble>>
    BY <1>2, ClickTyped DEF ChooseQuery
  <2>2. c \in Actions \cup {None}
    OBVIOUS
  <2>3. TypeOK'
    BY <2>1, <2>2 DEF ImportInv, TypeOK, server, history
  <2> QED
    BY <2>1, <2>3, PanelStep DEF server, history
<1>3. ASSUME NEW p \in Providers, ChooseProvider(p)
      PROVE  Safe
  <2>1. /\ clicks' \in 0 .. MaxClicks /\ run = None /\ mapping' = p
        /\ UNCHANGED <<server, snapshot, dashboardChoices, queryChoices, remaining, lockedActions,
                       session, run, stray, history, tries, trouble>>
    BY <1>3, ClickTyped DEF ChooseProvider
  <2>2. TypeOK'
    BY <2>1 DEF ImportInv, TypeOK, server, history
  <2> QED
    BY <2>1, <2>2, PanelStep DEF server, history
<1> QED
  BY <1>1, <1>2, <1>3

LEMMA RefreshReviewKeeps ==
  ASSUME ImportInv, RefreshReview
  PROVE  Safe
<1>1. /\ run = None
      /\ UNCHANGED <<server, mapping, remaining, lockedActions, session, run, stray, history,
                     tries, clicks, trouble>>
  BY DEF RefreshReview
<1> PICK f : f = [d \in Docs |-> dash[Own(d)]]
  OBVIOUS
<1> PICK g : g = [q \in Queries |-> query[Own(q)]]
  OBVIOUS
<1>2. f \in [Docs -> Contents] /\ g \in [Queries -> Content]
  BY OwnIn DEF ImportInv, TypeOK
<1>3. snapshot' \in Snapshots
  <2>1. snapshot' = [dash |-> f, query |-> g]
    BY DEF RefreshReview
  <2> QED
    BY <1>2, <2>1 DEF Snapshots
<1>4. /\ dashboardChoices' \in [Docs -> Actions \cup {None}]
      /\ queryChoices' \in [Queries -> Actions \cup {None}]
  BY DEF RefreshReview, ImportInv, TypeOK, Actions
<1>5. TypeOK'
  BY <1>1, <1>3, <1>4 DEF ImportInv, TypeOK, server, history
<1> QED
  BY <1>1, <1>5, PanelStep DEF server, history

(* The choices enter the session: no destination moves once one may be in  *)
(* use, and everything this attempt may replace has been agreed to.        *)
LEMMA ImportBundleKeeps ==
  ASSUME ImportInv, ImportBundle
  PROVE  Safe
<1> DEFINE open   == Docs \ session.completed
           minted == {d \in open : Reidentified(d) /\ DashboardAction(d) = "copy"}
<1> PICK A : A = [d \in Docs |-> IF d \in open THEN DashboardAction(d) ELSE session.actions[d]]
  OBVIOUS
<1> PICK M : M = [x \in Docs \cup Queries |-> IF x \in minted THEN session.minted[x] + 1
                                              ELSE session.minted[x]]
  OBVIOUS
<1> PICK I : I = [d \in Docs |->
                    IF d \in open /\ Reidentified(d)
                    THEN IF d \in minted THEN <<d, session.minted[d] + 1>> ELSE Own(d)
                    ELSE session.ids[d]]
  OBVIOUS
<1> PICK r : r = [at |-> "list", docs |-> open, queries |-> {},
                  current |-> [i \in Ids(Queries) |-> None],
                  kept |-> [q \in Queries |-> None], targets |-> [q \in Queries |-> None],
                  bad |-> {}, refs |-> {}, etag |-> None]
  OBVIOUS
<1> PICK N : N = approved
           \cup {<<Own(d), snapshot.dash[d]>> : d \in {e \in remaining : DashboardAction(e) = "replace"}}
           \cup {<<Own(q), snapshot.query[q]>> : q \in {x \in Queries : QueryAction(x) = "replace"}}
  OBVIOUS
<1>1. /\ snapshot # None /\ run = None /\ tries < MaxTries /\ tries' = tries + 1
      /\ \A d \in open : session.locked /\ session.actions[d] # None
                            => (session.actions[d] = "copy") = (DashboardAction(d) = "copy")
      /\ \A d \in minted : session.minted[d] < MaxIds
      /\ session' = [session EXCEPT !.actions = A, !.minted = M, !.ids = I]
      /\ run' = r /\ approved' = N
      /\ UNCHANGED <<server, panel, stray, overwrote, stored, changed, clicks, trouble>>
  BY DEF ImportBundle, Blocked
<1>2. /\ TypeOK /\ session \in Sessions /\ DestinationsInv /\ remaining = open
      /\ MaxIds \in Nat /\ MaxTries \in Nat /\ tries \in Nat
  <2>1. TypeOK /\ DestinationsInv /\ session \in Sessions
    BY DEF ImportInv, TypeOK
  <2>2. remaining = open
    BY <1>1, <2>1 DEF DestinationsInv
  <2>3. MaxIds \in Nat /\ MaxTries \in Nat
    BY BundleAssumption
  <2>4. tries \in Nat
    BY <2>1, <2>3 DEF TypeOK
  <2> QED
    BY <2>1, <2>2, <2>3, <2>4
<1>3. ASSUME NEW d \in Docs
      PROVE  DashboardAction(d) \in Actions /\ DashboardAction(d) # None
  BY <1>2, ContentAssumption DEF DashboardAction, TypeOK, Actions
<1>4. A \in [Docs -> Actions \cup {None}] /\ M \in [Docs \cup Queries -> 0 .. MaxIds]
  <2>1. ASSUME NEW x \in Docs \cup Queries
        PROVE  M[x] \in 0 .. MaxIds
    <3>1. session.minted[x] \in 0 .. MaxIds
      BY <1>2 DEF Sessions
    <3> QED
      BY <1>1, <1>2, <3>1
  <2> QED
    BY <1>2, <1>3, <2>1 DEF Sessions
<1>5. ASSUME NEW d \in Docs
      PROVE  /\ I[d] \in Ids({d}) \cup {None} /\ I[d] \in Ids(Docs) \cup {None}
             /\ d \in open => I[d] # None /\ A[d] = DashboardAction(d)
             /\ d \notin open => I[d] = session.ids[d] /\ A[d] = session.actions[d]
             /\ d \in open /\ A[d] \in {"keep", "replace"} => I[d] = Own(d)
             /\ session.locked => I[d] = session.ids[d]
  <2>1. /\ session.ids[d] \in Ids({d}) \cup {None}
        /\ session.ids[d] = None <=> session.actions[d] = None
        /\ session.actions[d] \in {"keep", "replace"} => session.ids[d] = Own(d)
        /\ session.locked => session.ids[d] # None
        /\ session.actions[d] \in Actions \cup {None}
    BY <1>2 DEF DestinationsInv, Sessions
  <2>2. Own(d) \in Ids({d}) /\ Ids({d}) \subseteq Ids(Docs) /\ None \notin Ids({d})
    <3>1. Own(d) \in Ids({d})
      BY OwnIn
    <3>2. Ids({d}) \subseteq Ids(Docs)
      BY DEF Ids
    <3> QED
      BY <3>1, <3>2, ContentAssumption
  <2>3. CASE d \notin open
    BY <2>1, <2>2, <2>3
  <2>4. CASE d \in open /\ ~Reidentified(d)
    <3>1. I[d] = session.ids[d] /\ A[d] = DashboardAction(d) /\ session.ids[d] # None
      BY <2>4 DEF Reidentified
    <3>2. session.actions[d] = "copy" <=> DashboardAction(d) = "copy"
      BY <2>4 DEF Reidentified
    <3>3. A[d] \in {"keep", "replace"} => session.actions[d] \in {"keep", "replace"}
      BY <2>1, <3>1, <3>2 DEF Actions
    <3> QED
      BY <2>1, <2>2, <2>4, <3>1, <3>3
  <2>5. CASE d \in open /\ Reidentified(d)
    <3>1. ~session.locked
      BY <1>1, <2>1, <2>5 DEF Reidentified
    <3>2. A[d] = DashboardAction(d)
      BY <2>5
    <3>3. CASE DashboardAction(d) = "copy"
      <4>1. d \in minted
        BY <2>5, <3>3
      <4>2. session.minted[d] \in 0 .. MaxIds /\ session.minted[d] < MaxIds
        BY <1>1, <1>2, <4>1 DEF Sessions
      <4>3. session.minted[d] + 1 \in 0 .. MaxIds
        BY <1>2, <4>2
      <4>4. I[d] = <<d, session.minted[d] + 1>>
        BY <2>5, <4>1
      <4>5. I[d] \in Ids({d})
        BY <4>3, <4>4 DEF Ids
      <4> QED
        BY <2>2, <2>5, <3>1, <3>2, <3>3, <4>5
    <3>4. CASE DashboardAction(d) # "copy"
      <4>1. I[d] = Own(d)
        BY <2>5, <3>4
      <4> QED
        BY <2>2, <2>5, <3>1, <3>2, <4>1
    <3> QED
      BY <3>3, <3>4
  <2> QED
    BY <2>3, <2>4, <2>5
<1>6. I \in [Docs -> Ids(Docs) \cup {None}]
  BY <1>5
<1>7. /\ session' \in Sessions /\ session'.ids = I /\ session'.actions = A
      /\ session'.completed = session.completed /\ session'.copies = session.copies
      /\ session'.locked = session.locked
  BY <1>1, <1>2, <1>4, <1>6 DEF Sessions
<1>8. session.locked => session'.ids = session.ids
  <2>1. session.ids \in [Docs -> Ids(Docs) \cup {None}]
    BY <1>2 DEF Sessions
  <2> PICK J : J = session.ids
    OBVIOUS
  <2>2. session.locked => \A d \in Docs : I[d] = J[d]
    BY <1>5
  <2>3. session.locked => I = J
    BY <1>6, <2>1, <2>2
  <2> QED
    BY <1>7, <2>3
<1>9. /\ r \in Runs /\ r.at = "list" /\ r.docs = open
      /\ \A q \in Queries : r.kept[q] = None
  BY DEF Runs, Points, Content
<1>10. TypeOK'
  <2>1. tries' \in 0 .. MaxTries
    BY <1>1, <1>2
  <2> QED
    BY <1>1, <1>2, <1>7, <1>9, <2>1 DEF TypeOK, server, panel
<1>11. CopiesGrow /\ approved \subseteq approved'
  BY <1>1, <1>7, CopiesSame
<1>12. CopiesInv' /\ StoredInv' /\ StrayInv'
  BY <1>1, <1>7, <1>8, <1>11, CopiesKept, StoredKept, StrayKept DEF server
<1>13. OneCopyPerDefinition'
  BY <1>10, <1>12, OneCopy, PTL
<1>14. run' # None /\ run'.at = "list"
  BY <1>1, <1>9, ContentAssumption
<1>15. DestinationsInv'
  <2>1. ASSUME NEW d \in Docs
        PROVE  /\ I[d] \in Ids({d}) \cup {None} /\ I[d] # None
               /\ I[d] = None <=> A[d] = None
               /\ A[d] \in {"keep", "replace"} => I[d] = Own(d)
    <3>1. CASE d \in open
      BY <1>3, <1>5, <3>1
    <3>2. CASE d \notin open
      BY <1>2, <1>5, <3>2 DEF DestinationsInv
    <3> QED
      BY <3>1, <3>2
  <2>2. remaining' = Docs \ session'.completed
    BY <1>1, <1>2, <1>7 DEF panel
  <2> QED
    BY <1>7, <2>1, <2>2 DEF DestinationsInv
<1>16. ReviewInv'
  <2>1. \A d \in open : A[d] = DashboardAction(d)
    BY <1>5
  <2>2. \A d \in open : DashboardAction(d) = "replace" => <<Own(d), snapshot.dash[d]>> \in N
    BY <1>2
  <2>3. \A q \in Queries : QueryAction(q) = "replace" => <<Own(q), snapshot.query[q]>> \in N
    OBVIOUS
  <2> QED
    BY <1>1, <1>7, <1>9, <2>1, <2>2, <2>3, PanelSame DEF ReviewInv
<1>17. QueriesInv' /\ DashboardsInv'
  BY <1>1, <1>7, <1>9 DEF QueriesInv, DashboardsInv
<1>18. ReplacesReviewed' /\ Checked
  BY <1>1, <1>11 DEF ImportInv, ReplacesReviewed, Checked
<1>19. UNCHANGED LedgerVars
  <2>1. \A d \in session.completed : A[d] = session.actions[d]
    BY <1>2, <1>5 DEF Sessions
  <2> QED
    BY <1>1, <1>7, <2>1, LedgerStutters
<1> QED
  BY <1>10, <1>12, <1>13, <1>15, <1>16, <1>17, <1>18, <1>19 DEF Safe, ImportInv

-----------------------------------------------------------------------------
(* Writes.                                                                 *)

(* What the attempt sends is approved, and leads where the session says    *)
(* once the session has noted the attempt.                                 *)
LEMMA RequestRightful ==
  ASSUME ImportInv, Writing, approved' = approved, session'.ids = session.ids,
         session'.copies = session.copies, run.at = "save" => session'.locked = TRUE,
         NEW w, w = Request
  PROVE  /\ w \in Requests /\ Rightful(w)'
         /\ run.at = "put" => w.kind = "query"
         /\ run.at = "save" => w.kind = "dashboard" /\ w.doc.of = Doc /\ w.id = session.ids[Doc]
<1>1. run # None /\ run.at \in {"put", "save"} /\ run \in Runs /\ session \in Sessions
  BY RunTyped DEF Writing
<1>2. CASE run.at = "put"
  <2> PICK q : q = Query
    OBVIOUS
  <2>1. w = [kind |-> "query", id |-> run.targets[q], doc |-> Definition(q), etag |-> run.etag]
    BY <1>2 DEF Request
  <2>2. /\ run.queries # {} /\ run.targets[q] \in Ids({q})
        /\ run.targets[q] = IF QueryAction(q) = "copy" THEN MintedCopy(q) ELSE Own(q)
        /\ run.etag # None => QueryAction(q) = "replace" /\ run.etag = snapshot.query[q]
    BY <1>1, <1>2 DEF ImportInv, QueriesInv
  <2>3. q \in Queries /\ run.targets[q] \in Ids(Queries) /\ Definition(q) \in Content
    BY <1>1, <2>2, QueryIn, DefinitionTyped DEF Ids
  <2>4. run.etag \in Content
    <3>1. snapshot \in Snapshots
      BY <1>1, RunTyped
    <3>2. snapshot.query[q] \in Content
      BY <2>3, <3>1 DEF Snapshots
    <3> QED
      BY <2>2, <3>2 DEF Content
  <2>5. w \in Requests /\ w.kind = "query" /\ w.id = run.targets[q] /\ w.doc = Definition(q)
        /\ w.etag = run.etag
    BY <2>1, <2>3, <2>4 DEF Requests
  <2>6. w.etag # None => <<w.id, w.etag>> \in approved
    BY <1>1, <2>2, <2>3, <2>5 DEF ImportInv, ReviewInv
  <2>7. ASSUME w.id[2] > 0
        PROVE  w.doc \in Providers /\ session.copies[<<w.id[1], w.doc>>] = w.id
    <3>1. QueryAction(q) = "copy"
      BY <2>2, <2>5, <2>7 DEF Own
    <3>2. w.id = session.copies[<<q, w.doc>>] /\ w.id[1] = q
      BY <2>2, <2>5, <3>1, IdsFacts DEF MintedCopy
    <3> QED
      BY <1>1, <2>3, <2>5, <3>1, <3>2, DefinitionTyped
  <2> QED
    BY <1>2, <2>5, <2>6, <2>7 DEF Rightful
<1>3. CASE run.at = "save"
  <2> PICK d : d = Doc
    OBVIOUS
  <2>1. w = [kind |-> "dashboard", id |-> session.ids[d], doc |-> Target(d), etag |-> run.etag]
    BY <1>3 DEF Request
  <2>2. /\ run.docs # {} /\ run.docs \subseteq Written
        /\ run.etag # None => session.actions[d] = "replace" /\ run.etag = snapshot.dash[d]
    BY <1>1, <1>3 DEF ImportInv, DashboardsInv
  <2>3. d \in Docs \ session.completed
    BY <1>1, <2>2, DocIn DEF Written
  <2>4. /\ session.ids[d] \in Ids({d}) /\ session.ids[d] \in Ids(Docs)
        /\ session.actions[d] = "replace" => session.ids[d] = Own(d)
    BY <1>1, <2>3 DEF ImportInv, DestinationsInv, Ids
  <2>5. /\ Target(d) \in Imports /\ Target(d).of = d
        /\ \A e \in Links[d] : Target(d).links[e] = session.ids[e]
    BY <1>1, <2>3, TargetTyped
  <2>6. run.etag \in Contents
    <3>1. snapshot \in Snapshots
      BY <1>1, RunTyped
    <3>2. snapshot.dash[d] \in Contents
      BY <2>3, <3>1 DEF Snapshots
    <3> QED
      BY <2>2, <3>2 DEF Contents
  <2> PICK T : T = Target(d)
    OBVIOUS
  <2>7. /\ w \in Requests /\ w.kind = "dashboard" /\ w.id = session.ids[d] /\ w.doc = T
        /\ w.etag = run.etag
    BY <2>1, <2>4, <2>5, <2>6 DEF Requests
  <2>8. w.etag # None => <<w.id, w.etag>> \in approved
    BY <1>1, <2>2, <2>3, <2>4, <2>7 DEF ImportInv, ReviewInv
  <2>9. Linked(w.doc, w.id)'
    BY <1>3, <2>5, <2>7 DEF Linked
  <2> QED
    BY <1>3, <2>5, <2>7, <2>8, <2>9 DEF Rightful
<1> QED
  BY <1>1, <1>2, <1>3

(* The store takes a document that is rightful. *)
TakesDashboard(w) == /\ w.doc.of \in Docs /\ w.id \in Ids(Docs) /\ query' = query
                     /\ stored[w.doc.of] \subseteq {w.id}
                     /\ stored' = [stored EXCEPT ![w.doc.of] = {w.id}]
TakesQuery(w) == /\ w.id \in Ids(Queries) /\ stored' = stored /\ dash' = dash
                 /\ \A i \in Ids(Queries) \ {w.id} : query'[i] = query[i]
LEMMA TakenKeeps ==
  ASSUME ImportInv, NEW w \in Requests, Rightful(w)', Taken(w), approved' = approved,
         session'.ids = session.ids, session'.copies = session.copies,
         session.locked => session'.locked
  PROVE  /\ StoredInv' /\ CopiesInv' /\ ReplacesReviewed'
         /\ dash' \in [Ids(Docs) -> Contents] /\ query' \in [Ids(Queries) -> Content]
         /\ stored' \in [Docs -> SUBSET Ids(Docs)] /\ elsewhere' = elsewhere
         /\ w.kind = "dashboard" => TakesDashboard(w)
         /\ w.kind = "query" => TakesQuery(w)
<1>1. /\ dash \in [Ids(Docs) -> Contents] /\ query \in [Ids(Queries) -> Content]
      /\ stored \in [Docs -> SUBSET Ids(Docs)] /\ w.kind \in {"query", "dashboard"}
  BY DEF ImportInv, TypeOK, Requests
<1>2. ReplacesReviewed'
  BY DEF Taken, Rightful, ImportInv, ReplacesReviewed
<1>3. CopiesGrow
  BY CopiesSame
<1>4. CASE w.kind = "query"
  <2>1. w.id \in Ids(Queries) /\ w.doc \in Content
    BY <1>4 DEF Requests
  <2>2. query' = [query EXCEPT ![w.id] = w.doc] /\ UNCHANGED <<dash, elsewhere, stored>>
    BY <1>4 DEF Taken
  <2>3. query' \in [Ids(Queries) -> Content] /\ query'[w.id] = w.doc
        /\ \A i \in Ids(Queries) \ {w.id} : query'[i] = query[i]
    BY <1>1, <2>1, <2>2
  <2>4. StoredInv'
    BY <2>2, StoredKept
  <2>5. CopiesInv'
    <3>1. ASSUME NEW i \in Ids(Queries), i[2] > 0, query'[i] \in Providers
          PROVE  session'.copies[<<i[1], query'[i]>>] = i
      <4>1. CASE i = w.id
        BY <1>4, <2>3, <3>1, <4>1 DEF Rightful
      <4>2. CASE i # w.id
        BY <2>3, <3>1, <4>2 DEF ImportInv, CopiesInv
      <4> QED
        BY <4>1, <4>2
    <3> QED
      BY <1>3, <3>1 DEF CopiesInv, CopiesGrow
  <2> QED
    BY <1>1, <1>2, <1>4, <2>1, <2>2, <2>3, <2>4, <2>5 DEF TakesQuery
<1>5. CASE w.kind = "dashboard"
  <2>1. w.id \in Ids(Docs) /\ w.doc \in Imports
    BY <1>5 DEF Requests
  <2> PICK d : d = w.doc.of
    OBVIOUS
  <2>2. d \in Docs
    BY <2>1, ImportFields
  <2>3. /\ dash' = [dash EXCEPT ![w.id] = w.doc] /\ UNCHANGED <<query, elsewhere>>
        /\ stored' = [stored EXCEPT ![d] = stored[d] \cup {w.id}]
    BY <1>5 DEF Taken
  <2>4. Linked(w.doc, w.id)'
    BY <1>5 DEF Rightful
  <2>5. session'.locked /\ w.id = session.ids[d] /\ \A e \in Links[d] : w.doc.links[e] = session.ids[e]
    BY <2>4 DEF Linked
  <2>6. stored[d] \subseteq {w.id}
    BY <2>2, <2>5 DEF ImportInv, StoredInv
  <2>7. stored' = [stored EXCEPT ![d] = {w.id}] /\ stored' \in [Docs -> SUBSET Ids(Docs)]
        /\ stored'[d] = {w.id} /\ \A x \in Docs \ {d} : stored'[x] = stored[x]
    BY <1>1, <2>1, <2>2, <2>3, <2>6
  <2>8. dash' \in [Ids(Docs) -> Contents] /\ dash'[w.id] = w.doc
        /\ \A i \in Ids(Docs) \ {w.id} : dash'[i] = dash[i]
    BY <1>1, <2>1, <2>3 DEF Contents
  <2>9. StoredInv'
    <3>1. \A x \in Docs : stored'[x] \subseteq {session'.ids[x]}
      BY <2>5, <2>7 DEF ImportInv, StoredInv
    <3>2. ASSUME NEW i \in Ids(Docs), NEW c, c = dash'[i], c \in Imports
          PROVE  /\ i = session'.ids[c.of] /\ \A e \in Links[c.of] : c.links[e] = session'.ids[e]
                 /\ i \in stored'[c.of]
      <4>1. CASE i = w.id
        <5>1. c = w.doc /\ c.of = d /\ c.links = w.doc.links
          BY <2>8, <3>2, <4>1
        <5> QED
          BY <2>2, <2>5, <2>7, <4>1, <5>1
      <4>2. CASE i # w.id
        <5>1. c = dash[i] /\ c.of \in Docs
          BY <2>8, <3>2, <4>2, ImportFields
        <5>2. Linked(c, i) /\ i \in stored[c.of]
          BY <3>2, <5>1 DEF ImportInv, StoredInv
        <5>3. c.of # d
          BY <2>6, <4>2, <5>2
        <5>4. stored'[c.of] = stored[c.of]
          BY <2>7, <5>1, <5>3
        <5>5. i = session.ids[c.of] /\ \A e \in Links[c.of] : c.links[e] = session.ids[e]
          BY <5>2 DEF Linked
        <5> QED
          BY <5>2, <5>4, <5>5
      <4> QED
        BY <4>1, <4>2
    <3>3. \A i \in Ids(Docs) : dash'[i] \in Imports =>
             /\ i = session'.ids[dash'[i].of]
             /\ \A e \in Links[dash'[i].of] : dash'[i].links[e] = session'.ids[e]
             /\ i \in stored'[dash'[i].of]
      BY <3>2
    <3>4. session'.locked
      BY <2>5
    <3> QED
      BY <3>1, <3>3, <3>4 DEF StoredInv, Linked
  <2>10. CopiesInv'
    BY <1>3, <2>3, CopiesKept
  <2> QED
    BY <1>1, <1>2, <1>5, <2>1, <2>2, <2>3, <2>6, <2>7, <2>8, <2>9, <2>10 DEF TakesDashboard
<1> QED
  BY <1>1, <1>4, <1>5

(* The parts of the invariant that a write or another writer can disturb *)
Accounted == /\ StoredInv /\ CopiesInv /\ ReplacesReviewed /\ StrayInv
             /\ RunInv /\ DestinationsInv

LEMMA Assembled ==
  ASSUME TypeOK, Accounted
  PROVE  ImportInv
  BY OneCopy DEF Accounted, RunInv, ImportInv

(* What the client is left with when a write was not acknowledged. *)
GivenUp == /\ session' \in Sessions /\ session'.ids = session.ids
           /\ session'.actions = session.actions /\ session'.completed = session.completed
           /\ session'.copies = session.copies
           /\ session.locked => session'.locked
           /\ run.at = "save" => session'.locked = TRUE
           /\ run' \in Runs /\ RunInv' /\ DestinationsInv'

(* The attempt goes on to read back what it tried to write, and from the   *)
(* first dashboard it tried the destinations are fixed.                    *)
LEMMA UnacknowledgedRun ==
  ASSUME ImportInv, Writing, Unacknowledged, UNCHANGED <<panel, approved>>
  PROVE  GivenUp
<1>1. run # None /\ run.at \in {"put", "save"} /\ run \in Runs /\ session \in Sessions
  BY RunTyped DEF Writing
<1> PICK w : w = Request
  OBVIOUS
<1> PICK T : T = session.attempted \cup {<<w.id, w.doc>>}
  OBVIOUS
<1>2. session' = IF run.at = "put" THEN session ELSE [session EXCEPT !.attempted = T, !.locked = TRUE]
  BY DEF Unacknowledged, Attempt
<1>3. /\ session'.ids = session.ids /\ session'.actions = session.actions
      /\ session'.completed = session.completed /\ session'.copies = session.copies
      /\ run.at = "save" => session'.locked = TRUE
  BY <1>1, <1>2 DEF Sessions
<1>4. session.locked => session'.locked
  BY <1>1, <1>2, <1>3
<1>5. session' \in Sessions
  <2>1. CASE run.at = "put"
    BY <1>1, <1>2, <2>1
  <2>2. CASE run.at = "save"
    <3>1. w \in Requests /\ w.kind = "dashboard"
      BY <1>3, <2>2, RequestRightful
    <3>2. <<w.id, w.doc>> \in Ids(Docs) \X Imports
      BY <3>1 DEF Requests
    <3>3. T \in SUBSET ((Ids(Docs) \X Imports) \cup (Ids(Queries) \X Content))
      BY <1>1, <3>2 DEF Sessions
    <3> QED
      BY <1>1, <1>2, <2>2, <3>3 DEF Sessions
  <2> QED
    BY <1>1, <2>1, <2>2
<1> PICK point : point = IF run.at = "put" THEN "confirm query" ELSE "confirm"
  OBVIOUS
<1>6. run' = [run EXCEPT !.at = point]
  BY DEF Unacknowledged
<1>7. /\ run' \in Runs /\ run'.at = point /\ run'.docs = run.docs /\ run'.queries = run.queries
      /\ run'.kept = run.kept /\ run'.targets = run.targets /\ run'.bad = run.bad
  BY <1>1, <1>6 DEF Runs, Points
<1>8. run' # None
  BY <1>7, ContentAssumption
<1>9. Doc' = Doc /\ Query' = Query
  BY <1>7 DEF Doc, Query, First
<1>10. ReviewInv'
  <2>1. \A x \in Queries : run'.kept[x] # None => QueryAction(x) = "keep"
    BY <1>1, <1>7 DEF ImportInv, ReviewInv
  <2> QED
    BY <1>1, <1>3, <1>8, <2>1, ReviewKept
<1>11. Written' = Written /\ SelectedQueries(Written)' = SelectedQueries(Written)
       /\ SelectedQueries(run.docs)' = SelectedQueries(run.docs)
  BY <1>3, <1>7 DEF Written, SelectedQueries
<1>12. QueriesInv'
  <2>1. CASE run.at = "put"
    <3> PICK q : q = Query
      OBVIOUS
    <3>1. /\ run.queries # {} /\ run.targets[q] \in Ids({q})
          /\ run.targets[q] = IF QueryAction(q) = "copy" THEN MintedCopy(q) ELSE Own(q)
          /\ \A x \in SelectedQueries(Written) \ (run.queries \cup run.bad) : run.targets[x] # None
      BY <1>1, <2>1 DEF ImportInv, QueriesInv
    <3>2. MintedCopy(q)' = MintedCopy(q) /\ QueryAction(q)' = QueryAction(q)
      BY <1>3, <1>7, PanelSame DEF MintedCopy, Definition
    <3>3. run'.at = "confirm query"
      BY <1>7, <2>1
    <3> QED
      BY <1>7, <1>9, <1>11, <3>1, <3>2, <3>3 DEF QueriesInv
  <2>2. CASE run.at = "save"
    BY <1>7, <2>2 DEF QueriesInv
  <2> QED
    BY <1>1, <2>1, <2>2
<1>13. DashboardsInv'
  <2>1. CASE run.at = "put"
    BY <1>1, <1>3, <1>7, <2>1 DEF ImportInv, DashboardsInv
  <2>2. CASE run.at = "save"
    <3>1. /\ run.docs \subseteq Docs \ session.completed /\ run.docs \subseteq Written /\ run.docs # {}
          /\ \A q \in SelectedQueries(run.docs) \ run.bad : run.targets[q] # None
      BY <1>1, <2>2 DEF ImportInv, DashboardsInv
    <3>2. run'.at = "confirm"
      BY <1>7, <2>2
    <3> QED
      BY <1>3, <1>7, <1>11, <3>1, <3>2 DEF DashboardsInv
  <2> QED
    BY <1>1, <2>1, <2>2
<1>14. DestinationsInv'
  <2>1. remaining' = remaining
    BY DEF panel
  <2>2. DestinationsInv
    BY DEF ImportInv
  <2> QED
    BY <1>1, <1>3, <1>7, <1>8, <2>1, <2>2 DEF DestinationsInv
<1> QED
  BY <1>3, <1>4, <1>5, <1>7, <1>10, <1>12, <1>13, <1>14 DEF GivenUp, RunInv

(* The types of a step of the client or of the store. *)
StoreTyped == /\ dash \in [Ids(Docs) -> Contents] /\ query \in [Ids(Queries) -> Content]
              /\ stored \in [Docs -> SUBSET Ids(Docs)] /\ elsewhere \in Nat
LEMMA StepTyped ==
  ASSUME ImportInv, UNCHANGED panel, StoreTyped', session' \in Sessions,
         run' \in Runs \cup {None}, stray' \in Requests \cup {None},
         changed' \subseteq Ids(Queries), Bounded
  PROVE  TypeOK'
  BY DEF ImportInv, TypeOK, StoreTyped, panel, Bounded

(* A write that is answered: taken and acknowledged, or refused. *)
LEMMA WriteAnsweredKeeps ==
  ASSUME ImportInv, WriteAnswered
  PROVE  Safe
<1>1. /\ Writing /\ run # None /\ run.at \in {"put", "save"} /\ run \in Runs /\ session \in Sessions
      /\ UNCHANGED <<panel, stray, approved, changed, tries, clicks, trouble>>
  BY RunTyped DEF WriteAnswered, Writing
<1>2. /\ changed' \subseteq Ids(Queries) /\ Bounded /\ stray' \in Requests \cup {None}
      /\ StoreTyped
  BY <1>1 DEF ImportInv, TypeOK, Bounded, StoreTyped
<1> PICK w : w = Request
  OBVIOUS
<1>3. CASE ~Fits(Request)
  <2>1. UNCHANGED <<server, overwrote, stored>> /\ Unacknowledged
    BY <1>3 DEF WriteAnswered
  <2>2. GivenUp
    BY <1>1, <2>1, UnacknowledgedRun
  <2>3. CopiesGrow
    BY <2>2, CopiesSame DEF GivenUp
  <2>4. StoredInv' /\ CopiesInv' /\ StrayInv'
    BY <1>1, <2>1, <2>2, <2>3, StoredKept, CopiesKept, StrayKept DEF GivenUp, server
  <2>5. ReplacesReviewed' /\ StoreTyped'
    BY <1>1, <1>2, <2>1 DEF ImportInv, ReplacesReviewed, StoreTyped, server
  <2>6. TypeOK'
    BY <1>1, <1>2, <2>2, <2>5, StepTyped DEF GivenUp
  <2>7. Accounted'
    BY <2>2, <2>4, <2>5 DEF Accounted, GivenUp
  <2>8. ImportInv'
    BY <2>6, <2>7, Assembled, PTL
  <2>9. Checked /\ UNCHANGED LedgerVars
    BY <2>1, <2>2, LedgerStutters DEF Checked, GivenUp
  <2> QED
    BY <2>8, <2>9 DEF Safe
<1>4. CASE Fits(Request) /\ run.at = "put"
  <2>1. Taken(w) /\ QueryDone(Query) /\ UNCHANGED session
    BY <1>4 DEF WriteAnswered, Acknowledged
  <2>2. SameDestinations /\ session'.copies = session.copies
    BY <2>1 DEF SameDestinations
  <2>3. /\ run' \in Runs /\ run'.at = "query" /\ run'.queries = QueriesLeft
        /\ run'.docs = run.docs /\ run'.kept = run.kept /\ run'.targets = run.targets
        /\ run.bad \subseteq run'.bad
    BY <1>1, <1>4, <2>1, QueryDoneTyped
  <2>4. RunInv'
    BY <1>1, <1>4, <2>2, <2>3, QueryLeaves
  <2>5. w \in Requests /\ Rightful(w)' /\ w.kind = "query"
    BY <1>1, <1>4, <2>1, RequestRightful
  <2>6. /\ StoredInv' /\ CopiesInv' /\ ReplacesReviewed'
        /\ dash' \in [Ids(Docs) -> Contents] /\ query' \in [Ids(Queries) -> Content]
        /\ stored' \in [Docs -> SUBSET Ids(Docs)] /\ elsewhere' = elsewhere
        /\ TakesQuery(w)
    BY <1>1, <2>1, <2>5, TakenKeeps
  <2>7. CopiesGrow
    BY <2>2, CopiesSame
  <2>8. StrayInv'
    BY <1>1, <2>1, <2>7, StrayKept
  <2>9. run' # None
    BY <2>3, ContentAssumption
  <2>10. DestinationsInv'
    <3>1. remaining' = remaining
      BY <1>1 DEF panel
    <3>2. DestinationsInv
      BY DEF ImportInv
    <3> QED
      BY <1>1, <2>1, <2>3, <2>9, <3>1, <3>2 DEF DestinationsInv
  <2>11. StoreTyped' /\ session' \in Sessions
    BY <1>1, <1>2, <2>1, <2>6 DEF StoreTyped
  <2>12. TypeOK'
    BY <1>1, <1>2, <2>3, <2>11, StepTyped
  <2>13. Accounted'
    BY <2>4, <2>6, <2>8, <2>10 DEF Accounted
  <2>14. ImportInv'
    BY <2>12, <2>13, Assembled, PTL
  <2>15. Checked /\ UNCHANGED LedgerVars
    BY <2>1, <2>6, LedgerStutters DEF Checked, TakesQuery
  <2> QED
    BY <2>14, <2>15 DEF Safe
<1>5. CASE Fits(Request) /\ run.at = "save"
  <2> PICK T : T = session.attempted \cup {<<w.id, w.doc>>}
    OBVIOUS
  <2> PICK d : d = Doc
    OBVIOUS
  <2> PICK C : C = session.completed \cup {d}
    OBVIOUS
  <2>1. /\ Taken(w) /\ run' = [run EXCEPT !.at = "dashboard", !.docs = DocsLeft]
        /\ session' = [session EXCEPT !.attempted = T, !.locked = TRUE, !.completed = C]
    <3>1. /\ Taken(w) /\ run' = [run EXCEPT !.at = "dashboard", !.docs = DocsLeft]
          /\ session' = [Attempt(w) EXCEPT !.completed = @ \cup {d}]
      BY <1>5 DEF WriteAnswered, Acknowledged
    <3>2. Attempt(w) = [session EXCEPT !.attempted = T, !.locked = TRUE]
      BY DEF Attempt
    <3> QED
      BY <1>1, <3>1, <3>2 DEF Sessions
  <2>2. /\ session'.ids = session.ids /\ session'.actions = session.actions
        /\ session'.completed = C /\ session'.copies = session.copies
        /\ session'.locked = TRUE
    BY <1>1, <2>1 DEF Sessions
  <2>3. /\ w \in Requests /\ Rightful(w)' /\ w.kind = "dashboard"
        /\ w.doc.of = d /\ w.id = session.ids[d]
    BY <1>1, <1>5, <2>2, RequestRightful
  <2>4. run.docs # {} /\ d \in Docs
    BY <1>1, <1>5, DocIn DEF ImportInv, DashboardsInv
  <2>5. session' \in Sessions
    <3>1. <<w.id, w.doc>> \in Ids(Docs) \X Imports
      BY <2>3 DEF Requests
    <3>2. T \in SUBSET ((Ids(Docs) \X Imports) \cup (Ids(Queries) \X Content))
      BY <1>1, <3>1 DEF Sessions
    <3>3. C \in SUBSET Docs
      BY <1>1, <2>4 DEF Sessions
    <3> QED
      BY <1>1, <2>1, <3>2, <3>3 DEF Sessions
  <2>6. /\ RunInv' /\ DestinationsInv' /\ CopiesGrow /\ run' \in Runs
        /\ d \in Docs \ session.completed /\ session.actions[d] # "keep"
        /\ session.ids[d] \in Ids(Docs)
    BY <1>1, <1>5, <2>1, <2>2, <2>5, DashboardReported
  <2>7. /\ StoredInv' /\ CopiesInv' /\ ReplacesReviewed'
        /\ dash' \in [Ids(Docs) -> Contents] /\ query' \in [Ids(Queries) -> Content]
        /\ stored' \in [Docs -> SUBSET Ids(Docs)] /\ elsewhere' = elsewhere
        /\ TakesDashboard(w)
    BY <1>1, <2>1, <2>2, <2>3, TakenKeeps
  <2>8. StrayInv'
    BY <1>1, <2>2, <2>6, StrayKept
  <2>9. StoreTyped'
    BY <1>2, <2>7 DEF StoreTyped
  <2>10. TypeOK'
    BY <1>1, <1>2, <2>5, <2>6, <2>9, StepTyped
  <2>11. Accounted'
    BY <2>6, <2>7, <2>8 DEF Accounted
  <2>12. ImportInv'
    BY <2>10, <2>11, Assembled, PTL
  <2>13. Checked
    <3>1. \A q \in Uses[d] : run.targets[q] \in changed
                             \/ query[run.targets[q]] = run.current[run.targets[q]]
      BY <1>1, <1>5 DEF ImportInv, DashboardsInv
    <3> QED
      BY <2>2, <3>1 DEF Checked
  <2>14. Ledger!Next
    <3>1. /\ stored[d] \subseteq {w.id} /\ stored' = [stored EXCEPT ![d] = {w.id}] /\ w.id \in Ids(Docs)
      BY <2>3, <2>7 DEF TakesDashboard
    <3>2. stored'[d] # {} /\ session.completed \subseteq Docs
      BY <1>1, <1>2, <2>4, <3>1 DEF StoreTyped, Sessions
    <3> QED
      BY <2>2, <2>6, <3>1, <3>2, LedgerReports
  <2> QED
    BY <2>12, <2>13, <2>14 DEF Safe
<1> QED
  BY <1>1, <1>3, <1>4, <1>5

(* The store takes the document and the client does not learn of it. *)
LEMMA AnswerLostKeeps ==
  ASSUME ImportInv, AnswerLost
  PROVE  Safe
<1>1. /\ Writing /\ run # None /\ run.at \in {"put", "save"} /\ run \in Runs /\ session \in Sessions
      /\ Taken(Request) /\ Unacknowledged /\ trouble < MaxTrouble /\ trouble' = trouble + 1
      /\ UNCHANGED <<panel, stray, approved, changed, tries, clicks>>
  BY RunTyped DEF AnswerLost, Writing
<1>2. /\ changed' \subseteq Ids(Queries) /\ stray' \in Requests \cup {None} /\ StoreTyped
  BY <1>1 DEF ImportInv, TypeOK, StoreTyped
<1>3. Bounded
  <2>1. MaxTrouble \in Nat /\ trouble \in 0 .. MaxTrouble
    BY BundleAssumption DEF ImportInv, TypeOK
  <2>2. trouble' \in 0 .. MaxTrouble
    BY <1>1, <2>1
  <2> QED
    BY <1>1, <2>2 DEF ImportInv, TypeOK, Bounded
<1> PICK w : w = Request
  OBVIOUS
<1>4. GivenUp
  BY <1>1, UnacknowledgedRun
<1>5. /\ session'.ids = session.ids /\ session'.copies = session.copies
      /\ session'.actions = session.actions /\ session'.completed = session.completed
      /\ session.locked => session'.locked
      /\ run.at = "save" => session'.locked = TRUE
  BY <1>4 DEF GivenUp
<1>6. /\ w \in Requests /\ Rightful(w)'
      /\ run.at = "put" => w.kind = "query"
      /\ run.at = "save" => w.kind = "dashboard" /\ w.doc.of = Doc /\ w.id = session.ids[Doc]
  BY <1>1, <1>5, RequestRightful
<1>7. /\ StoredInv' /\ CopiesInv' /\ ReplacesReviewed'
      /\ dash' \in [Ids(Docs) -> Contents] /\ query' \in [Ids(Queries) -> Content]
      /\ stored' \in [Docs -> SUBSET Ids(Docs)] /\ elsewhere' = elsewhere
      /\ w.kind = "dashboard" => TakesDashboard(w)
      /\ w.kind = "query" => TakesQuery(w)
  BY <1>1, <1>5, <1>6, TakenKeeps
<1>8. StrayInv'
  BY <1>1, <1>5, CopiesSame, StrayKept
<1>9. StoreTyped'
  BY <1>2, <1>7 DEF StoreTyped
<1>10. TypeOK'
  BY <1>1, <1>2, <1>3, <1>4, <1>9, StepTyped DEF GivenUp
<1>11. Accounted'
  BY <1>4, <1>7, <1>8 DEF Accounted, GivenUp
<1>12. ImportInv'
  BY <1>10, <1>11, Assembled, PTL
<1>13. Checked
  BY <1>5 DEF Checked
<1>14. [Ledger!Next]_LedgerVars
  <2>1. CASE run.at = "put"
    BY <1>5, <1>6, <1>7, <2>1, LedgerStutters DEF TakesQuery
  <2>2. CASE run.at = "save"
    <3> PICK d : d = w.doc.of
      OBVIOUS
    <3>1. /\ d \in Docs /\ w.id \in Ids(Docs) /\ stored[d] \subseteq {w.id}
          /\ stored' = [stored EXCEPT ![d] = {w.id}]
      BY <1>6, <1>7, <2>2 DEF TakesDashboard
    <3>2. Ledger!Next
      BY <1>2, <1>5, <3>1, LedgerStores DEF StoreTyped
    <3> QED
      BY <3>2
  <2> QED
    BY <1>1, <2>1, <2>2
<1> QED
  BY <1>12, <1>13, <1>14 DEF Safe

(* The write does not arrive, or not yet. *)
LEMMA RequestLostKeeps ==
  ASSUME ImportInv, RequestLost
  PROVE  Safe
<1> PICK w : w = Request
  OBVIOUS
<1>1. /\ Writing /\ run # None /\ run.at \in {"put", "save"} /\ run \in Runs /\ session \in Sessions
      /\ Unacknowledged /\ trouble < MaxTrouble /\ trouble' = trouble + 1
      /\ stray' \in {None, w, stray}
      /\ UNCHANGED <<panel, approved, overwrote, stored, changed, dash, query, elsewhere, tries, clicks>>
  BY RunTyped DEF RequestLost, Writing, server, history
<1>2. /\ changed' \subseteq Ids(Queries) /\ stray \in Requests \cup {None} /\ StoreTyped
  BY <1>1 DEF ImportInv, TypeOK, StoreTyped
<1>3. Bounded
  <2>1. MaxTrouble \in Nat /\ trouble \in 0 .. MaxTrouble
    BY BundleAssumption DEF ImportInv, TypeOK
  <2>2. trouble' \in 0 .. MaxTrouble
    BY <1>1, <2>1
  <2> QED
    BY <1>1, <2>2 DEF ImportInv, TypeOK, Bounded
<1>4. GivenUp
  BY <1>1, UnacknowledgedRun
<1>5. /\ session'.ids = session.ids /\ session'.copies = session.copies
      /\ session'.actions = session.actions /\ session'.completed = session.completed
      /\ session.locked => session'.locked
      /\ run.at = "save" => session'.locked = TRUE
  BY <1>4 DEF GivenUp
<1>6. w \in Requests /\ Rightful(w)'
  BY <1>1, <1>5, RequestRightful
<1>7. CopiesGrow
  BY <1>5, CopiesSame
<1>8. StrayInv' /\ stray' \in Requests \cup {None}
  <2>1. CASE stray' = None
    BY <2>1 DEF StrayInv
  <2>2. CASE stray' = w
    BY <1>6, <2>2 DEF StrayInv, Rightful, Linked
  <2>3. CASE stray' = stray
    BY <1>1, <1>2, <1>5, <1>7, <2>3, StrayKept
  <2> QED
    BY <1>1, <2>1, <2>2, <2>3
<1>9. StoredInv' /\ CopiesInv'
  BY <1>1, <1>5, <1>7, StoredKept, CopiesKept
<1>10. ReplacesReviewed' /\ StoreTyped'
  BY <1>1, <1>2 DEF ImportInv, ReplacesReviewed, StoreTyped
<1>11. TypeOK'
  BY <1>1, <1>2, <1>3, <1>4, <1>8, <1>10, StepTyped DEF GivenUp
<1>12. Accounted'
  BY <1>4, <1>8, <1>9, <1>10 DEF Accounted, GivenUp
<1>13. ImportInv'
  BY <1>11, <1>12, Assembled, PTL
<1>14. Checked /\ UNCHANGED LedgerVars
  BY <1>1, <1>5, LedgerStutters DEF Checked
<1> QED
  BY <1>13, <1>14 DEF Safe

-----------------------------------------------------------------------------
(* What others do while an attempt runs.                                   *)

(* A query that moves under an attempt is one that changed since the check. *)
LEMMA WorkspaceMoves ==
  ASSUME ImportInv, UNCHANGED <<panel, session, run, approved>>, changed \subseteq changed',
         \A i \in Ids(Queries) : query'[i] = query[i] \/ i \in changed'
  PROVE  RunInv' /\ DestinationsInv'
<1>1. DestinationsInv'
  BY DEF ImportInv, DestinationsInv, panel
<1>2. ReviewInv'
  <2>1. ReviewInv
    BY DEF ImportInv
  <2> QED
    BY <2>1, PanelSame DEF ReviewInv
<1>3. /\ Doc' = Doc /\ Query' = Query /\ Written' = Written
      /\ SelectedQueries(Written)' = SelectedQueries(Written)
      /\ SelectedQueries(run.docs)' = SelectedQueries(run.docs)
  BY DEF Doc, Query, First, Written, SelectedQueries
<1>4. QueriesInv'
  <2> PICK q : q = Query
    OBVIOUS
  <2>1. MintedCopy(q)' = MintedCopy(q)
    BY PanelSame DEF MintedCopy, Definition
  <2>2. QueriesInv
    BY DEF ImportInv
  <2> QED
    BY <1>3, <2>1, <2>2, PanelSame DEF QueriesInv
<1>5. DashboardsInv'
  <2>1. DashboardsInv
    BY DEF ImportInv
  <2>2. ASSUME run # None, run.at \in {"verify", "read", "save"}, NEW q \in Uses[Doc] \ run.refs
        PROVE  run.targets[q] \in changed' \/ query'[run.targets[q]] = run.current[run.targets[q]]
    <3>1. /\ run.docs # {} /\ Uses[Doc] \cap run.bad = {}
          /\ \A x \in SelectedQueries(run.docs) \ run.bad : run.targets[x] # None
          /\ run.targets[q] \in changed \/ query[run.targets[q]] = run.current[run.targets[q]]
      BY <2>1, <2>2 DEF DashboardsInv
    <3>2. run \in Runs
      BY <2>2, RunTyped
    <3>3. Doc \in run.docs /\ Doc \in Docs
      BY <3>1, <3>2, DocIn
    <3>4. q \in Queries /\ q \in SelectedQueries(run.docs) \ run.bad
      BY <2>2, <3>1, <3>3, BundleAssumption DEF SelectedQueries
    <3>5. run.targets[q] \in Ids(Queries)
      BY <3>1, <3>2, <3>4 DEF Runs
    <3> QED
      BY <3>1, <3>5
  <2> QED
    BY <1>3, <2>1, <2>2, PanelSame DEF DashboardsInv
<1> QED
  BY <1>1, <1>2, <1>4, <1>5 DEF RunInv

(* A write that was given up arrives late. *)
LEMMA DeliverStrayKeeps ==
  ASSUME ImportInv, DeliverStray
  PROVE  Safe
<1> PICK w : w = stray
  OBVIOUS
<1>1. /\ w # None /\ stray' = None
      /\ UNCHANGED <<panel, session, run, approved, tries, clicks, trouble>>
      /\ \/ /\ Taken(w)
            /\ changed' = IF w.kind = "query" THEN changed \cup {w.id} ELSE changed
         \/ UNCHANGED <<dash, query, elsewhere, overwrote, stored, changed>>
  BY DEF DeliverStray, server
<1>2. /\ StoreTyped /\ Bounded /\ changed \subseteq Ids(Queries) /\ session' \in Sessions
      /\ run' \in Runs \cup {None} /\ w \in Requests /\ w.kind \in {"query", "dashboard"}
  BY <1>1 DEF ImportInv, TypeOK, StoreTyped, Bounded, Requests
<1>3. Rightful(w)
  BY <1>1 DEF ImportInv, StrayInv
<1>4. Rightful(w)'
  BY <1>1, <1>3 DEF Rightful, Linked
<1>5. CopiesGrow
  BY <1>1, CopiesSame
<1>6. StrayInv'
  BY <1>1 DEF StrayInv
<1>7. /\ StoredInv' /\ CopiesInv' /\ ReplacesReviewed' /\ StoreTyped'
      /\ RunInv' /\ DestinationsInv' /\ changed' \subseteq Ids(Queries)
      /\ [Ledger!Next]_LedgerVars
  <2>1. CASE /\ Taken(w)
             /\ changed' = IF w.kind = "query" THEN changed \cup {w.id} ELSE changed
    <3>1. /\ StoredInv' /\ CopiesInv' /\ ReplacesReviewed'
          /\ dash' \in [Ids(Docs) -> Contents] /\ query' \in [Ids(Queries) -> Content]
          /\ stored' \in [Docs -> SUBSET Ids(Docs)] /\ elsewhere' = elsewhere
          /\ w.kind = "dashboard" => TakesDashboard(w)
          /\ w.kind = "query" => TakesQuery(w)
      BY <1>1, <1>2, <1>4, <2>1, TakenKeeps
    <3>2. StoreTyped'
      BY <1>2, <3>1 DEF StoreTyped
    <3>3. CASE w.kind = "query"
      <4>1. TakesQuery(w) /\ changed' = changed \cup {w.id}
        BY <2>1, <3>1, <3>3
      <4>2. /\ changed \subseteq changed' /\ changed' \subseteq Ids(Queries)
            /\ \A i \in Ids(Queries) : query'[i] = query[i] \/ i \in changed'
        BY <1>2, <4>1 DEF TakesQuery
      <4>3. UNCHANGED LedgerVars
        BY <1>1, <4>1, LedgerStutters DEF TakesQuery
      <4>4. RunInv' /\ DestinationsInv'
        BY <1>1, <4>2, WorkspaceMoves
      <4> QED
        BY <3>1, <3>2, <4>2, <4>3, <4>4
    <3>4. CASE w.kind = "dashboard"
      <4> PICK d : d = w.doc.of
        OBVIOUS
      <4>1. /\ d \in Docs /\ w.id \in Ids(Docs) /\ stored[d] \subseteq {w.id}
            /\ stored' = [stored EXCEPT ![d] = {w.id}] /\ query' = query
        BY <3>1, <3>4 DEF TakesDashboard
      <4>2. changed' = changed
        BY <2>1, <3>4
      <4>3. Ledger!Next
        BY <1>1, <1>2, <4>1, LedgerStores DEF StoreTyped
      <4>4. RunInv' /\ DestinationsInv'
        BY <1>1, <4>1, <4>2, WorkspaceMoves
      <4> QED
        BY <1>2, <3>1, <3>2, <4>2, <4>3, <4>4
    <3> QED
      BY <1>2, <3>3, <3>4
  <2>2. CASE UNCHANGED <<dash, query, elsewhere, overwrote, stored, changed>>
    <3>1. StoredInv' /\ CopiesInv'
      BY <1>1, <1>5, <2>2, StoredKept, CopiesKept
    <3>2. ReplacesReviewed' /\ StoreTyped' /\ changed' \subseteq Ids(Queries)
      BY <1>1, <1>2, <2>2 DEF ImportInv, ReplacesReviewed, StoreTyped
    <3>3. RunInv' /\ DestinationsInv'
      BY <1>1, <2>2, WorkspaceMoves
    <3>4. UNCHANGED LedgerVars
      BY <1>1, <2>2, LedgerStutters
    <3> QED
      BY <3>1, <3>2, <3>3, <3>4
  <2> QED
    BY <1>1, <2>1, <2>2
<1>8. TypeOK'
  BY <1>1, <1>2, <1>7, StepTyped
<1>9. Accounted'
  BY <1>6, <1>7 DEF Accounted
<1>10. ImportInv'
  BY <1>8, <1>9, Assembled, PTL
<1>11. Checked
  BY <1>1 DEF Checked
<1> QED
  BY <1>7, <1>10, <1>11 DEF Safe

(* Others edit or delete a document, or add one. *)
LEMMA OthersWriteKeeps ==
  ASSUME ImportInv, OthersWrite
  PROVE  Safe
<1>1. /\ trouble < MaxTrouble /\ trouble' = trouble + 1
      /\ UNCHANGED <<panel, session, run, stray, approved, overwrote, stored, tries, clicks>>
  BY DEF OthersWrite
<1>2. /\ StoreTyped /\ changed \subseteq Ids(Queries) /\ session' \in Sessions
      /\ run' \in Runs \cup {None} /\ stray' \in Requests \cup {None}
  BY <1>1 DEF ImportInv, TypeOK, StoreTyped
<1>3. Bounded
  <2>1. MaxTrouble \in Nat /\ trouble \in 0 .. MaxTrouble
    BY BundleAssumption DEF ImportInv, TypeOK
  <2>2. trouble' \in 0 .. MaxTrouble
    BY <1>1, <2>1
  <2> QED
    BY <1>1, <2>2 DEF ImportInv, TypeOK, Bounded
<1>4. \A c \in {Edited, None} : c \in Contents \cap Content /\ c \notin Imports /\ c \notin Providers
  BY ContentAssumption, BundleAssumption DEF Contents, Content, Foreign
<1>5. CopiesGrow
  BY <1>1, CopiesSame
<1>6. StrayInv'
  BY <1>1, <1>5, StrayKept
<1>7. StoredInv /\ CopiesInv
  BY DEF ImportInv
<1>8. /\ StoredInv' /\ CopiesInv' /\ StoreTyped' /\ changed' \subseteq Ids(Queries)
      /\ RunInv' /\ DestinationsInv'
  <2>1. CASE /\ \E i \in DOMAIN dash : /\ dash[i] # None
                                       /\ \E c \in {Edited, None} : dash' = [dash EXCEPT ![i] = c]
             /\ UNCHANGED <<query, elsewhere, changed>>
    <3>1. PICK i \in DOMAIN dash, c \in {Edited, None} : dash' = [dash EXCEPT ![i] = c]
      BY <2>1
    <3>2. i \in Ids(Docs) /\ dash' \in [Ids(Docs) -> Contents] /\ dash'[i] = c
          /\ \A j \in Ids(Docs) \ {i} : dash'[j] = dash[j]
      BY <1>2, <1>4, <3>1 DEF StoreTyped
    <3>3. \A j \in Ids(Docs) : dash'[j] \in Imports => dash'[j] = dash[j]
      BY <1>4, <3>2
    <3>4. StoredInv'
      BY <1>1, <1>7, <3>3 DEF StoredInv, Linked
    <3>5. CopiesInv' /\ RunInv' /\ DestinationsInv'
      BY <1>1, <1>5, <2>1, CopiesKept, WorkspaceMoves
    <3>6. StoreTyped' /\ changed' \subseteq Ids(Queries)
      BY <1>1, <1>2, <2>1, <3>2 DEF StoreTyped
    <3> QED
      BY <3>4, <3>5, <3>6
  <2>2. CASE /\ \E i \in DOMAIN query : /\ query[i] # None
                                        /\ \E c \in {Edited, None} : query' = [query EXCEPT ![i] = c]
                                        /\ changed' = changed \cup {i}
             /\ UNCHANGED <<dash, elsewhere>>
    <3>1. PICK i \in DOMAIN query, c \in {Edited, None} :
             query' = [query EXCEPT ![i] = c] /\ changed' = changed \cup {i}
      BY <2>2
    <3>2. i \in Ids(Queries) /\ query' \in [Ids(Queries) -> Content] /\ query'[i] = c
          /\ \A j \in Ids(Queries) \ {i} : query'[j] = query[j]
      BY <1>2, <1>4, <3>1 DEF StoreTyped
    <3>3. CopiesInv'
      <4>1. \A j \in Ids(Queries) : query'[j] \in Providers => query'[j] = query[j]
        BY <1>4, <3>2
      <4> QED
        BY <1>1, <1>7, <4>1 DEF CopiesInv
    <3>4. StoredInv'
      BY <1>1, <2>2, StoredKept
    <3>5. /\ changed \subseteq changed' /\ changed' \subseteq Ids(Queries)
          /\ \A j \in Ids(Queries) : query'[j] = query[j] \/ j \in changed'
      BY <1>2, <3>1, <3>2
    <3>6. RunInv' /\ DestinationsInv'
      BY <1>1, <3>5, WorkspaceMoves
    <3>7. StoreTyped'
      BY <1>1, <1>2, <2>2, <3>2 DEF StoreTyped
    <3> QED
      BY <3>3, <3>4, <3>5, <3>6, <3>7
  <2>3. CASE elsewhere' = elsewhere + 1 /\ UNCHANGED <<dash, query, changed>>
    <3>1. StoreTyped' /\ changed' \subseteq Ids(Queries)
      BY <1>1, <1>2, <2>3 DEF StoreTyped
    <3>2. StoredInv' /\ CopiesInv' /\ RunInv' /\ DestinationsInv'
      BY <1>1, <1>5, <2>3, StoredKept, CopiesKept, WorkspaceMoves
    <3> QED
      BY <3>1, <3>2
  <2> QED
    BY <2>1, <2>2, <2>3 DEF OthersWrite
<1>9. TypeOK'
  BY <1>1, <1>2, <1>3, <1>8, StepTyped
<1>10. ReplacesReviewed' /\ Checked
  BY <1>1 DEF ImportInv, ReplacesReviewed, Checked
<1>11. Accounted'
  BY <1>6, <1>8, <1>10 DEF Accounted
<1>12. ImportInv'
  BY <1>9, <1>11, Assembled, PTL
<1>13. UNCHANGED LedgerVars
  BY <1>1, LedgerStutters
<1> QED
  BY <1>10, <1>12, <1>13 DEF Safe

(* A read fails. *)
LEMMA ReadFailsKeeps ==
  ASSUME ImportInv, ReadFails
  PROVE  Safe
<1>1. /\ run # None /\ trouble < MaxTrouble /\ trouble' = trouble + 1
      /\ UNCHANGED <<server, panel, session, stray, history, tries, clicks>>
  BY DEF ReadFails
<1>2. trouble' \in 0 .. MaxTrouble
  <2>1. MaxTrouble \in Nat /\ trouble \in 0 .. MaxTrouble
    BY BundleAssumption DEF ImportInv, TypeOK
  <2> QED
    BY <1>1, <2>1
<1>3. \/ run.at \in Early /\ run' = None
      \/ run.at \in {"fresh", "confirm query"} /\ QueryFailed(Query)
      \/ run.at \in {"verify", "read", "confirm"} /\ DashboardFailed
  BY DEF ReadFails, Throw, Early
<1>4. CASE run.at \in Early /\ run' = None
  BY <1>1, <1>2, <1>4, Thrown
<1>5. CASE run.at \in {"fresh", "confirm query"} /\ QueryFailed(Query)
  BY <1>1, <1>2, <1>5, QueryDecided
<1>6. CASE run.at \in {"verify", "read", "confirm"} /\ DashboardFailed
  BY <1>1, <1>2, <1>6, DashboardSkipped
<1> QED
  BY <1>3, <1>4, <1>5, <1>6

-----------------------------------------------------------------------------
(* The whole importer.                                                     *)

LEMMA InitHolds ==
  ASSUME Init
  PROVE  ImportInv
<1>1. {MaxIds, MaxTries, MaxClicks, MaxTrouble} \subseteq Nat /\ Home \in Providers
  BY BundleAssumption
<1>2. dash \in [Ids(Docs) -> Contents] /\ \A i \in Ids(Docs) : dash[i] \notin Imports
  BY ContentAssumption DEF Init, Contents, Foreign
<1>3. query \in [Ids(Queries) -> Content]
  BY <1>1 DEF Init, Content, Foreign
<1>4. session \in Sessions /\ session.completed = {} /\ ~session.locked
      /\ (\A d \in Docs : session.ids[d] = None /\ session.actions[d] = None)
      /\ (\A q \in Queries, p \in Providers : session.copies[<<q, p>>] = None)
  <2>1. session = NewSession /\ 0 \in 0 .. MaxIds
    BY <1>1 DEF Init
  <2>2. session \in Sessions
    BY <2>1 DEF NewSession, Sessions
  <2> QED
    BY <2>1, <2>2 DEF NewSession
<1>5. TypeOK
  <2>1. tries \in 0 .. MaxTries /\ clicks \in 0 .. MaxClicks /\ trouble \in 0 .. MaxTrouble
        /\ elsewhere \in Nat
    BY <1>1 DEF Init
  <2>2. /\ snapshot \in Snapshots \cup {None} /\ run \in Runs \cup {None}
        /\ stray \in Requests \cup {None} /\ mapping \in Providers
        /\ remaining \subseteq Docs /\ changed \subseteq Ids(Queries)
    BY <1>1 DEF Init
  <2>3. /\ dashboardChoices \in [Docs -> Actions \cup {None}]
        /\ queryChoices \in [Queries -> Actions \cup {None}]
        /\ lockedActions \in [Docs -> Actions \cup {None}]
        /\ stored \in [Docs -> SUBSET Ids(Docs)]
    BY DEF Init
  <2> QED
    BY <1>2, <1>3, <1>4, <2>1, <2>2, <2>3 DEF TypeOK
<1>6. run = None /\ remaining = Docs /\ stray = None /\ overwrote = {}
      /\ \A d \in Docs : stored[d] = {}
  BY DEF Init
<1>7. CopiesInv
  <2>1. ASSUME NEW i \in Ids(Queries), i[2] > 0
        PROVE  query[i] = None
    BY <2>1 DEF Init
  <2>2. None \notin Providers
    BY BundleAssumption
  <2> QED
    BY <1>4, <2>1, <2>2 DEF CopiesInv
<1>8. DestinationsInv
  BY <1>4, <1>6, ContentAssumption DEF DestinationsInv, Actions
<1>9. RunInv
  BY <1>6 DEF RunInv, ReviewInv, QueriesInv, DashboardsInv
<1>10. StoredInv /\ StrayInv /\ ReplacesReviewed
  BY <1>2, <1>6 DEF StoredInv, StrayInv, ReplacesReviewed
<1> QED
  BY <1>5, <1>7, <1>8, <1>9, <1>10, Assembled DEF Accounted

LEMMA NextSafe ==
  ASSUME ImportInv, Next
  PROVE  Safe
<1>1. CASE Import
  BY <1>1, ImportBundleKeeps, ListDestinationsKeeps, PreflightKeeps, ListSavedQueriesKeeps,
     ReadKeptQueryKeeps, BeginQueryKeeps, ReadQueryKeeps, ConfirmQueryKeeps, BeginDashboardsKeeps,
     BeginDashboardKeeps, VerifyQueryKeeps, ReadDashboardKeeps, ConfirmDashboardKeeps, FinishKeeps
     DEF Import
<1>2. CASE \/ \E d \in Docs, a \in Actions : ChooseDashboard(d, a)
           \/ \E q \in Queries, a \in Actions \cup {"create"} : ChooseQuery(q, a)
           \/ \E p \in Providers : ChooseProvider(p)
  BY <1>2, ChoicesKeep
<1>3. CASE \/ RefreshReview \/ WriteAnswered \/ AnswerLost \/ RequestLost
           \/ DeliverStray \/ ReadFails \/ OthersWrite
  BY <1>3, RefreshReviewKeeps, WriteAnsweredKeeps, AnswerLostKeeps, RequestLostKeeps,
     DeliverStrayKeeps, ReadFailsKeeps, OthersWriteKeeps
<1> QED
  BY <1>1, <1>2, <1>3 DEF Next

LEMMA StutterSafe ==
  ASSUME ImportInv, UNCHANGED vars
  PROVE  Safe
<1>1. /\ UNCHANGED <<panel, session, run, stray, approved, overwrote, stored, changed>>
      /\ UNCHANGED <<dash, query, elsewhere, tries, clicks, trouble>>
  BY DEF vars, server, history
<1>2. StoreTyped' /\ Bounded /\ changed' \subseteq Ids(Queries) /\ session' \in Sessions
      /\ run' \in Runs \cup {None} /\ stray' \in Requests \cup {None}
  BY <1>1 DEF ImportInv, TypeOK, StoreTyped, Bounded
<1>3. TypeOK'
  BY <1>1, <1>2, StepTyped
<1>4. CopiesGrow
  BY <1>1, CopiesSame
<1>5. StoredInv' /\ CopiesInv' /\ StrayInv' /\ RunInv' /\ DestinationsInv'
  BY <1>1, <1>4, StoredKept, CopiesKept, StrayKept, WorkspaceMoves
<1>6. ReplacesReviewed' /\ Checked
  BY <1>1 DEF ImportInv, ReplacesReviewed, Checked
<1>7. Accounted'
  BY <1>5, <1>6 DEF Accounted
<1>8. ImportInv'
  BY <1>3, <1>7, Assembled, PTL
<1>9. UNCHANGED LedgerVars
  BY <1>1, LedgerStutters
<1> QED
  BY <1>6, <1>8, <1>9 DEF Safe

LEMMA StepSafe ==
  ASSUME ImportInv, [Next]_vars
  PROVE  Safe
  BY NextSafe, StutterSafe

(* The invariant of the importer, of its retry session and of the store    *)
(* (importBundle, ImportSession): whatever is chosen, lost, delivered late *)
(* or changed by others, for any bundle and any number of attempts.        *)
THEOREM ImportInvariant == Spec => []ImportInv
<1>1. Init => ImportInv
  BY InitHolds
<1>2. ImportInv /\ [Next]_vars => ImportInv'
  BY StepSafe DEF Safe
<1> QED
  BY <1>1, <1>2, PTL DEF Spec

(* The import replaces only what the operator compared and agreed to       *)
(* replace (checkBaseline, If-Match), also by a write that arrives after   *)
(* the client gave it up.                                                  *)
THEOREM ReviewedOnly == Spec => []ReplacesReviewed
<1>1. ImportInv => ReplacesReviewed
  BY DEF ImportInv
<1> QED
  BY <1>1, ImportInvariant, PTL

(* The drilldowns of imported dashboards lead to the identities of the     *)
(* session, through any number of retries (ImportSession.destinations).    *)
THEOREM LinksAlwaysAgree == Spec => []LinksAgree
<1>1. ImportInv => LinksAgree
  <2>1. SUFFICES ASSUME ImportInv, NEW i \in Ids(Docs), dash[i] \notin Foreign \cup {None}
                 PROVE  \A e \in Links[dash[i].of] : dash[i].links[e] = session.ids[e]
    BY DEF LinksAgree
  <2>2. dash[i] \in Imports
    BY <2>1 DEF ImportInv, TypeOK, Contents
  <2> QED
    BY <2>1, <2>2 DEF ImportInv, StoredInv, Linked
<1> QED
  BY <1>1, ImportInvariant, PTL

(* No dashboard is acknowledged over a query that does not have the        *)
(* definition this attempt prepared, unless it changed after the check     *)
(* made for this dashboard (verifySavedQueryReferences).                   *)
THEOREM ChecksBeforeSave == Spec => SavedAgainstVerified
<1>1. ImportInv /\ [Next]_vars =>
        [\A d \in Docs : d \in session'.completed \ session.completed /\ run # None
                         /\ run.at = "save" =>
             \A q \in Uses[d] : run.targets[q] \in changed
                                \/ query[run.targets[q]] = run.current[run.targets[q]]]_vars
  BY StepSafe DEF Safe, Checked
<1> QED
  BY <1>1, ImportInvariant, PTL DEF Spec, SavedAgainstVerified

(* The importer implements the promise of ImportLedger: every document has *)
(* one identity, and is reported saved only when the server stored it.     *)
THEOREM ImplementsTheLedger == Spec => ImplementsLedger
<1>1. Init => Ledger!Init
  <2>1. SUFFICES ASSUME Init
                 PROVE  Ledger!Init
    OBVIOUS
  <2>2. stored = [d \in Docs |-> {}] /\ session.completed = {}
    BY <2>1 DEF Init, NewSession
  <2> QED
    BY <2>2 DEF Ledger!Init
<1>2. ImportInv /\ [Next]_vars => [Ledger!Next]_LedgerVars
  BY StepSafe DEF Safe
<1> QED
  BY <1>1, <1>2, ImportInvariant, PTL DEF Spec, ImplementsLedger, Ledger!Spec, LedgerVars
=============================================================================
