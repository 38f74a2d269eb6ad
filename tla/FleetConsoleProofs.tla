------------------------- MODULE FleetConsoleProofs -------------------------
(* Proofs about the fleet inventory page, for any set of applications, any *)
(* page size, any number of replicas, clicks and failures.                 *)
EXTENDS FleetConsole, FiniteSetTheorems, WellFoundedInduction, SequenceTheorems, TLAPS

(* A set of naturals that is not empty has a least element. *)
LEMMA LeastExists ==
  ASSUME NEW S, S \subseteq Nat, S # {}
  PROVE  \E m \in S : \A n \in S : m <= n
<1>1. PICK m \in S : \A n \in S : ~ (<<n, m>> \in OpToRel(<, Nat))
  BY NatLessThanWellFounded, WFMin, Zenon
<1>2. \A n \in S : ~ (n < m)
  BY <1>1 DEF OpToRel
<1> QED
  BY <1>2

(* A finite set of naturals that is not empty has a greatest element. *)
LEMMA GreatestExists ==
  ASSUME NEW S, S \subseteq Nat, IsFiniteSet(S), S # {}
  PROVE  \E m \in S : \A n \in S : n <= m
<1> DEFINE Bad == {n \in Nat : \E T \in SUBSET S :
                      /\ T # {} /\ Cardinality(T) = n
                      /\ ~ \E m \in T : \A x \in T : x <= m}
<1>1. SUFFICES Bad = {}
  <2>1. Cardinality(S) \in Nat
    BY FS_CardinalityType
  <2> QED
    BY <1>1, <2>1
<1>2. SUFFICES ASSUME Bad # {} PROVE FALSE
  OBVIOUS
<1>3. PICK n \in Bad : \A k \in Bad : n <= k
  <2>1. Bad \subseteq Nat
    OBVIOUS
  <2> QED
    BY <1>2, <2>1, LeastExists
<1>4. PICK T \in SUBSET S : /\ T # {} /\ Cardinality(T) = n
                            /\ ~ \E m \in T : \A x \in T : x <= m
  BY <1>3
<1>5. PICK t \in T : TRUE
  BY <1>4
<1>6. IsFiniteSet(T) /\ Cardinality(T) \in Nat
  BY FS_Subset, FS_CardinalityType
<1>7. Cardinality(T \ {t}) = n - 1 /\ n - 1 \in Nat
  <2>1. IsFiniteSet(T \ {t}) /\ Cardinality(T \ {t}) = Cardinality(T) - 1
    BY <1>5, <1>6, FS_RemoveElement
  <2>2. Cardinality(T \ {t}) \in Nat
    BY <2>1, FS_CardinalityType
  <2> QED
    BY <1>4, <2>1, <2>2
<1>8. T \ {t} # {}
  BY <1>4, <1>5
<1>9. PICK m \in T \ {t} : \A x \in T \ {t} : x <= m
  <2>1. ~ (n <= n - 1)
    BY <1>7
  <2>2. n - 1 \notin Bad
    BY <1>3, <2>1
  <2> QED
    BY <1>7, <1>8, <2>2
<1>10. \A x \in T : x <= t \/ x <= m
  BY <1>9
<1>11. \A x \in T : x <= IF m <= t THEN t ELSE m
  BY <1>9, <1>10
<1> QED
  BY <1>4, <1>5, <1>9, <1>11

(* A page of a replica's snapshot: typed, and from the cursor asked for.   *)
(* Its own cursor is the last application it took, and there is one        *)
(* whenever some are left.                                                 *)
LEMMA PageTyped ==
  ASSUME NEW snapshot \in Snapshots, NEW key \in Key, NEW cursor \in Apps \cup {0}
  PROVE  /\ QueryApplications(snapshot, key, cursor) \in Page
         /\ QueryApplications(snapshot, key, cursor).from = cursor
<1> DEFINE rest == {a \in Matching(snapshot, key) : a > cursor}
           taken == IF key.view = "treemap" THEN {}
                    ELSE {a \in rest : Cardinality({b \in rest : b <= a}) <= PageSize}
           nxt == IF key.view = "treemap" \/ taken = rest THEN 0
                  ELSE CHOOSE a \in taken : \A b \in taken : b <= a
<1>1. snapshot.apps \subseteq Apps /\ snapshot.gen \in Nat \ {0}
  BY DEF Snapshots
<1>2. Matching(snapshot, key) \subseteq Apps /\ rest \subseteq Apps /\ taken \subseteq Apps
  BY <1>1 DEF Matching
<1>3. Apps \subseteq Nat /\ IsFiniteSet(Apps) /\ PageSize \in Nat \ {0}
  BY FleetConsoleAssumption
<1>4. Cardinality(Matching(snapshot, key)) \in 0..Cardinality(Apps)
  BY <1>2, <1>3, FS_Subset, FS_CardinalityType
<1>5. nxt \in Apps \cup {0}
  <2>1. CASE key.view = "treemap" \/ taken = rest
    BY <2>1
  <2>2. CASE key.view # "treemap" /\ taken # rest
    <3>1. rest # {}
      BY <2>2
    <3>2. PICK m \in rest : \A b \in rest : m <= b
      BY <1>2, <1>3, <3>1, LeastExists
    <3>3. {b \in rest : b <= m} = {m}
      <4>1. \A b \in rest : b \in Nat /\ m \in Nat /\ m <= b
        BY <1>2, <1>3, <3>2
      <4>2. \A b \in rest : b <= m <=> b = m
        BY <4>1
      <4> HIDE DEF rest
      <4> QED
        BY <4>2
    <3>4. Cardinality({b \in rest : b <= m}) <= PageSize
      BY <1>3, <3>3, FS_Singleton
    <3>5. m \in taken
      BY <2>2, <3>4
    <3>6. taken \subseteq Nat /\ IsFiniteSet(taken)
      BY <1>2, <1>3, FS_Subset
    <3> HIDE DEF taken, rest
    <3>7. \E a \in taken : \A b \in taken : b <= a
      BY <3>5, <3>6, GreatestExists
    <3> QED
      BY <1>2, <2>2, <3>7
  <2> QED
    BY <2>1, <2>2
<1>6. QueryApplications(snapshot, key, cursor) =
         [from |-> cursor, gen |-> snapshot.gen, total |-> Cardinality(Matching(snapshot, key)),
          apps |-> taken, next |-> nxt, facets |-> snapshot.apps \cap Tagged # {}]
  BY DEF QueryApplications
<1> HIDE DEF taken, nxt, rest
<1> QED
  BY <1>1, <1>2, <1>4, <1>5, <1>6 DEF Page

(* What a refreshed first page makes of the cached pages. *)
LEMMA RefreshedPages ==
  ASSUME NEW cached \in Seq(Page) \cup {None}, NEW first \in Page,
         first.from = 0, cached # None => Continue(cached)
  PROVE  /\ Refreshed(cached, first) \in Seq(Page)
         /\ Refreshed(cached, first) # <<>>
         /\ Head(Refreshed(cached, first)) = first
         /\ Continue(Refreshed(cached, first))
<1>1. CASE ~CanRetain(cached, first)
  BY <1>1 DEF Refreshed, Continue
<1>2. CASE CanRetain(cached, first)
  <2>1. cached \in Seq(Page) /\ cached # <<>> /\ Len(cached) > 1
    BY <1>2 DEF CanRetain
  <2> DEFINE all == <<first>> \o Tail(cached)
  <2>2. /\ Tail(cached) \in Seq(Page) /\ Len(Tail(cached)) = Len(cached) - 1
        /\ \A i \in 1..(Len(cached) - 1) : Tail(cached)[i] = cached[i + 1]
    BY <2>1, HeadTailProperties
  <2>3. /\ all \in Seq(Page) /\ Len(all) = Len(cached)
        /\ all[1] = first
        /\ \A i \in 2..Len(cached) : all[i] = cached[i]
    BY <2>1, <2>2
  <2>4. Head(all) = first /\ all # <<>>
    BY <2>1, <2>3
  <2>5. cached[1].next = first.next
    BY <1>2, <2>1 DEF CanRetain
  <2>6. \A i \in 2..Len(cached) : cached[i].from = cached[i - 1].next
    <3> TAKE i \in 2..Len(cached)
    <3>1. i \in DOMAIN cached /\ i # 1
      BY <2>1
    <3> QED
      BY <2>1, <3>1, NoneAssumption DEF Continue
  <2>7. \A i \in 2..Len(cached) : all[i].from = all[i - 1].next
    <3> TAKE i \in 2..Len(cached)
    <3>1. all[i].from = cached[i - 1].next
      BY <2>3, <2>6
    <3>2. CASE i = 2
      BY <2>3, <2>5, <3>1, <3>2
    <3>3. CASE i # 2
      <4>1. i - 1 \in 2..Len(cached)
        BY <2>1, <3>3
      <4> QED
        BY <2>3, <3>1, <4>1
    <3> QED
      BY <3>2, <3>3
  <2> HIDE DEF all
  <2>8. Continue(all)
    BY <2>1, <2>3, <2>7 DEF Continue
  <2> QED
    BY <1>2, <2>3, <2>4, <2>8 DEF Refreshed, all
<1> QED
  BY <1>1, <1>2

(* What an answer of load-more makes of the pages the cache holds. *)
LEMMA AppendedPages ==
  ASSUME NEW latest \in Seq(Page), NEW op \in Operations,
         op.answer # None, Fits(op), Continue(latest)
  PROVE  /\ Appended(latest, op) \in Seq(Page)
         /\ Continue(Appended(latest, op))
         /\ latest # <<>> => /\ Appended(latest, op) # <<>>
                             /\ Head(Appended(latest, op)) = Head(latest)
         /\ latest = <<>> => \/ Appended(latest, op) = <<>>
                             \/ Appended(latest, op) = <<op.answer>>
<1>1. op.answer \in Page
  BY DEF Operations
<1>2. CASE op.restarted
  BY <1>1, <1>2 DEF Appended, Fits, Continue
<1>3. CASE ~op.restarted /\ latest # op.base
  BY <1>3 DEF Appended
<1>4. CASE ~op.restarted /\ latest = op.base
  <2> DEFINE all == Append(latest, op.answer)
  <2>1. latest # <<>> /\ Len(latest) \in Nat /\ Len(latest) >= 1
    BY <1>4, EmptySeq DEF Fits
  <2>2. op.answer.from = latest[Len(latest)].next
    BY <1>4 DEF Fits, Last
  <2>3. /\ all \in Seq(Page) /\ all # <<>> /\ Len(all) = Len(latest) + 1
        /\ \A i \in 1..Len(latest) : all[i] = latest[i]
        /\ all[Len(latest) + 1] = op.answer
    BY <1>1, AppendProperties
  <2>4. \A i \in 1..Len(latest) : latest[i].from = IF i = 1 THEN 0 ELSE latest[i - 1].next
    BY DEF Continue
  <2> HIDE DEF all
  <2>5. Continue(all)
    <3> SUFFICES ASSUME NEW i \in 1..(Len(latest) + 1)
                 PROVE all[i].from = IF i = 1 THEN 0 ELSE all[i - 1].next
      BY <2>3 DEF Continue
    <3>1. CASE i = Len(latest) + 1
      BY <2>1, <2>2, <2>3, <3>1
    <3>2. CASE i # Len(latest) + 1
      <4>1. i \in 1..Len(latest) /\ (i # 1 => i - 1 \in 1..Len(latest))
        BY <2>1, <3>2
      <4> QED
        BY <2>3, <2>4, <4>1
    <3> QED
      BY <3>1, <3>2
  <2>6. Head(all) = Head(latest)
    BY <2>1, <2>3
  <2> QED
    BY <1>4, <2>1, <2>3, <2>5, <2>6 DEF Appended, all
<1> QED
  BY <1>2, <1>3, <1>4 DEF Operations

NotOlder == \A k \in Key : Stands(k)

(* A refresh that ends arms the timer of a visible page. *)
LEMMA FinishedTimer ==
  ASSUME TypeOK, NEW s, Finished(s)
  PROVE  /\ running' = FALSE /\ hidden' = hidden /\ timer' = ~hidden
         /\ timer' \in BOOLEAN
         /\ failureCount' \in 0..MaxFails
BY FleetConsoleAssumption DEF TypeOK, Finished

(* A fetch that ends leaves no refresh waiting for it. *)
LEMMA ReleasedTimer ==
  ASSUME TypeOK, RefreshNeverStops, RefreshAwaits, NEW s, Release(fetch, s)
  PROVE  /\ running' = FALSE /\ hidden' = hidden /\ timer' \in BOOLEAN
         /\ failureCount' \in 0..MaxFails
         /\ ~hidden' => timer'
<1>1. CASE fetch # None /\ fetch.poll
  <2>1. Finished(s)
    BY <1>1 DEF Release
  <2> QED
    BY <2>1, FinishedTimer DEF TypeOK
<1>2. CASE ~(fetch # None /\ fetch.poll)
  <2>1. UNCHANGED timing
    BY <1>2 DEF Release
  <2>2. running = FALSE
    BY <1>2 DEF RefreshAwaits, TypeOK
  <2>3. ~hidden => timer
    BY <1>2 DEF RefreshNeverStops
  <2> QED
    BY <2>1, <2>2, <2>3 DEF timing, TypeOK
<1> QED
  BY <1>1, <1>2

(* A step that leaves the cache alone makes nothing older. *)
LEMMA SameCache ==
  ASSUME TypeOK, cache' = cache
  PROVE  NotOlder
BY DEF NotOlder, Stands

(* The number of a request, and what is remembered when it is sent. *)
LEMMA SendTyped ==
  ASSUME TypeOK
  PROVE  /\ NextNo \in 0..MaxSent
         /\ Send => sent' = NextNo /\ sent' \in 0..MaxSent /\ asked' \in [Key -> 0..MaxSent]
<1>1. MaxSent \in Nat /\ sent \in 0..MaxSent
  BY FleetConsoleAssumption DEF TypeOK
<1>2. NextNo \in 0..MaxSent
  BY <1>1 DEF NextNo
<1> QED
  BY <1>1, <1>2 DEF Send, TypeOK

(* Nothing is ahead of the request that is sent now. *)
LEMMA SendLast ==
  ASSUME TypeOK, AnswersOrdered, Send
  PROVE  /\ \A k \in Key : asked'[k] <= sent'
         /\ operation # None => operation.no <= sent'
         /\ late # None => late.no <= sent'
<1>1. /\ MaxSent \in Nat /\ sent \in 0..MaxSent /\ \A k \in Key : asked[k] \in 0..MaxSent
      /\ operation # None => operation.no \in 0..MaxSent
      /\ late # None => late.no \in 0..MaxSent
  BY FleetConsoleAssumption DEF TypeOK, Operations
<1>2. CASE Quiet
  <2>1. sent' = 0 /\ asked' = [k \in Key |-> 0] /\ operation = None /\ late = None
    BY <1>2 DEF Send, NextNo, Quiet
  <2> QED
    BY <2>1
<1>3. CASE ~Quiet
  <2>1. asked' = asked /\ sent' \in Nat /\ sent <= sent'
    BY <1>1, <1>3 DEF Send, NextNo
  <2>2. \A n \in 0..MaxSent : n <= sent => n <= sent'
    BY <1>1, <2>1
  <2> QED
    BY <1>1, <2>1, <2>2 DEF AnswersOrdered
<1> QED
  BY <1>2, <1>3

(* A fetch of the shown query is well typed, unanswered and retains pages  *)
(* that continue.                                                          *)
LEMMA NewFetchTyped ==
  ASSUME TypeOK, PagesContinue, NEW k \in Key, NEW poll \in BOOLEAN
  PROVE  /\ NewFetch(k, poll) \in Fetches /\ NewFetch(k, poll) # None
         /\ NewFetch(k, poll).key = k /\ NewFetch(k, poll).poll = poll
         /\ NewFetch(k, poll).answer = None
         /\ NewFetch(k, poll).cached = cache[k] /\ NewFetch(k, poll).no = NextNo
         /\ cache[k] # None => Continue(cache[k])
<1>1. cache[k] \in Seq(Page) \cup {None}
  BY DEF TypeOK
<1>2. NewFetch(k, poll) \in Fetches
  BY <1>1, SendTyped DEF NewFetch, Fetches
<1>3. NewFetch(k, poll) # None
  BY <1>2, NoneAssumption
<1>4. cache[k] # None => Continue(cache[k])
  BY DEF PagesContinue, Has
<1> QED
  BY <1>2, <1>3, <1>4 DEF NewFetch

(* What a scheduled or a focused refresh does. *)
LEMMA RefreshStep ==
  ASSUME ConsoleInv, ~hidden, RunRefresh, UNCHANGED <<server, more, address>>
  PROVE  ConsoleInv' /\ NotOlder
<1> USE DEF ConsoleInv
<1>1. CASE running
  <2>1. UNCHANGED <<server, order, data, more, address, hidden, running, failureCount>>
        /\ timer' = FALSE
    BY <1>1 DEF RunRefresh
  <2>2. TypeOK'
    BY <2>1 DEF TypeOK, server, order, data, more, address
  <2>3. BusyIsReal' /\ RefreshNeverStops' /\ RefreshAwaits'
    BY <1>1, <2>1 DEF BusyIsReal, RefreshNeverStops, RefreshAwaits, data, more, address
  <2>4. PagesContinue' /\ AnswersFit' /\ AnswersOrdered'
    BY <2>1 DEF PagesContinue, AnswersFit, AnswersOrdered, Has, order, data, more, address
  <2> QED
    BY <2>1, <2>2, <2>3, <2>4, SameCache DEF data
<1>2. CASE ~running /\ operation # None /\ operation.key = url /\ Has(url)
  <2>1. /\ fetch' = None /\ cache' = cache /\ failedQuery' = failedQuery \ {url}
        /\ Finished(TRUE) /\ UNCHANGED order
    BY <1>2 DEF RunRefresh, Refetch
  <2>2. /\ running' = FALSE /\ hidden' = hidden /\ timer' = TRUE
        /\ failureCount' \in 0..MaxFails
    BY <2>1, FinishedTimer DEF TypeOK
  <2>4. TypeOK'
    BY <2>1, <2>2 DEF TypeOK, server, order, more, address
  <2>5. BusyIsReal' /\ RefreshNeverStops' /\ RefreshAwaits'
    BY <2>2 DEF BusyIsReal, RefreshNeverStops, RefreshAwaits, more, address
  <2>6. PagesContinue' /\ AnswersFit' /\ AnswersOrdered'
    BY <2>1 DEF PagesContinue, AnswersFit, AnswersOrdered, Has, order, more, address
  <2> QED
    BY <2>1, <2>4, <2>5, <2>6, SameCache
<1>3. CASE ~running /\ ~(operation # None /\ operation.key = url /\ Has(url))
  <2>1. /\ IF fetch # None /\ ~Has(url)
           THEN fetch' = [fetch EXCEPT !.poll = TRUE] /\ UNCHANGED order
           ELSE fetch' = NewFetch(url, TRUE) /\ Send
        /\ running' = TRUE /\ timer' = FALSE
        /\ UNCHANGED <<cache, failedQuery, hidden, failureCount>>
    BY <1>3 DEF RunRefresh, Refetch
  <2>2. operation = None
    BY <1>3 DEF AnswersFit, TypeOK
  <2>3. /\ fetch' \in Fetches /\ fetch' # None /\ fetch'.key = url /\ fetch'.poll = TRUE
        /\ fetch'.cached # None => Continue(fetch'.cached)
        /\ fetch'.answer # None => fetch # None /\ fetch'.answer = fetch.answer
        /\ sent' \in 0..MaxSent /\ asked' \in [Key -> 0..MaxSent]
        /\ AnswersOrdered'
    <3>1. CASE fetch # None /\ ~Has(url)
      <4>1. fetch' = [fetch EXCEPT !.poll = TRUE] /\ fetch \in Fetches /\ UNCHANGED order
        BY <2>1, <3>1 DEF TypeOK
      <4>2. fetch' \in Fetches
        BY <4>1 DEF Fetches
      <4>3. fetch'.key = url /\ fetch'.poll = TRUE /\ fetch'.cached = fetch.cached
            /\ fetch'.answer = fetch.answer /\ fetch'.no = fetch.no
        BY <3>1, <4>1 DEF Fetches, TypeOK
      <4>4. AnswersOrdered'
        BY <2>2, <3>1, <4>1, <4>3 DEF AnswersOrdered, TypeOK, order, more
      <4> QED
        BY <3>1, <4>1, <4>2, <4>3, <4>4, NoneAssumption DEF AnswersFit, TypeOK, order
    <3>2. CASE ~(fetch # None /\ ~Has(url))
      <4>1. fetch' = NewFetch(url, TRUE) /\ Send /\ url \in Key
        BY <2>1, <3>2 DEF TypeOK
      <4>2. /\ fetch' \in Fetches /\ fetch' # None /\ fetch'.key = url /\ fetch'.poll = TRUE
            /\ fetch'.cached # None => Continue(fetch'.cached)
            /\ fetch'.answer = None /\ fetch'.no = NextNo
        <5>1. TRUE \in BOOLEAN
          OBVIOUS
        <5>2. /\ NewFetch(url, TRUE) \in Fetches /\ NewFetch(url, TRUE) # None
              /\ NewFetch(url, TRUE).key = url /\ NewFetch(url, TRUE).poll = TRUE
              /\ NewFetch(url, TRUE).answer = None /\ NewFetch(url, TRUE).no = NextNo
              /\ NewFetch(url, TRUE).cached = cache[url]
              /\ cache[url] # None => Continue(cache[url])
          BY <4>1, <5>1, NewFetchTyped
        <5> QED
          BY <4>1, <5>2
      <4>3. sent' = NextNo /\ sent' \in 0..MaxSent /\ asked' \in [Key -> 0..MaxSent]
        BY <4>1, SendTyped
      <4>4. /\ \A k \in Key : asked'[k] <= sent'
            /\ late # None => late.no <= sent'
        BY <4>1, SendLast
      <4>5. sent' <= sent'
        BY <4>3
      <4>6. AnswersOrdered'
        BY <2>2, <4>1, <4>2, <4>3, <4>4, <4>5 DEF AnswersOrdered, more
      <4> QED
        BY <4>2, <4>3, <4>6
    <3> QED
      BY <3>1, <3>2
  <2>4. TypeOK'
    BY <2>1, <2>2, <2>3 DEF TypeOK, server, more, address
  <2>5. BusyIsReal' /\ RefreshNeverStops' /\ RefreshAwaits'
    BY <2>1, <2>3 DEF BusyIsReal, RefreshNeverStops, RefreshAwaits, more, address
  <2>6. PagesContinue' /\ AnswersFit'
    BY <2>1, <2>2, <2>3 DEF PagesContinue, AnswersFit, Has, more, address
  <2> QED
    BY <2>1, <2>3, <2>4, <2>5, <2>6, SameCache
<1> QED
  BY <1>1, <1>2, <1>3 DEF TypeOK

(* The timer, the window and the page's visibility. *)
LEMMA TimingStep ==
  ASSUME ConsoleInv, TimerFires \/ WindowFocus \/ VisibilityChange
  PROVE  ConsoleInv' /\ NotOlder
<1>1. CASE TimerFires
  BY <1>1, RefreshStep DEF TimerFires
<1>2. CASE WindowFocus
  BY <1>2, RefreshStep DEF WindowFocus
<1>3. CASE VisibilityChange
  <2> USE DEF ConsoleInv
  <2>1. /\ hidden' = ~hidden /\ timer' = hidden
        /\ UNCHANGED <<server, order, data, more, address, running, failureCount>>
    BY <1>3 DEF VisibilityChange
  <2>2. TypeOK'
    BY <2>1 DEF TypeOK, server, order, data, more, address
  <2>3. BusyIsReal' /\ RefreshNeverStops' /\ RefreshAwaits'
    BY <2>1 DEF BusyIsReal, RefreshNeverStops, RefreshAwaits, TypeOK, data, more, address
  <2>4. PagesContinue' /\ AnswersFit' /\ AnswersOrdered'
    BY <2>1 DEF PagesContinue, AnswersFit, AnswersOrdered, Has, order, data, more, address
  <2> QED
    BY <2>1, <2>2, <2>3, <2>4, SameCache DEF data
<1> QED
  BY <1>1, <1>2, <1>3

(* Some replica answers the first-page fetch, from the start. *)
LEMMA AnswersFetchStep ==
  ASSUME ConsoleInv, ServerAnswersFetch
  PROVE  ConsoleInv' /\ NotOlder
<1> USE DEF ConsoleInv
<1>0. PICK s \in Replicas :
         fetch' = [fetch EXCEPT !.answer = QueryApplications(index[s], fetch.key, 0)]
  BY DEF ServerAnswersFetch
<1> DEFINE got == QueryApplications(index[s], fetch.key, 0)
<1>1. /\ fetch # None /\ fetch' = [fetch EXCEPT !.answer = got]
      /\ UNCHANGED <<server, order, cache, failedQuery, more, timing, address>>
  BY <1>0 DEF ServerAnswersFetch
<1>2. fetch \in Fetches /\ fetch.key \in Key /\ index[s] \in Snapshots
  BY <1>1 DEF TypeOK, Fetches
<1>3. got \in Page /\ got.from = 0
  BY <1>2, PageTyped
<1> HIDE DEF got
<1>4. fetch' \in Fetches
  BY <1>1, <1>2, <1>3 DEF Fetches
<1>5. /\ fetch' # None /\ fetch'.key = fetch.key /\ fetch'.poll = fetch.poll
      /\ fetch'.cached = fetch.cached /\ fetch'.answer = got /\ fetch'.no = fetch.no
  BY <1>1, <1>2, <1>4, NoneAssumption DEF Fetches
<1>6. TypeOK'
  BY <1>1, <1>4, <1>5 DEF TypeOK, server, order, more, timing, address
<1>7. BusyIsReal' /\ RefreshNeverStops' /\ RefreshAwaits'
  BY <1>1, <1>5 DEF BusyIsReal, RefreshNeverStops, RefreshAwaits, more, timing
<1>8. PagesContinue' /\ AnswersFit'
  BY <1>1, <1>3, <1>5 DEF PagesContinue, AnswersFit, Has, more
<1>9. AnswersOrdered'
  BY <1>1, <1>5 DEF AnswersOrdered, order, more
<1> QED
  BY <1>1, <1>6, <1>7, <1>8, <1>9, SameCache

(* The first page arrives: it continues with what it retains, and was      *)
(* asked for after what it replaces.                                       *)
LEMMA FetchSucceedsStep ==
  ASSUME ConsoleInv, FetchSucceeds
  PROVE  ConsoleInv' /\ NotOlder
<1> USE DEF ConsoleInv
<1> DEFINE key == fetch.key
           pages == Refreshed(fetch.cached, fetch.answer)
<1>1. /\ fetch # None /\ fetch.answer # None /\ fetch' = None
      /\ cache' = [cache EXCEPT ![key] = pages]
      /\ failedQuery' = failedQuery \ {key}
      /\ Release(fetch, TRUE) /\ asked' = [asked EXCEPT ![key] = fetch.no]
      /\ UNCHANGED <<server, sent, more, address>>
  BY DEF FetchSucceeds
<1>2. fetch \in Fetches /\ key \in Key /\ key = url /\ operation = None
  BY <1>1 DEF TypeOK, Fetches
<1>3. /\ fetch.answer \in Page /\ fetch.answer.from = 0
      /\ fetch.cached \in Seq(Page) \cup {None}
      /\ fetch.cached # None => Continue(fetch.cached)
  BY <1>1, <1>2 DEF Fetches, AnswersFit
<1>4. /\ pages \in Seq(Page) /\ pages # <<>> /\ Head(pages) = fetch.answer
      /\ Continue(pages)
  BY <1>3, RefreshedPages
<1>5. /\ running' = FALSE /\ hidden' = hidden /\ timer' \in BOOLEAN
      /\ failureCount' \in 0..MaxFails /\ (~hidden' => timer')
  BY <1>1, ReleasedTimer
<1>6. /\ fetch.no \in 0..MaxSent /\ fetch.no <= sent /\ asked[key] <= fetch.no
      /\ asked' \in [Key -> 0..MaxSent] /\ asked'[key] = fetch.no
      /\ \A k \in Key \ {key} : asked'[k] = asked[k]
  BY <1>1, <1>2 DEF TypeOK, Fetches, AnswersOrdered
<1> HIDE DEF key, pages
<1>7. cache'[key] = pages /\ \A k \in Key \ {key} : cache'[k] = cache[k]
  BY <1>1, <1>2 DEF TypeOK
<1>8. TypeOK'
  BY <1>1, <1>2, <1>4, <1>5, <1>6 DEF TypeOK, server, order, more, address
<1>9. BusyIsReal' /\ RefreshNeverStops' /\ RefreshAwaits'
  BY <1>1, <1>5 DEF BusyIsReal, RefreshNeverStops, RefreshAwaits, more, TypeOK
<1>10. PagesContinue' /\ AnswersFit'
  BY <1>1, <1>2, <1>4, <1>7 DEF PagesContinue, AnswersFit, Has, more
<1>11. AnswersOrdered'
  BY <1>1, <1>6 DEF AnswersOrdered, more
<1>12. NotOlder
  <2> SUFFICES ASSUME NEW k \in Key PROVE Stands(k)
    BY DEF NotOlder
  <2>1. CASE k = key
    BY <1>4, <1>6, <1>7, <2>1, NoneAssumption DEF Stands
  <2>2. CASE k # key
    BY <1>7, <2>2 DEF Stands
  <2> QED
    BY <2>1, <2>2
<1> QED
  BY <1>8, <1>9, <1>10, <1>11, <1>12

(* The first page fails to arrive. *)
LEMMA FetchFailsStep ==
  ASSUME ConsoleInv, FetchFails
  PROVE  ConsoleInv' /\ NotOlder
<1> USE DEF ConsoleInv
<1>1. /\ fetch # None /\ fetch' = None
      /\ failedQuery' = failedQuery \cup {fetch.key}
      /\ Release(fetch, FALSE)
      /\ UNCHANGED <<server, order, cache, more, address>>
  BY DEF FetchFails
<1>2. fetch.key \in Key
  BY <1>1 DEF TypeOK, Fetches
<1>3. /\ running' = FALSE /\ hidden' = hidden /\ timer' \in BOOLEAN
      /\ failureCount' \in 0..MaxFails /\ (~hidden' => timer')
  BY <1>1, ReleasedTimer
<1>5. TypeOK'
  BY <1>1, <1>2, <1>3 DEF TypeOK, server, order, more, address
<1>6. BusyIsReal' /\ RefreshNeverStops' /\ RefreshAwaits'
  BY <1>1, <1>3 DEF BusyIsReal, RefreshNeverStops, RefreshAwaits, more
<1>7. PagesContinue' /\ AnswersFit' /\ AnswersOrdered'
  BY <1>1 DEF PagesContinue, AnswersFit, AnswersOrdered, Has, order, more
<1> QED
  BY <1>1, <1>5, <1>6, <1>7, SameCache
(* Load-more begins: it asks for what follows the last page shown. *)
LEMMA LoadMoreStep ==
  ASSUME ConsoleInv, LoadMore
  PROVE  ConsoleInv' /\ NotOlder
<1> USE DEF ConsoleInv
<1> DEFINE op == [key |-> url, base |-> cache[url], cursor |-> Last(cache[url]).next,
                  restarted |-> FALSE, answer |-> None, no |-> NextNo]
<1>1. /\ HasMore /\ operation' = op /\ loadingMoreKey' = url /\ fetch' = None
      /\ operation = None /\ Release(fetch, TRUE) /\ Send
      /\ UNCHANGED <<server, cache, failedQuery, late, loadMoreError, recovered, address>>
  BY DEF LoadMore
<1>2. url \in Key /\ cache[url] \in Seq(Page) /\ cache[url] # <<>>
  BY <1>1 DEF TypeOK, HasMore, Has
<1>3. Last(cache[url]) \in Page
  <2>1. Len(cache[url]) \in 1..Len(cache[url])
    BY <1>2, EmptySeq
  <2> QED
    BY <1>2, <2>1, ElementOfSeq DEF Last
<1>4. Last(cache[url]).next \in Apps
  BY <1>1, <1>3 DEF Page, HasMore
<1>5. op \in Operations /\ op # None
  <2>1. op \in Operations
    BY <1>2, <1>4, SendTyped DEF Operations
  <2> QED
    BY <2>1, NoneAssumption
<1>6. /\ op.key = url /\ op.answer = None /\ op.no = NextNo
      /\ op.base = cache[url] /\ op.cursor = Last(cache[url]).next
  OBVIOUS
<1> HIDE DEF op
<1>7. Fits(op)
  BY <1>2, <1>6 DEF Fits
<1>8. /\ running' = FALSE /\ hidden' = hidden /\ timer' \in BOOLEAN
      /\ failureCount' \in 0..MaxFails /\ (~hidden' => timer')
  BY <1>1, ReleasedTimer
<1>9. /\ sent' = op.no /\ sent' \in 0..MaxSent /\ asked' \in [Key -> 0..MaxSent]
      /\ \A k \in Key : asked'[k] <= sent'
      /\ late # None => late.no <= sent'
  BY <1>1, <1>6, SendTyped, SendLast
<1>10. TypeOK'
  BY <1>1, <1>2, <1>5, <1>6, <1>8, <1>9 DEF TypeOK, server, address
<1>11. BusyIsReal' /\ RefreshNeverStops' /\ RefreshAwaits'
  BY <1>1, <1>5, <1>6, <1>8 DEF BusyIsReal, RefreshNeverStops, RefreshAwaits
<1>12. PagesContinue' /\ AnswersOrdered'
  <2>1. sent' <= sent'
    BY <1>9
  <2> QED
    BY <1>1, <1>9, <2>1 DEF PagesContinue, AnswersOrdered, Has
<1>13. AnswersFit'
  BY <1>1, <1>6, <1>7 DEF AnswersFit, Has, HasMore, Fits
<1> QED
  BY <1>1, <1>10, <1>11, <1>12, <1>13, SameCache

(* Some replica answers load-more: the page after its cursor, or, restarted, *)
(* the first one.                                                          *)
LEMMA AnswersMoreStep ==
  ASSUME ConsoleInv, ServerAnswersMore
  PROVE  ConsoleInv' /\ NotOlder
<1> USE DEF ConsoleInv
<1> DEFINE from == IF operation.restarted THEN 0 ELSE operation.cursor
<1>0. PICK s \in Replicas :
         operation' = [operation EXCEPT !.answer =
                          QueryApplications(index[s], operation.key, from)]
  BY DEF ServerAnswersMore
<1> DEFINE got == QueryApplications(index[s], operation.key, from)
<1>1. /\ operation # None /\ operation' = [operation EXCEPT !.answer = got]
      /\ UNCHANGED <<server, order, data, late, loadMoreError, loadingMoreKey, recovered,
                     timing, address>>
  BY <1>0 DEF ServerAnswersMore
<1>2. /\ operation \in Operations /\ operation.key \in Key /\ from \in Apps \cup {0}
      /\ index[s] \in Snapshots
  BY <1>1 DEF TypeOK, Operations
<1>3. got \in Page /\ got.from = from
  BY <1>2, PageTyped
<1> HIDE DEF got
<1>4. operation' \in Operations
  BY <1>1, <1>2, <1>3 DEF Operations
<1>5. /\ operation' # None /\ operation'.key = operation.key /\ operation'.answer = got
      /\ operation'.base = operation.base /\ operation'.cursor = operation.cursor
      /\ operation'.restarted = operation.restarted /\ operation'.no = operation.no
  BY <1>1, <1>2, <1>4, NoneAssumption DEF Operations
<1>6. TypeOK'
  BY <1>1, <1>4, <1>5 DEF TypeOK, server, order, data, timing, address
<1>7. BusyIsReal' /\ RefreshNeverStops' /\ RefreshAwaits'
  BY <1>1, <1>5 DEF BusyIsReal, RefreshNeverStops, RefreshAwaits, data, timing
<1>8. PagesContinue'
  BY <1>1 DEF PagesContinue, Has, data
<1>9. AnswersFit'
  BY <1>1, <1>3, <1>5 DEF AnswersFit, Fits, Has, data
<1>10. AnswersOrdered'
  BY <1>1, <1>5 DEF AnswersOrdered, order, data
<1> QED
  BY <1>1, <1>6, <1>7, <1>8, <1>9, <1>10, SameCache DEF data

(* What the updater of load-more leaves in the cache, for an operation in  *)
(* flight or one that was aborted with its answer on the way: it brings a  *)
(* first page only where there was none.                                   *)
LEMMA SetPages ==
  ASSUME ConsoleInv, NEW op \in Operations, op.answer # None, Fits(op), SetQueryData(op)
  PROVE  /\ cache' \in [Key -> Seq(Page) \cup {None}]
         /\ failedQuery' \subseteq Key
         /\ PagesContinue'
         /\ NotOlder
         /\ \A k \in Key : cache[k] # None => cache'[k] # None
         /\ asked' \in [Key -> 0..MaxSent]
         /\ \A k \in Key : asked'[k] \in {asked[k], op.no}
<1> USE DEF ConsoleInv
<1>1. op.key \in Key /\ op.no \in 0..MaxSent
  BY DEF Operations
<1>2. /\ asked' \in [Key -> 0..MaxSent]
      /\ \A k \in Key : asked'[k] \in {asked[k], op.no}
      /\ ~BringsFirst(op) => asked' = asked
  BY <1>1 DEF SetQueryData, TypeOK
<1>3. CASE cache[op.key] = None
  <2>1. cache' = cache
    BY <1>1, <1>3 DEF SetQueryData, TypeOK
  <2>2. NotOlder
    BY <2>1, SameCache
  <2>3. cache' \in [Key -> Seq(Page) \cup {None}] /\ failedQuery' \subseteq Key
    BY <1>3, <2>1 DEF SetQueryData, TypeOK
  <2>4. PagesContinue'
    BY <2>1 DEF PagesContinue, Has
  <2> QED
    BY <1>2, <2>1, <2>2, <2>3, <2>4
<1>4. CASE cache[op.key] # None
  <2> DEFINE latest == cache[op.key]
             pages == Appended(latest, op)
  <2>1. cache' = [cache EXCEPT ![op.key] = pages] /\ failedQuery' \subseteq failedQuery
    BY <1>1, <1>4 DEF SetQueryData
  <2>2. latest \in Seq(Page) /\ Continue(latest)
    BY <1>1, <1>4 DEF TypeOK, PagesContinue, Has
  <2>3. /\ pages \in Seq(Page) /\ Continue(pages)
        /\ latest # <<>> => pages # <<>> /\ Head(pages) = Head(latest)
    BY <2>2, AppendedPages
  <2> HIDE DEF pages
  <2>4. /\ cache'[op.key] = pages /\ pages # None
        /\ \A k \in Key \ {op.key} : cache'[k] = cache[k]
    BY <1>1, <2>1, <2>3, NoneAssumption DEF TypeOK
  <2>5. cache' \in [Key -> Seq(Page) \cup {None}]
    BY <2>1, <2>3 DEF TypeOK
  <2>6. PagesContinue'
    BY <2>3, <2>4 DEF PagesContinue, Has
  <2>7. NotOlder
    <3> SUFFICES ASSUME NEW k \in Key, cache[k] \notin {None, <<>>} PROVE Stands(k)
      BY DEF NotOlder, Stands
    <3>1. Head(cache'[k]) = Head(cache[k]) /\ cache'[k] # None
      BY <2>3, <2>4
    <3> QED
      BY <3>1 DEF Stands
  <2> QED
    BY <1>2, <2>1, <2>4, <2>5, <2>6, <2>7 DEF TypeOK
<1> QED
  BY <1>3, <1>4

(* The next page arrives. *)
LEMMA MoreSucceedsStep ==
  ASSUME ConsoleInv, MoreSucceeds
  PROVE  ConsoleInv' /\ NotOlder
<1> USE DEF ConsoleInv
<1>1. /\ operation # None /\ operation.answer # None /\ SetQueryData(operation)
      /\ operation' = None /\ loadingMoreKey' = None /\ loadMoreError' = None
      /\ recovered' \subseteq recovered
      /\ UNCHANGED <<server, sent, fetch, late, timing, address>>
  BY DEF MoreSucceeds, EndOperation
<1>2. operation \in Operations /\ Fits(operation) /\ fetch = None
  BY <1>1 DEF TypeOK, AnswersFit
<1>3. /\ cache' \in [Key -> Seq(Page) \cup {None}]
      /\ failedQuery' \subseteq Key
      /\ PagesContinue'
      /\ NotOlder
      /\ asked' \in [Key -> 0..MaxSent]
      /\ \A k \in Key : asked'[k] \in {asked[k], operation.no}
  BY <1>1, <1>2, SetPages
<1>4. TypeOK'
  BY <1>1, <1>2, <1>3 DEF TypeOK, server, timing, address
<1>5. BusyIsReal' /\ RefreshNeverStops' /\ RefreshAwaits'
  BY <1>1 DEF BusyIsReal, RefreshNeverStops, RefreshAwaits, timing
<1>6. AnswersFit'
  BY <1>1, <1>2 DEF AnswersFit
<1>7. AnswersOrdered'
  <2>1. \A k \in Key : asked'[k] <= sent'
    BY <1>1, <1>3 DEF AnswersOrdered
  <2> QED
    BY <1>1, <1>2, <2>1 DEF AnswersOrdered
<1> QED
  BY <1>3, <1>4, <1>5, <1>6, <1>7

(* The answer of an aborted operation arrives. *)
LEMMA LateAnswerStep ==
  ASSUME ConsoleInv, LateAnswer
  PROVE  ConsoleInv' /\ NotOlder
<1> USE DEF ConsoleInv
<1>1. /\ late # None /\ SetQueryData(late) /\ late' = None
      /\ UNCHANGED <<server, sent, fetch, operation, loadMoreError, loadingMoreKey, recovered,
                     timing, address>>
  BY DEF LateAnswer
<1>2. late \in Operations /\ Fits(late) /\ late.answer # None
  BY <1>1 DEF TypeOK, AnswersFit
<1>3. /\ cache' \in [Key -> Seq(Page) \cup {None}]
      /\ failedQuery' \subseteq Key
      /\ PagesContinue'
      /\ NotOlder
      /\ \A k \in Key : cache[k] # None => cache'[k] # None
      /\ asked' \in [Key -> 0..MaxSent]
      /\ \A k \in Key : asked'[k] \in {asked[k], late.no}
  BY <1>1, <1>2, SetPages
<1>4. TypeOK'
  BY <1>1, <1>3 DEF TypeOK, server, timing, address
<1>5. BusyIsReal' /\ RefreshNeverStops' /\ RefreshAwaits'
  BY <1>1 DEF BusyIsReal, RefreshNeverStops, RefreshAwaits, timing
<1>6. operation # None => operation.key \in Key
  BY DEF TypeOK, Operations
<1>7. AnswersFit'
  BY <1>1, <1>3, <1>6 DEF AnswersFit, Has, Fits
<1>8. fetch # None => fetch.key \in Key
  BY DEF TypeOK, Fetches
<1>9. AnswersOrdered'
  <2>1. \A k \in Key : asked'[k] <= sent'
    BY <1>1, <1>3 DEF AnswersOrdered
  <2>2. fetch # None => asked'[fetch.key] <= fetch.no
    BY <1>1, <1>3, <1>8 DEF AnswersOrdered
  <2> QED
    BY <1>1, <2>1, <2>2 DEF AnswersOrdered
<1> QED
  BY <1>3, <1>4, <1>5, <1>7, <1>9

(* A cursor is rejected: the pages are discarded, page one is asked for. *)
LEMMA CursorRejectedStep ==
  ASSUME ConsoleInv, CursorRejected
  PROVE  ConsoleInv' /\ NotOlder
<1> USE DEF ConsoleInv
<1>1. /\ operation # None /\ recovered' = recovered \cup {operation.cursor}
      /\ cache' = [cache EXCEPT ![operation.key] = <<>>]
      /\ failedQuery' = failedQuery \ {operation.key}
      /\ operation' = [operation EXCEPT !.restarted = TRUE, !.answer = None,
                                            !.no = NextNo]
      /\ Send
      /\ UNCHANGED <<server, fetch, late, loadMoreError, loadingMoreKey, timing, address>>
  BY DEF CursorRejected
<1>2. /\ operation \in Operations /\ operation.key \in Key /\ operation.cursor \in Apps
      /\ fetch = None /\ Fits(operation)
  BY <1>1 DEF TypeOK, Operations, AnswersFit
<1>3. operation' \in Operations
  BY <1>1, <1>2, SendTyped DEF Operations
<1>4. /\ operation' # None /\ operation'.no = NextNo /\ operation'.key = operation.key /\ operation'.answer = None
      /\ operation'.base = operation.base /\ operation'.cursor = operation.cursor
  BY <1>1, <1>2, <1>3, NoneAssumption DEF Operations
<1>5. <<>> \in Seq(Page) /\ <<>> # None
  BY NoneAssumption, EmptySeq
<1>6. /\ cache' \in [Key -> Seq(Page) \cup {None}] /\ cache'[operation.key] = <<>>
      /\ \A k \in Key \ {operation.key} : cache'[k] = cache[k]
  BY <1>1, <1>2, <1>5 DEF TypeOK
<1>7. /\ sent' = NextNo /\ sent' \in 0..MaxSent /\ asked' \in [Key -> 0..MaxSent]
      /\ \A k \in Key : asked'[k] <= sent'
      /\ late # None => late.no <= sent'
  BY <1>1, SendTyped, SendLast
<1>8. TypeOK'
  BY <1>1, <1>2, <1>3, <1>4, <1>6, <1>7 DEF TypeOK, server, timing, address
<1>9. BusyIsReal' /\ RefreshNeverStops' /\ RefreshAwaits'
  BY <1>1, <1>4 DEF BusyIsReal, RefreshNeverStops, RefreshAwaits, timing
<1>10. PagesContinue'
  BY <1>6 DEF PagesContinue, Has, Continue
<1>11. AnswersFit'
  BY <1>1, <1>2, <1>4, <1>5, <1>6 DEF AnswersFit, Fits, Has
<1>12. AnswersOrdered'
  <2>1. operation'.no <= sent'
    BY <1>4, <1>7
  <2> QED
    BY <1>1, <1>2, <1>7, <2>1 DEF AnswersOrdered
<1>13. NotOlder
  BY <1>6 DEF NotOlder, Stands
<1> QED
  BY <1>8, <1>9, <1>10, <1>11, <1>12, <1>13

(* Load-more fails. *)
LEMMA MoreFailsStep ==
  ASSUME ConsoleInv, MoreFails
  PROVE  ConsoleInv' /\ NotOlder
<1> USE DEF ConsoleInv
<1>1. /\ operation # None /\ loadMoreError' = operation.key
      /\ operation' = None /\ loadingMoreKey' = None
      /\ UNCHANGED <<server, order, data, late, recovered, timing, address>>
  BY DEF MoreFails, EndOperation
<1>2. operation.key \in Key
  BY <1>1 DEF TypeOK, Operations
<1>4. TypeOK'
  BY <1>1, <1>2 DEF TypeOK, server, order, data, timing, address
<1>5. BusyIsReal' /\ RefreshNeverStops' /\ RefreshAwaits'
  BY <1>1 DEF BusyIsReal, RefreshNeverStops, RefreshAwaits, data, timing
<1>6. PagesContinue' /\ AnswersFit' /\ AnswersOrdered'
  BY <1>1 DEF PagesContinue, AnswersFit, AnswersOrdered, Has, order, data
<1> QED
  BY <1>1, <1>4, <1>5, <1>6, SameCache DEF data
(* The operator, or the correction of the query, asks for a navigation. *)
LEMMA AskStep ==
  ASSUME ConsoleInv, PatchState \/ ReconcileEffect
  PROVE  ConsoleInv' /\ NotOlder
<1> USE DEF ConsoleInv
<1>1. UNCHANGED <<server, order, data, more, timing, url>> /\ nav' \in Key
  <2>1. CASE PatchState
    BY <2>1 DEF PatchState
  <2>2. CASE ReconcileEffect
    <3>1. /\ nav' = Reconciled(url, DataStatus)
          /\ UNCHANGED <<server, order, data, more, timing, url>>
      BY <2>2 DEF ReconcileEffect
    <3>2. url \in Key
      BY DEF TypeOK
    <3>3. Reconciled(url, DataStatus) \in Key
      BY <3>2, KeyAssumption DEF Reconciled
    <3> QED
      BY <3>1, <3>3
  <2> QED
    BY <2>1, <2>2
<1>2. TypeOK'
  BY <1>1 DEF TypeOK, server, order, data, more, timing
<1>3. BusyIsReal' /\ RefreshNeverStops' /\ RefreshAwaits'
  BY <1>1 DEF BusyIsReal, RefreshNeverStops, RefreshAwaits, data, more, timing
<1>4. PagesContinue' /\ AnswersFit' /\ AnswersOrdered'
  BY <1>1 DEF PagesContinue, AnswersFit, AnswersOrdered, Has, order, data, more
<1> QED
  BY <1>1, <1>2, <1>3, <1>4, SameCache DEF data

(* A navigation: the fetch and the operation of the old query end, and an  *)
(* answer of the operation may still be on its way.                        *)
LEMMA NavigateStep ==
  ASSUME ConsoleInv, Navigate
  PROVE  ConsoleInv' /\ NotOlder
<1> USE DEF ConsoleInv
<1>1. /\ nav \in Key /\ nav' = None /\ url' = nav
      /\ UNCHANGED <<server, cache, failedQuery, loadMoreError>>
  BY DEF Navigate, TypeOK
<1>2. CASE nav = url
  <2>1. UNCHANGED <<order, fetch, operation, late, loadingMoreKey, recovered, timing>>
    BY <1>2 DEF Navigate
  <2>2. TypeOK'
    BY <1>1, <1>2, <2>1 DEF TypeOK, server, order, timing
  <2>3. BusyIsReal' /\ RefreshNeverStops' /\ RefreshAwaits'
    BY <1>1, <2>1 DEF BusyIsReal, RefreshNeverStops, RefreshAwaits, timing
  <2>4. PagesContinue' /\ AnswersFit' /\ AnswersOrdered'
    BY <1>1, <2>1 DEF PagesContinue, AnswersFit, AnswersOrdered, Has, order
  <2> QED
    BY <1>1, <2>2, <2>3, <2>4, SameCache
<1>3. CASE nav # url
  <2>1. /\ \/ fetch' = NewFetch(nav, FALSE) /\ Send
           \/ fetch' = None /\ UNCHANGED order
        /\ Release(fetch, Has(url))
        /\ late' = IF operation # None /\ operation.answer # None THEN operation ELSE late
        /\ operation' = None /\ loadingMoreKey' = None
        /\ recovered' = {}
    BY <1>3 DEF Navigate, EndOperation
  <2>2. /\ fetch' \in Fetches \cup {None}
        /\ fetch' # None => /\ fetch'.key = nav /\ fetch'.answer = None
                            /\ Send /\ fetch'.no = NextNo
                            /\ fetch'.cached # None => Continue(fetch'.cached)
    <3>1. FALSE \in BOOLEAN
      OBVIOUS
    <3>2. CASE fetch' = NewFetch(nav, FALSE) /\ Send
      <4>1. /\ NewFetch(nav, FALSE) \in Fetches /\ NewFetch(nav, FALSE).key = nav
            /\ NewFetch(nav, FALSE).answer = None /\ NewFetch(nav, FALSE).no = NextNo
            /\ NewFetch(nav, FALSE).cached = cache[nav]
            /\ cache[nav] # None => Continue(cache[nav])
        BY <1>1, <3>1, NewFetchTyped
      <4> QED
        BY <3>2, <4>1
    <3>3. CASE fetch' = None
      BY <3>3
    <3> QED
      BY <2>1, <3>2, <3>3
  <2>3. /\ running' = FALSE /\ hidden' = hidden /\ timer' \in BOOLEAN
        /\ failureCount' \in 0..MaxFails /\ (~hidden' => timer')
    BY <2>1, ReleasedTimer
  <2>4. /\ sent' \in 0..MaxSent /\ asked' \in [Key -> 0..MaxSent]
        /\ \A k \in Key : asked'[k] <= sent'
        /\ late # None => late.no <= sent'
        /\ operation # None => operation.no <= sent'
        /\ fetch' # None => fetch'.no = sent'
    <3>1. CASE Send
      BY <2>1, <2>2, <3>1, SendTyped, SendLast
    <3>2. CASE ~Send
      BY <2>1, <2>2, <3>2 DEF order, TypeOK, AnswersOrdered
    <3> QED
      BY <3>1, <3>2
  <2>5. TypeOK'
    BY <1>1, <2>1, <2>2, <2>3, <2>4 DEF TypeOK, server
  <2>6. BusyIsReal' /\ RefreshNeverStops' /\ RefreshAwaits'
    BY <2>1, <2>3 DEF BusyIsReal, RefreshNeverStops, RefreshAwaits
  <2>7. PagesContinue'
    BY <1>1 DEF PagesContinue, Has
  <2>8. AnswersFit'
    BY <2>1, <2>2 DEF AnswersFit, Fits
  <2>9. AnswersOrdered'
    <3>1. late' # None => late'.no <= sent'
      BY <2>1, <2>4
    <3>2. fetch' # None => fetch'.key \in Key /\ fetch'.no = sent' /\ sent' <= sent'
      BY <1>1, <2>2, <2>4
    <3> QED
      BY <2>1, <2>4, <3>1, <3>2 DEF AnswersOrdered
  <2> QED
    BY <1>1, <2>5, <2>6, <2>7, <2>8, <2>9, SameCache
<1> QED
  BY <1>2, <1>3

(* The fleet changes, and the replicas publish snapshots of it. *)
LEMMA ServerStep ==
  ASSUME ConsoleInv, FleetChanges \/ \E s \in Replicas : ApplyDeltas(s) \/ Rebuild(s)
  PROVE  ConsoleInv' /\ NotOlder
<1> USE DEF ConsoleInv
<1>1. /\ fleet' \subseteq Apps /\ index' \in [Replicas -> Snapshots]
      /\ UNCHANGED page
  <2>0. fleet \subseteq Apps /\ index \in [Replicas -> Snapshots]
    BY DEF TypeOK
  <2>1. CASE FleetChanges
    BY <2>0, <2>1 DEF FleetChanges
  <2>2. ASSUME NEW s \in Replicas, ApplyDeltas(s)
        PROVE  fleet' = fleet /\ index' \in [Replicas -> Snapshots] /\ UNCHANGED page
    <3>1. [gen |-> index[s].gen + 1, apps |-> fleet] \in Snapshots
      BY <2>0 DEF Snapshots
    <3> QED
      BY <2>0, <2>2, <3>1 DEF ApplyDeltas
  <2>3. ASSUME NEW s \in Replicas, Rebuild(s)
        PROVE  fleet' = fleet /\ index' \in [Replicas -> Snapshots] /\ UNCHANGED page
    <3>1. [gen |-> 1, apps |-> fleet] \in Snapshots
      BY <2>0 DEF Snapshots
    <3> QED
      BY <2>0, <2>3, <3>1 DEF Rebuild
  <2> QED
    BY <2>0, <2>1, <2>2, <2>3
<1>2. UNCHANGED <<order, data, more, timing, address>>
  BY <1>1 DEF page
<1>3. TypeOK'
  BY <1>1, <1>2 DEF TypeOK, order, data, more, timing, address
<1>4. BusyIsReal' /\ RefreshNeverStops' /\ RefreshAwaits'
  BY <1>2 DEF BusyIsReal, RefreshNeverStops, RefreshAwaits, data, more, timing
<1>5. PagesContinue' /\ AnswersFit' /\ AnswersOrdered'
  BY <1>2 DEF PagesContinue, AnswersFit, AnswersOrdered, Has, order, data, more
<1> QED
  BY <1>2, <1>3, <1>4, <1>5, SameCache DEF data

(* Every step keeps the page together and shows nothing older. *)
LEMMA ConsoleStep ==
  ASSUME ConsoleInv, [Next]_vars
  PROVE  ConsoleInv' /\ NotOlder
<1>1. CASE UNCHANGED vars
  <2> USE DEF ConsoleInv
  <2>1. UNCHANGED <<server, order, data, more, timing, address>>
    BY <1>1 DEF vars
  <2>2. TypeOK'
    BY <2>1 DEF TypeOK, server, order, data, more, timing, address
  <2>3. BusyIsReal' /\ RefreshNeverStops' /\ RefreshAwaits'
    BY <2>1 DEF BusyIsReal, RefreshNeverStops, RefreshAwaits, data, more, timing
  <2>4. PagesContinue' /\ AnswersFit' /\ AnswersOrdered'
    BY <2>1 DEF PagesContinue, AnswersFit, AnswersOrdered, Has, order, data, more
  <2> QED
    BY <2>1, <2>2, <2>3, <2>4, SameCache DEF data, ConsoleInv
<1>2. CASE Next
  BY <1>2, TimingStep, AnswersFetchStep, FetchSucceedsStep, FetchFailsStep, LoadMoreStep,
     AnswersMoreStep, MoreSucceedsStep, CursorRejectedStep, MoreFailsStep, LateAnswerStep,
     AskStep, NavigateStep, ServerStep DEF Next
<1> QED
  BY <1>1, <1>2

(* Whatever the operator, the server and the network do, the page keeps    *)
(* its types, runs one request at a time for the query on screen, never    *)
(* loses its refresh timer, and holds only answers that fit.               *)
THEOREM ConsoleInvariant == Spec => []ConsoleInv
<1>1. Init => ConsoleInv
  <2> SUFFICES ASSUME Init PROVE ConsoleInv
    OBVIOUS
  <2>1. fetch \in Fetches /\ fetch # None /\ fetch.key = url /\ fetch.answer = None
        /\ fetch.cached = None /\ fetch.no = 0
    <3>1. fetch \in Fetches
      BY FleetConsoleAssumption DEF Init, Fetches
    <3> QED
      BY <3>1, NoneAssumption DEF Init
  <2>2. TypeOK
    <3>1. /\ fleet \subseteq Apps /\ index \in [Replicas -> Snapshots] /\ failureCount \in 0..MaxFails
          /\ sent \in 0..MaxSent /\ asked \in [Key -> 0..MaxSent]
      BY FleetConsoleAssumption DEF Init, Snapshots
    <3>2. cache \in [Key -> Seq(Page) \cup {None}]
      BY DEF Init
    <3> QED
      BY <2>1, <3>1, <3>2 DEF Init, TypeOK
  <2>3. BusyIsReal /\ RefreshNeverStops /\ RefreshAwaits
    BY DEF Init, BusyIsReal, RefreshNeverStops, RefreshAwaits
  <2>4. PagesContinue /\ AnswersFit /\ AnswersOrdered
    BY <2>1 DEF Init, PagesContinue, AnswersFit, AnswersOrdered, Has
  <2> QED
    BY <2>2, <2>3, <2>4 DEF ConsoleInv
<1>2. ConsoleInv /\ [Next]_vars => ConsoleInv'
  BY ConsoleStep
<1> QED
  BY <1>1, <1>2, PTL DEF Spec

(* The pages shown for a query continue one another, for any page size,    *)
(* any number of replicas and any order of refreshes, restarts, aborts and *)
(* late answers (refreshApplicationData, loadMore).                        *)
THEOREM PagesAlwaysContinue == Spec => []PagesContinue
<1>1. ConsoleInv => PagesContinue
  BY DEF ConsoleInv
<1> QED
  BY <1>1, ConsoleInvariant, PTL

(* The first page shown for a query is never replaced by the answer to an  *)
(* earlier request, whichever of any number of replicas answer, except     *)
(* through the reset of a rejected cursor.                                 *)
THEOREM ShownNeverOlder == Spec => NeverOlder
<1>1. ConsoleInv /\ [Next]_vars => [\A k \in Key : Stands(k)]_vars
  BY ConsoleStep DEF NotOlder
<1> QED
  BY <1>1, ConsoleInvariant, PTL DEF Spec, NeverOlder
=============================================================================
