------------------------------ MODULE WidgetQuery ------------------------------
(***************************************************************************)
(* How a dashboard gets its observations (features/insights/query.ts and   *)
(* tooltip-query.tsx): the scheduler that shares and bounds requests, and  *)
(* its two kinds of clients, the widget's useWidgetQuery and the open      *)
(* tooltip's useTooltipQuery.                                              *)
(*                                                                         *)
(* A step is a JavaScript task with the promise continuations it runs; the *)
(* microtask an effect queues is a step of its own ("start", and "wake"    *)
(* for the listeners of one visibility event), and no task runs before it. *)
(* A key is the resolved request.  Its query is what the code calls the    *)
(* series, its window the start, end and step.  An entry that is over is   *)
(* None and its slot free for another.                                     *)
(***************************************************************************)
EXTENDS Integers, Sequences, FiniteSets, SequencesExt

CONSTANTS
    Widgets, Tips,
    Keys,         \* the requests: records [query, window]
    FirstKey,     \* the one the dashboard opens with
    Blank,        \* the query of a widget that has none yet
    Concurrency,  \* requests the scheduler runs at a time
    CacheSize,
    Debounced,    \* widgets whose changed query waits for debounceMs
    Polls,        \* widgets with a refreshInterval
    MaxChanges,   \* bound: what the user, the page and the refresh timer do
    MaxData,      \* bound: versions of the observations a provider has
    MaxTrouble,   \* bound: failed requests
    None

ASSUME QueryAssumption ==
    /\ IsFiniteSet(Widgets) /\ IsFiniteSet(Tips) /\ Widgets \cap Tips = {}
    /\ Debounced \subseteq Widgets /\ Polls \subseteq Widgets
    /\ FirstKey \in Keys /\ \A k \in Keys : DOMAIN k = {"query", "window"}
    /\ Concurrency \in Nat \ {0} /\ CacheSize \in Nat
    /\ MaxData \in Nat \ {0} /\ {MaxChanges, MaxTrouble} \subseteq Nat

VARIABLES
    sched,     \* the scheduler: entry, pending, queue, cache
    ask,       \* per client, the request it renders: [key, enabled]
    phase,     \* per client: gone, start, debounce, wake, idle, timer, request
    prev,      \* per widget, previousRequest
    state,     \* per client, the outcome: [key, data, error, loading]
    retained,  \* per widget, what the canvas keeps between mounts, or None
    hidden,    \* document.hidden
    now,       \* the version of the observations at the provider
    changes, trouble

vars == <<sched, ask, phase, prev, state, retained, hidden, now, changes, trouble>>

Clients == Widgets \cup Tips
Slots   == 1 .. (Concurrency + Cardinality(Clients))

Versions == 1 .. MaxData
Data     == [key : Keys, version : Versions]

Entry    == [key : Keys, running : BOOLEAN, aborted : BOOLEAN, subs : SUBSET Clients,
             data : Versions \cup {None}]
Kept     == [key : Keys, data : Versions, fresh : BOOLEAN]
Sched    == [entry : [Slots -> Entry \cup {None}], pending : [Keys -> Slots \cup {None}],
             queue : Seq(Slots), cache : Seq(Kept)]
Outcomes == [key : Keys, data : Data \cup {None}, error : BOOLEAN, loading : BOOLEAN]
Retained == [query : {k.query : k \in Keys}, data : Data \cup {None}, error : BOOLEAN]

ASSUME NoneAssumption == /\ None \notin Keys /\ None \notin Slots /\ None \notin Versions
                         /\ None \notin Data /\ None \notin Entry /\ None \notin Retained

-----------------------------------------------------------------------------
(* The scheduler.                                                          *)

Running(s)   == {e \in Slots : s.entry[e] # None /\ s.entry[e].running}
Waiting(s)   == {s.queue[i] : i \in DOMAIN s.queue}
Held(s, c)   == {e \in Slots : s.entry[e] # None /\ c \in s.entry[e].subs}
Free(s)      == CHOOSE e \in Slots : s.entry[e] = None

(* Abandoned entries leave the queue when their last subscriber does, so   *)
(* the head of the queue always has one                                    *)
Drain(s) ==
    LET room  == Concurrency - Cardinality(Running(s))
        n     == IF Len(s.queue) < room THEN Len(s.queue) ELSE room
        start == {s.queue[i] : i \in 1 .. n}
    IN [s EXCEPT !.queue = SubSeq(s.queue, n + 1, Len(s.queue)),
                 !.entry = [e \in Slots |-> IF e \in start THEN [s.entry[e] EXCEPT !.running = TRUE]
                                            ELSE s.entry[e]]]

(* Mutant: a finished request frees its place and nobody takes it *)
NoDrain(s) == s

(* finally: the place is free, the next in the queue starts *)
Release(s) == Drain(s)

(* if (pending.get(key) === entry) pending.delete(key) *)
Unlisted(s, e) ==
    [k \in Keys |-> IF s.pending[k] = e THEN None ELSE s.pending[k]]

(* queue.splice(queue.indexOf(entry), 1) *)
Unqueued(s, e) ==
    IF e \in Waiting(s) THEN RemoveAt(s.queue, CHOOSE i \in DOMAIN s.queue : s.queue[i] = e)
    ELSE s.queue

(* Nobody waits for entry e any more *)
Abandoned(s, e) ==
    [s EXCEPT !.entry[e] = IF s.entry[e].running
                           THEN [s.entry[e] EXCEPT !.subs = {}, !.aborted = TRUE] ELSE None,
              !.pending = Unlisted(s, e),
              !.queue = Unqueued(s, e)]

(* Mutant: one subscriber leaving cancels the request of all *)
DetachAll(s, c) ==
    IF Held(s, c) = {} THEN s ELSE Abandoned(s, CHOOSE x \in Held(s, c) : TRUE)

(* The abort listener of c's subscriber *)
Detach(s, c) ==
    IF Held(s, c) = {} THEN s
    ELSE LET e    == CHOOSE x \in Held(s, c) : TRUE
             left == s.entry[e].subs \ {c}
         IN IF left # {} THEN [s EXCEPT !.entry[e] = [s.entry[e] EXCEPT !.subs = left]]
            ELSE Abandoned(s, e)

(* cache.delete(key) *)
CacheAt(s, k)   == CHOOSE i \in DOMAIN s.cache : s.cache[i].key = k
Uncached(s, k)  == IF \E i \in DOMAIN s.cache : s.cache[i].key = k
                   THEN RemoveAt(s.cache, CacheAt(s, k)) ELSE s.cache
CacheHit(s, k)  == \E i \in DOMAIN s.cache : s.cache[i].key = k /\ s.cache[i].fresh
Cached(s, k)    == s.cache[CacheAt(s, k)]

(* A hit moves to the newest position *)
Touch(s, k)     == [s EXCEPT !.cache = Append(Uncached(s, k), Cached(s, k))]

(* The entry that c joins or makes *)
Joined(s, c, k) ==
    IF s.pending[k] # None
    THEN LET e == s.pending[k]
         IN [s EXCEPT !.cache = Uncached(s, k),
                      !.entry[e] = [s.entry[e] EXCEPT !.subs = s.entry[e].subs \cup {c}]]
    ELSE LET e == Free(s)
         IN [s EXCEPT !.cache = Uncached(s, k),
                      !.entry[e] = [key |-> k, running |-> FALSE, aborted |-> FALSE,
                                    subs |-> {c}, data |-> None],
                      !.pending[k] = e, !.queue = Append(s.queue, e)]
Subscribe(s, c, k) == Drain(Joined(s, c, k))

(* Mutant: the answer of an abandoned request is kept as well *)
StoreAbandoned(s, e) ==
    LET all == Append(Uncached(s, s.entry[e].key),
                      [key |-> s.entry[e].key, data |-> s.entry[e].data, fresh |-> TRUE])
    IN IF CacheSize = 0 THEN s.cache
       ELSE SubSeq(all, 1 + (IF Len(all) > CacheSize THEN Len(all) - CacheSize ELSE 0), Len(all))

Store(s, e) ==
    LET all == Append(Uncached(s, s.entry[e].key),
                      [key |-> s.entry[e].key, data |-> s.entry[e].data, fresh |-> TRUE])
    IN IF s.entry[e].aborted \/ s.entry[e].subs = {} \/ CacheSize = 0 THEN s.cache
       ELSE SubSeq(all, 1 + (IF Len(all) > CacheSize THEN Len(all) - CacheSize ELSE 0), Len(all))

-----------------------------------------------------------------------------
(* Clients.                                                                *)

Microtasks == \E c \in Clients : phase[c] \in {"start", "wake"}
Task       == ~Microtasks
Change     == Task /\ changes < MaxChanges /\ changes' = changes + 1

(* After an outcome the next refresh is scheduled, unless nobody looks *)
AfterOutcome(c) == IF c \in Polls /\ ~hidden THEN "timer" ELSE "idle"

Outcome(key, data, error) ==
    [key |-> key, data |-> data, error |-> error, loading |-> FALSE]

Keep(c, key, data, error) ==
    IF c \in Widgets THEN [retained EXCEPT ![c] = [query |-> key.query, data |-> data, error |-> error]]
    ELSE retained

(* What the client gets when it calls the scheduler: the cached answer at  *)
(* once, or a place among the subscribers                                  *)
Call(c, s, before, manual) ==
    LET k == ask[c].key
    IN IF CacheHit(s, k)
       THEN LET data == [key |-> k, version |-> Cached(s, k).data]
            IN /\ sched' = Touch(s, k)
               /\ state' = [state EXCEPT ![c] = Outcome(k, data, FALSE)]
               /\ retained' = Keep(c, k, data, FALSE)
               /\ phase' = [phase EXCEPT ![c] = AfterOutcome(c)]
       ELSE /\ sched' = Subscribe(s, c, k)
            /\ state' = [state EXCEPT ![c] = [before EXCEPT !.loading = TRUE,
                                                            !.error = ~manual /\ before.error]]
            /\ phase' = [phase EXCEPT ![c] = "request"]
            /\ UNCHANGED retained

(* run(manual) of a widget whose state is `before` *)
Run(w, before, manual) ==
    LET s == Detach(sched, w)
    IN IF ask[w].key.query = Blank \/ ~ask[w].enabled
       THEN /\ sched' = s
            /\ state' = [state EXCEPT ![w] = IF ask[w].key.query = Blank
                                             THEN Outcome(ask[w].key, None, FALSE)
                                             ELSE [before EXCEPT !.loading = FALSE]]
            /\ phase' = [phase EXCEPT ![w] = "idle"]
            /\ UNCHANGED retained
       ELSE Call(w, s, before, manual)

FirstProps == [key |-> FirstKey, enabled |-> TRUE]
NoOutcome  == Outcome(FirstKey, None, FALSE)

Props == [key : Keys, enabled : BOOLEAN]

(* The effect's dependencies changed: cleanup, and the effect again *)
Render(c, props) ==
    /\ ask' = [ask EXCEPT ![c] = props]
    /\ sched' = Detach(sched, c)
    /\ phase' = [phase EXCEPT ![c] = "start"]
    /\ UNCHANGED <<hidden, now, trouble>>

Mount(w) ==
    /\ phase[w] = "gone" /\ Change
    /\ \E k \in Keys : Render(w, [key |-> k, enabled |-> TRUE])
    /\ LET kept == retained[w] # None /\ retained[w].query = ask'[w].key.query
       IN state' = [state EXCEPT ![w] = [key     |-> ask'[w].key,
                                         data    |-> IF kept THEN retained[w].data ELSE None,
                                         error   |-> kept /\ retained[w].error,
                                         loading |-> TRUE]]
    /\ prev' = [prev EXCEPT ![w] = None]
    /\ UNCHANGED retained

(* The author changes the query, the dashboard its window, the viewport    *)
(* decides whether the widget is enabled                                   *)
ChangeRequest(w) ==
    /\ phase[w] # "gone" /\ Change
    /\ \E p \in Props : p # ask[w] /\ Render(w, p)
    /\ UNCHANGED <<state, prev, retained>>

(* A widget leaves the canvas, a tooltip closes: cleanup, and its state goes *)
Unmount(c) ==
    /\ phase[c] # "gone" /\ Change
    /\ sched' = Detach(sched, c)
    /\ phase' = [phase EXCEPT ![c] = "gone"]
    /\ ask' = [ask EXCEPT ![c] = FirstProps] /\ state' = [state EXCEPT ![c] = NoOutcome]
    /\ UNCHANGED <<prev, retained, hidden, now, trouble>>

(* Mutant: a changed query keeps the last outcome whatever it asked for *)
Carried(w) == [state[w] EXCEPT !.key = ask[w].key, !.loading = ask[w].enabled]

(* The same series keeps its outcome while it reloads, another starts empty *)
Reloading(w) ==
    LET same == state[w].key.query = ask[w].key.query
    IN [key |-> ask[w].key, data |-> IF same THEN state[w].data ELSE None,
        error |-> same /\ state[w].error, loading |-> ask[w].enabled]

(* The microtask of the effect *)
Start(w) ==
    /\ phase[w] = "start"
    /\ prev' = [prev EXCEPT ![w] = ask[w].key]
    /\ LET changed == prev[w] # ask[w].key
           before  == IF changed THEN Reloading(w) ELSE state[w]
       IN IF changed /\ w \in Debounced /\ ask[w].enabled
          THEN /\ state' = [state EXCEPT ![w] = before]
               /\ phase' = [phase EXCEPT ![w] = "debounce"]
               /\ UNCHANGED <<sched, retained>>
          ELSE Run(w, before, FALSE)
    /\ UNCHANGED <<ask, hidden, now, changes, trouble>>

(* setTimeout: the debounced request, and the next refresh *)
DebounceFires(w) ==
    /\ phase[w] = "debounce" /\ Task
    /\ Run(w, state[w], FALSE)
    /\ UNCHANGED <<ask, prev, hidden, now, changes, trouble>>

RefreshFires(w) ==
    /\ phase[w] = "timer" /\ Change
    /\ Run(w, state[w], FALSE)
    /\ UNCHANGED <<ask, prev, hidden, now, trouble>>

(* The Retry and Refresh buttons of a widget; they cancel its timer *)
Refresh(w) ==
    /\ phase[w] # "gone" /\ Change
    /\ Run(w, state[w], TRUE)
    /\ UNCHANGED <<ask, prev, hidden, now, trouble>>

VisibilityChange ==
    /\ Change /\ hidden' = ~hidden
    /\ phase' = [c \in Clients |->
                    IF c \in Polls /\ phase[c] # "gone" /\ hidden THEN "wake"
                    ELSE IF phase[c] \in {"debounce", "timer"} THEN "idle" ELSE phase[c]]
    /\ UNCHANGED <<sched, ask, prev, state, retained, now, trouble>>

Wake(w) ==
    /\ phase[w] = "wake"
    /\ Run(w, state[w], FALSE)
    /\ UNCHANGED <<ask, prev, hidden, now, changes, trouble>>

(* A provider edit or the dashboard's refresh makes a new scheduler: the   *)
(* effects of all clients run again, what the old one runs is abandoned    *)
NewScheduler ==
    [entry |-> [e \in Slots |-> None], pending |-> [k \in Keys |-> None],
     queue |-> <<>>, cache |-> <<>>]

Invalidate ==
    /\ Change
    /\ sched' = NewScheduler
    /\ prev' = [w \in Widgets |-> None]
    /\ phase' = [c \in Clients |-> IF phase[c] = "gone" THEN "gone" ELSE "start"]
    /\ UNCHANGED <<ask, state, retained, hidden, now, trouble>>

(* The pointer opens a tooltip, moves to another mark, or Retry is pressed *)
Point(t) ==
    /\ Change
    /\ \E k \in Keys : k.query # Blank /\ Render(t, [key |-> k, enabled |-> TRUE])
    /\ UNCHANGED <<state, prev, retained>>

StartTip(t) ==
    /\ phase[t] = "start"
    /\ Call(t, sched, Outcome(ask[t].key, None, FALSE), FALSE)
    /\ UNCHANGED <<ask, prev, hidden, now, changes, trouble>>

-----------------------------------------------------------------------------
(* The fetcher (external): the provider reads at some moment, the answer   *)
(* arrives later; a cancelled request may still answer.                    *)

Serve(e) ==
    /\ Task /\ e \in Running(sched) /\ sched.entry[e].data = None
    /\ sched' = [sched EXCEPT !.entry[e].data = now]
    /\ UNCHANGED <<ask, phase, prev, state, retained, hidden, now, changes, trouble>>

(* settle and finally of one entry *)
Settle(e, ok) ==
    LET done == sched.entry[e]
        data == IF ok THEN [key |-> done.key, version |-> done.data] ELSE None
    IN /\ sched' = Release([sched EXCEPT !.entry[e] = None,
                                        !.pending = Unlisted(sched, e),
                                        !.cache = IF ok THEN Store(sched, e) ELSE sched.cache])
       /\ state' = [c \in Clients |-> IF c \in done.subs THEN Outcome(done.key, data, ~ok)
                                      ELSE state[c]]
       /\ retained' = [w \in Widgets |->
                          IF w \in done.subs
                          THEN [query |-> done.key.query, data |-> data, error |-> ~ok]
                          ELSE retained[w]]
       /\ phase' = [c \in Clients |-> IF c \in done.subs THEN AfterOutcome(c) ELSE phase[c]]
       /\ UNCHANGED <<ask, prev, hidden, now, changes>>

Answer(e) ==
    /\ Task /\ e \in Running(sched) /\ sched.entry[e].data # None
    /\ Settle(e, TRUE)
    /\ UNCHANGED trouble

Fail(e) ==
    /\ Task /\ e \in Running(sched)
    /\ IF sched.entry[e].aborted THEN UNCHANGED trouble
       ELSE trouble < MaxTrouble /\ trouble' = trouble + 1
    /\ Settle(e, FALSE)

Observe ==
    /\ Task /\ now < MaxData /\ now' = now + 1
    /\ UNCHANGED <<sched, ask, phase, prev, state, retained, hidden, changes, trouble>>

(* cacheTTL passes for one answer *)
Expire ==
    /\ Task
    /\ \E i \in DOMAIN sched.cache :
          sched.cache[i].fresh /\ sched' = [sched EXCEPT !.cache[i].fresh = FALSE]
    /\ UNCHANGED <<ask, phase, prev, state, retained, hidden, now, changes, trouble>>

-----------------------------------------------------------------------------
(* The dashboard has just been rendered, no tooltip is open *)
Init ==
    /\ sched = NewScheduler
    /\ ask = [c \in Clients |-> FirstProps]
    /\ phase = [c \in Clients |-> IF c \in Widgets THEN "start" ELSE "gone"]
    /\ prev = [w \in Widgets |-> None]
    /\ state = [c \in Clients |-> [NoOutcome EXCEPT !.loading = c \in Widgets]]
    /\ retained = [w \in Widgets |-> None]
    /\ hidden = FALSE /\ now = 1 /\ changes = 0 /\ trouble = 0

Next ==
    \/ \E w \in Widgets : \/ Mount(w) \/ ChangeRequest(w) \/ Refresh(w) \/ RefreshFires(w)
                          \/ Start(w) \/ Wake(w) \/ DebounceFires(w)
    \/ \E t \in Tips : Point(t) \/ StartTip(t)
    \/ \E c \in Clients : Unmount(c)
    \/ \E e \in Slots : Serve(e) \/ Answer(e) \/ Fail(e)
    \/ VisibilityChange \/ Invalidate \/ Observe \/ Expire

Spec == Init /\ [][Next]_vars

(* Microtasks run, and the provider answers.  The bound on changes makes   *)
(* every behaviour finite, so nothing can be postponed for ever by others  *)
Progress == \/ \E w \in Widgets : Start(w) \/ Wake(w)
            \/ \E t \in Tips : StartTip(t)
            \/ \E e \in Slots : Serve(e) \/ Answer(e)

FairSpec == Spec /\ WF_vars(Progress)

-----------------------------------------------------------------------------
(* What the hooks return *)
Matches(c) == IF c \in Widgets THEN state[c].key.query = ask[c].key.query ELSE state[c].key = ask[c].key
Shown(c)   == IF Matches(c) THEN state[c].data ELSE None
Loading(c) == phase[c] # "gone"
              /\ IF state[c].key = ask[c].key /\ phase[c] # "start" THEN state[c].loading ELSE ask[c].enabled

(* Types of the scheduler and of its clients (createQueryScheduler,        *)
(* useWidgetQuery): the cache stays within its size.                       *)
TypeOK ==
    /\ sched \in Sched /\ Len(sched.cache) <= CacheSize
    /\ ask \in [Clients -> Props]
    /\ phase \in [Clients -> {"gone", "start", "debounce", "wake", "idle", "timer", "request"}]
    /\ prev \in [Widgets -> Keys \cup {None}]
    /\ state \in [Clients -> Outcomes]
    /\ retained \in [Widgets -> Retained \cup {None}]
    /\ hidden \in BOOLEAN /\ now \in Versions
    /\ changes \in 0 .. MaxChanges /\ trouble \in 0 .. MaxTrouble

(* A client that waits is subscribed to exactly one request, for what it   *)
(* asks now, that is queued or running and that nobody cancelled: whatever *)
(* the other clients do, leaving cancels only the leaver's share.          *)
Attached ==
    \A c \in Clients :
        IF phase[c] = "request"
        THEN \E e \in Slots : /\ Held(sched, c) = {e}
                              /\ sched.entry[e].key = ask[c].key /\ ~sched.entry[e].aborted
                              /\ sched.entry[e].running \/ e \in Waiting(sched)
        ELSE phase[c] # "wake" => Held(sched, c) = {}

(* Never more requests than allowed, and no query waits while a place is   *)
(* free: no order of answers, failures and cancellations loses a place.    *)
PlacesUsed ==
    /\ Cardinality(Running(sched)) <= Concurrency
    /\ sched.queue # <<>> => Cardinality(Running(sched)) = Concurrency

(* The observations on screen are those of the query the widget or tooltip *)
(* has now; a widget at rest shows the window it asks for.                 *)
OwnAnswer ==
    \A c \in Clients :
        /\ Shown(c) # None => Shown(c).key.query = ask[c].key.query
        /\ phase[c] \in {"idle", "timer"} /\ ask[c].enabled /\ ~Loading(c) /\ Shown(c) # None
              => Shown(c).key = ask[c].key

(* A client that shows an answer never goes back to an older one for the   *)
(* same request, through the cache or through a request that was shared,   *)
(* cancelled and asked again.                                              *)
NeverOlder ==
    [][\A c \in Clients :
          /\ Shown(c) # None /\ Shown(c)' # None
          /\ Shown(c).key = Shown(c)'.key
          => Shown(c)'.version >= Shown(c).version]_vars

(* Loading ends: every client that waits for an answer gets one, its error *)
(* or another request, in whatever order places become free.  Widgets that *)
(* debounce are left out: hiding the page cancels the timer of their first *)
(* request.                                                                *)
LoadingEnds == \A c \in Clients \ Debounced : Loading(c) ~> ~Loading(c)

-----------------------------------------------------------------------------
(* What holds the scheduler together.                                      *)

(* The queue holds every entry that does not run, once; an entry without   *)
(* subscribers is one that was aborted while it ran; the entries listed as *)
(* pending are the others, one for a key; a client waits for one entry; a  *)
(* key is cached once, and not while it is asked for.                      *)
QueueShape(s) ==
    /\ \A i, j \in DOMAIN s.queue : s.queue[i] = s.queue[j] => i = j
    /\ \A e \in Slots : e \in Waiting(s) <=> s.entry[e] # None /\ ~s.entry[e].running
EntryShape(p) ==
    p # None => /\ p.aborted <=> p.subs = {}
                /\ ~p.running => ~p.aborted /\ p.data = None
PendingShape(s) ==
    /\ \A k \in Keys : s.pending[k] # None =>
          /\ s.entry[s.pending[k]] # None
          /\ s.entry[s.pending[k]].key = k /\ ~s.entry[s.pending[k]].aborted
    /\ \A e \in Slots : s.entry[e] # None /\ ~s.entry[e].aborted => s.pending[s.entry[e].key] = e
CacheShape(s) ==
    /\ \A i, j \in DOMAIN s.cache : s.cache[i].key = s.cache[j].key => i = j
    /\ \A i \in DOMAIN s.cache : s.pending[s.cache[i].key] = None
Shaped(s) ==
    /\ s \in Sched /\ Len(s.cache) <= CacheSize
    /\ QueueShape(s) /\ PendingShape(s) /\ CacheShape(s)
    /\ \A e \in Slots : EntryShape(s.entry[e])
    /\ \A c \in Clients : \A e, f \in Held(s, c) : e = f
    /\ Cardinality(Running(s)) <= Concurrency

(* A client is subscribed only while it waits, to what it asks for now     *)
WaitsInv ==
    \A c \in Clients :
        /\ phase[c] = "request" => Held(sched, c) # {}
        /\ \A e \in Held(sched, c) : /\ phase[c] \in {"request", "wake"}
                                     /\ sched.entry[e].key = ask[c].key

(* The inductive form of OwnAnswer: what a client holds belongs to the     *)
(* series it was asked for, and at rest to the request; one that is about  *)
(* to ask is loading, one that is gone holds nothing                       *)
AnswersInv ==
    \A c \in Clients :
        /\ state[c].data # None => state[c].data.key.query = state[c].key.query
        /\ phase[c] = "debounce" => state[c].loading
        /\ phase[c] = "gone" => state[c].data = None
        /\ phase[c] \in {"idle", "timer"} /\ ask[c].enabled /\ ~state[c].loading
              /\ state[c].key = ask[c].key /\ state[c].data # None => state[c].data.key = ask[c].key
RetainedInv ==
    \A w \in Widgets : retained[w] # None /\ retained[w].data # None =>
        retained[w].data.key.query = retained[w].query

(* The inductive form of NeverOlder: no client or canvas holds an answer   *)
(* newer than the cached one, than the one in flight or than the provider  *)
NotNewer(d, s) ==
    d # None =>
        /\ d.version <= now
        /\ \A i \in DOMAIN s.cache : s.cache[i].key = d.key => d.version <= s.cache[i].data
        /\ \A e \in Slots : s.entry[e] # None /\ ~s.entry[e].aborted /\ s.entry[e].data # None
                           /\ s.entry[e].key = d.key => d.version <= s.entry[e].data
VersionsInv ==
    /\ \A i \in DOMAIN sched.cache : sched.cache[i].data <= now
    /\ \A e \in Slots : sched.entry[e] # None /\ sched.entry[e].data # None
                       => sched.entry[e].data <= now
    /\ \A c \in Clients : NotNewer(state[c].data, sched)
    /\ \A w \in Widgets : retained[w] # None => NotNewer(retained[w].data, sched)

(* The inductive invariant: types and shape of the scheduler, clients      *)
(* attached to the requests they wait for, no place lost, and answers that *)
(* belong to their question and are no newer than what may still come.     *)
SchedulerInv == /\ TypeOK /\ Shaped(sched) /\ Attached /\ PlacesUsed
                /\ WaitsInv /\ AnswersInv /\ RetainedInv /\ VersionsInv
=============================================================================
