------------------------ MODULE BrowserSessionProofs ------------------------
(* Proofs about the console's session, for any number of tabs, accounts,   *)
(* ID tokens, user actions and failures, with Web Locks and with leases.   *)
EXTENDS BrowserSession, SequenceTheorems, TLAPS

Known == 0..Len(issued)

(* How a task of tab t takes the world from w to v: other tabs are told of *)
(* a new token and of nothing less than before, revisions and identities   *)
(* only move on, and who is shown changes only with the identity.          *)
Moves(t, w, v) ==
    /\ w.mail \ {t} \subseteq v.mail
    /\ v.mail \subseteq w.mail \cup Others(t)
    /\ v.store.tok # w.store.tok => Others(t) \subseteq v.mail
    /\ w.store.rev <= v.store.rev
    /\ w.tab.epoch <= v.tab.epoch
    /\ v.tab.epoch = w.tab.epoch => UserOf(v.tab.tok) = UserOf(w.tab.tok)
    /\ w.tab.leaving => v.tab.leaving
    /\ w.tab.listening => v.tab.listening
Good(t, w, v) == Sound(v) /\ InStep(t, v) /\ Moves(t, w, v)
Drops(w, v) == v.store.tok \in {w.store.tok, None}
Kept(t, w, v) == Good(t, w, v) /\ Drops(w, v)

(* A world that is sound has moved nowhere. *)
LEMMA GoodReflexive ==
  ASSUME NEW t \in Tabs, NEW w, Sound(w), InStep(t, w)
  PROVE  Kept(t, w, w)
<1>1. w.store.rev \in Nat /\ w.tab.epoch \in Nat
  BY DEF Sound, Worlds, Store, Tab
<1> QED
  BY <1>1 DEF Kept, Good, Moves, Drops

(* One function after the other. *)
LEMMA GoodTransitive ==
  ASSUME NEW t \in Tabs, NEW w, NEW u, NEW v, Sound(w), Good(t, w, u), Good(t, u, v)
  PROVE  /\ Good(t, w, v)
         /\ Drops(w, u) /\ Drops(u, v) => Drops(w, v)
<1>1. /\ w.store.rev \in Nat /\ w.tab.epoch \in Nat
      /\ u.store.rev \in Nat /\ u.tab.epoch \in Nat
      /\ v.store.rev \in Nat /\ v.tab.epoch \in Nat
  BY DEF Good, Sound, Worlds, Store, Tab
<1>2. t \notin Others(t)
  BY DEF Others
<1>3. w.store.rev <= v.store.rev /\ w.tab.epoch <= v.tab.epoch
  BY <1>1 DEF Good, Moves
<1>4. v.tab.epoch = w.tab.epoch => UserOf(v.tab.tok) = UserOf(w.tab.tok)
  <2>1. v.tab.epoch = w.tab.epoch => u.tab.epoch = w.tab.epoch /\ v.tab.epoch = u.tab.epoch
    BY <1>1 DEF Good, Moves
  <2> QED
    BY <2>1 DEF Good, Moves
<1>5. v.store.tok # w.store.tok => Others(t) \subseteq v.mail
  BY <1>2 DEF Good, Moves
<1>6. Moves(t, w, v)
  BY <1>3, <1>4, <1>5 DEF Good, Moves
<1> QED
  BY <1>6 DEF Good, Drops

(* The flags nobody relies on may change. *)
LEMMA FlagsFree ==
  ASSUME NEW t \in Tabs, NEW w, Sound(w), InStep(t, w), NEW v \in Worlds,
         v.store = w.store, v.mail = w.mail, v.cache = w.cache,
         v.tab.tok = w.tab.tok, v.tab.status = w.tab.status, v.tab.epoch = w.tab.epoch,
         v.tab.hydrated = w.tab.hydrated, v.tab.listening = w.tab.listening,
         w.tab.leaving => v.tab.leaving
  PROVE  Kept(t, w, v)
<1>1. w.store.rev \in Nat /\ w.tab.epoch \in Nat
  BY DEF Sound, Worlds, Store, Tab
<1>2. Sound(v) /\ InStep(t, v)
  BY DEF Sound, InStep
<1> QED
  BY <1>1, <1>2 DEF Kept, Good, Moves, Drops

Statuses == {"loading", "authenticated", "anonymous", "unavailable"}

(* publish: the tab shows token n, and a new account empties the cache. *)
Shows(w, n, status, v) ==
    /\ Sound(v) /\ v.store = w.store /\ v.mail = w.mail
    /\ v.tab.tok = n /\ v.tab.status = status /\ v.tab.hydrated = w.tab.hydrated
    /\ v.tab.listening = w.tab.listening /\ v.tab.leaving = w.tab.leaving
    /\ w.tab.epoch <= v.tab.epoch
    /\ v.tab.epoch = w.tab.epoch => UserOf(n) = UserOf(w.tab.tok)
LEMMA PublishShows ==
  ASSUME NEW w, Sound(w), NEW n \in Tokens, n \in Known, NEW status \in Statuses,
         status = "anonymous" => n = None, w.tab.listening \/ n = None,
         NEW invalidate \in BOOLEAN
  PROVE  Shows(w, n, status, Publish(w, n, status, invalidate))
<1> DEFINE v == Publish(w, n, status, invalidate)
           changed == UserOf(n) # UserOf(w.tab.tok) \/ invalidate
<1>1. /\ w \in Worlds /\ w.tab \in Tab /\ w.store \in Store /\ w.cache \in SUBSET Users
      /\ w.mail \in SUBSET Tabs /\ w.tab.epoch \in Nat
  BY DEF Sound, Worlds, Tab
<1> DEFINE e == IF changed THEN w.tab.epoch + 1 ELSE w.tab.epoch
           c == IF changed THEN {} ELSE w.cache
           b == [w.tab EXCEPT !.tok = n, !.status = status, !.armed = TRUE, !.epoch = e]
<1>2. v = [w EXCEPT !.tab = b, !.cache = c]
  BY DEF Publish
<1>11. e \in Nat /\ c \in SUBSET Users
  BY <1>1
<1>12. /\ w.tab.epoch <= e /\ (e = w.tab.epoch => ~changed)
       /\ c = {} \/ (~changed /\ c = w.cache)
  BY <1>1
<1> HIDE DEF v, changed, e, c
<1>4. /\ b.tok = n /\ b.status = status /\ b.hydrated = w.tab.hydrated
      /\ b.listening = w.tab.listening /\ b.leaving = w.tab.leaving
      /\ b.epoch = e
  BY <1>1 DEF Tab
<1>5. b \in Tab
  BY <1>1, <1>11 DEF Tab, Statuses
<1> HIDE DEF b
<1>3. v.store = w.store /\ v.mail = w.mail /\ v.cache = c /\ v.tab = b
  BY <1>1, <1>2 DEF Worlds
<1>6. v \in Worlds
  BY <1>1, <1>2, <1>11, <1>5 DEF Worlds
<1>7. v.cache \subseteq {UserOf(n)} \ {NoUser}
  BY <1>3, <1>12 DEF Sound, changed
<1>8. Sound(v)
  BY <1>3, <1>4, <1>6, <1>7 DEF Sound, Known
<1>9. w.tab.epoch <= v.tab.epoch
  BY <1>3, <1>4, <1>12
<1>10. v.tab.epoch = w.tab.epoch => UserOf(n) = UserOf(w.tab.tok)
  BY <1>3, <1>4, <1>12 DEF changed
<1> QED
  BY <1>3, <1>4, <1>8, <1>9, <1>10 DEF v, Shows

LEMMA ShowsMoves ==
  ASSUME NEW t \in Tabs, NEW w, Sound(w), NEW n, NEW status, NEW v, Shows(w, n, status, v)
  PROVE  Moves(t, w, v)
<1>1. w.store.rev \in Nat
  BY DEF Sound, Worlds, Store
<1> QED
  BY <1>1 DEF Moves, Shows

(* storeToken: the other tabs learn of a token that is new. *)
TokenStored(t, w, n, v) ==
    /\ Sound(v) /\ v.tab = w.tab /\ v.cache = w.cache
    /\ v.store.tok = n /\ v.store.rev = w.store.rev /\ v.store.out = w.store.out
    /\ v.mail = IF w.store.tok = n THEN w.mail ELSE w.mail \cup Others(t)
LEMMA TokenWritten ==
  ASSUME NEW t \in Tabs, NEW w, Sound(w), NEW n \in Tokens, n \in Known
  PROVE  TokenStored(t, w, n, WriteToken(w, t, n))
<1> DEFINE m == IF w.store.tok = n THEN w.mail ELSE w.mail \cup Others(t)
           v == [w EXCEPT !.store.tok = n, !.mail = m]
<1>1. w \in Worlds /\ w.store \in Store /\ w.mail \subseteq Tabs
  BY DEF Sound, Worlds
<1>2. m \in SUBSET Tabs
  BY <1>1 DEF Others
<1>3. WriteToken(w, t, n) = v
  BY DEF WriteToken
<1> HIDE DEF m
<1>4. /\ v.tab = w.tab /\ v.cache = w.cache /\ v.mail = m
      /\ v.store = [w.store EXCEPT !.tok = n]
  BY <1>1 DEF Worlds
<1>5. /\ v.store.tok = n /\ v.store.rev = w.store.rev /\ v.store.out = w.store.out
      /\ v.store \in Store
  BY <1>1, <1>4 DEF Store
<1>6. v \in Worlds
  BY <1>1, <1>2, <1>5 DEF Worlds, Store
<1> HIDE DEF v
<1>7. Sound(v)
  BY <1>4, <1>5, <1>6 DEF Sound, Known
<1> QED
  BY <1>3, <1>4, <1>5, <1>7 DEF m, TokenStored

(* storeSessionState: a new revision, and the other tabs learn of it. *)
StateStored(t, w, loggedOut, v) ==
    /\ Sound(v) /\ v.tab = w.tab /\ v.cache = w.cache
    /\ v.store.tok = w.store.tok /\ v.store.rev = w.store.rev + 1
    /\ v.store.out = loggedOut
    /\ v.mail = w.mail \cup Others(t)
LEMMA StateWritten ==
  ASSUME NEW t \in Tabs, NEW w, Sound(w), NEW loggedOut \in BOOLEAN, NEW avail \in Avail
  PROVE  StateStored(t, w, loggedOut, WriteState(w, t, loggedOut, avail))
<1> DEFINE st == [w.store EXCEPT !.out = loggedOut, !.avail = avail,
                                 !.rev = w.store.rev + 1]
           m == w.mail \cup Others(t)
           v == [w EXCEPT !.store = st, !.mail = m]
<1>1. w \in Worlds /\ w.store \in Store /\ w.mail \subseteq Tabs /\ w.store.rev \in Nat
  BY DEF Sound, Worlds, Store
<1>2. m \in SUBSET Tabs
  BY <1>1 DEF Others
<1>3. WriteState(w, t, loggedOut, avail) = v
  BY DEF WriteState
<1>4. /\ st.tok = w.store.tok /\ st.rev = w.store.rev + 1 /\ st.out = loggedOut
  BY <1>1 DEF Store
<1>7. w.store.rev + 1 \in Nat
  BY <1>1
<1>8. st \in Store
  BY <1>1, <1>7 DEF Store
<1> HIDE DEF m, st
<1>5. v.tab = w.tab /\ v.cache = w.cache /\ v.mail = m /\ v.store = st /\ v \in Worlds
  BY <1>1, <1>2, <1>8 DEF Worlds
<1> HIDE DEF v
<1>6. Sound(v)
  BY <1>4, <1>5 DEF Sound
<1> QED
  BY <1>3, <1>4, <1>5, <1>6 DEF m, StateStored

(* adoptToken: the tab shows the stored token. *)
LEMMA Adopted ==
  ASSUME NEW t \in Tabs, NEW w, Sound(w), w.tab.listening, NEW n, n = w.store.tok,
         w.store.out => w.store.tok = None, t \in w.mail => w.tab.listening,
         Len(issued) \in Nat
  PROVE  /\ Kept(t, w, Adopt(w, n))
         /\ Adopt(w, n).tab.tok = n /\ Adopt(w, n).store = w.store
         /\ Adopt(w, n).tab.listening
<1> DEFINE status == IF Left(n) THEN "authenticated" ELSE "loading"
<1>1. n \in Tokens /\ n \in Known /\ w.store.rev \in Nat
  BY SessionAssumption DEF Sound, Worlds, Store, Known, Tokens
<1>2. status \in Statuses /\ status # "anonymous"
  BY DEF Statuses
<1> DEFINE v == Publish(w, n, status, FALSE)
<1>3. Adopt(w, n) = v
  BY DEF Adopt
<1> HIDE DEF status
<1>4. Shows(w, n, status, v)
  BY <1>1, <1>2, PublishShows
<1> HIDE DEF v
<1>5. InStep(t, v)
  BY <1>4 DEF InStep, Shows
<1>6. Moves(t, w, v)
  BY <1>4, ShowsMoves
<1> QED
  BY <1>3, <1>4, <1>5, <1>6 DEF Kept, Good, Drops, Shows

(* becomeAnonymous: no token is stored, none is shown. *)
NobodyShown(w, v) ==
    /\ v.tab.tok = None /\ v.store.tok = None /\ v.store.rev = w.store.rev
    /\ v.tab.listening = w.tab.listening /\ v.tab.leaving = w.tab.leaving
LEMMA BecameAnonymous ==
  ASSUME NEW t \in Tabs, NEW w, Sound(w), t \in w.mail => w.tab.listening,
         NEW invalidate \in BOOLEAN, Len(issued) \in Nat
  PROVE  Kept(t, w, Anonymous(w, t, invalidate)) /\ NobodyShown(w, Anonymous(w, t, invalidate))
<1> DEFINE u == WriteToken(w, t, None)
           v == Publish(u, None, "anonymous", invalidate)
<1>1. None \in Tokens /\ None \in Known /\ w.store.rev \in Nat /\ w.mail \subseteq Tabs
  BY SessionAssumption DEF None, Tokens, Known, Sound, Worlds, Store
<1>2. TokenStored(t, w, None, u)
  BY <1>1, TokenWritten
<1>3. Anonymous(w, t, invalidate) = v
  BY DEF Anonymous
<1> HIDE DEF u
<1>4. Shows(u, None, "anonymous", v)
  BY <1>1, <1>2, PublishShows DEF Statuses, TokenStored
<1> HIDE DEF v
<1>5. t \notin Others(t)
  BY DEF Others
<1>6. InStep(t, v)
  BY <1>2, <1>4, <1>5 DEF InStep, Shows, TokenStored
<1>7. Moves(t, w, v)
  BY <1>1, <1>2, <1>4 DEF Moves, Shows, TokenStored
<1> QED
  BY <1>2, <1>3, <1>4, <1>6, <1>7 DEF Kept, Good, Drops, Shows, TokenStored, NobodyShown

(* The tombstone: the token is gone, and the revision tells everybody. *)
NobodyLeft(w, v) ==
    /\ v.tab.tok = None /\ v.store.tok = None /\ v.store.rev = w.store.rev + 1
    /\ v.tab.listening = w.tab.listening /\ v.tab.leaving = w.tab.leaving
LEMMA SessionEnded ==
  ASSUME NEW t \in Tabs, NEW w, Sound(w), t \in w.mail => w.tab.listening,
         NEW invalidate \in BOOLEAN, Len(issued) \in Nat
  PROVE  Kept(t, w, SignedOut(w, t, invalidate)) /\ NobodyLeft(w, SignedOut(w, t, invalidate))
<1> DEFINE u == WriteState(w, t, TRUE, "no")
           v == Anonymous(u, t, invalidate)
<1>1. w.store.rev \in Nat /\ w.mail \subseteq Tabs /\ t \notin Others(t)
  BY DEF Sound, Worlds, Store, Others
<1>2. StateStored(t, w, TRUE, u)
  BY StateWritten DEF Avail
<1>3. SignedOut(w, t, invalidate) = v
  BY DEF SignedOut
<1> HIDE DEF u
<1>4. Kept(t, u, v) /\ NobodyShown(u, v)
  BY <1>1, <1>2, BecameAnonymous DEF StateStored
<1> HIDE DEF v
<1>5. Moves(t, w, v)
  BY <1>1, <1>2, <1>4 DEF Kept, Good, Moves, StateStored, NobodyShown
<1> QED
  BY <1>2, <1>3, <1>4, <1>5 DEF Kept, Good, Drops, StateStored, NobodyShown, NobodyLeft

(* completeSession: token n is stored and shown. *)
Installed(w, n, v) ==
    /\ v.tab.tok = n /\ v.store.tok = n /\ v.tab.listening
    /\ v.tab.leaving = w.tab.leaving
LEMMA SessionCompleted ==
  ASSUME NEW t \in Tabs, NEW w, Sound(w), w.tab.listening, NEW n \in Tokens, n \in Known,
         NEW avail \in Avail
  PROVE  /\ Good(t, w, CompleteSession(w, t, n, avail))
         /\ Installed(w, n, CompleteSession(w, t, n, avail))
<1> DEFINE a == WriteToken(w, t, n)
           b == WriteState(a, t, FALSE, avail)
           c == Publish(b, n, "authenticated", FALSE)
           d == [c.tab EXCEPT !.hydrated = TRUE, !.listening = TRUE, !.backoff = FALSE]
           v == [c EXCEPT !.tab = d]
<1>1. w.store.rev \in Nat /\ w.mail \subseteq Tabs /\ t \notin Others(t)
  BY DEF Sound, Worlds, Store, Others
<1>2. TokenStored(t, w, n, a)
  BY TokenWritten
<1>3. StateStored(t, a, FALSE, b)
  <2> HIDE DEF a
  <2> QED
    BY <1>2, StateWritten DEF TokenStored
<1>4. Shows(b, n, "authenticated", c)
  <2> HIDE DEF a, b
  <2> QED
    BY <1>2, <1>3, PublishShows DEF TokenStored, StateStored, Statuses
<1>5. CompleteSession(w, t, n, avail) = v
  BY DEF CompleteSession
<1> HIDE DEF a, b, c
<1>6. c \in Worlds /\ c.tab \in Tab
  BY <1>4 DEF Shows, Sound, Worlds
<1>7. /\ d \in Tab /\ d.tok = c.tab.tok /\ d.status = c.tab.status /\ d.epoch = c.tab.epoch
      /\ d.listening = TRUE /\ d.hydrated = TRUE /\ d.leaving = c.tab.leaving
  BY <1>6 DEF Tab
<1> HIDE DEF d
<1>8. /\ v.tab = d /\ v.store = c.store /\ v.mail = c.mail /\ v.cache = c.cache /\ v \in Worlds
  BY <1>6, <1>7 DEF Worlds
<1> HIDE DEF v
<1>9. Sound(v)
  BY <1>4, <1>7, <1>8 DEF Sound, Shows
<1>10. InStep(t, v)
  BY <1>2, <1>3, <1>4, <1>7, <1>8 DEF InStep, Shows, StateStored, TokenStored
<1>11. Moves(t, w, v)
  BY <1>1, <1>2, <1>3, <1>4, <1>7, <1>8 DEF Moves, Shows, StateStored, TokenStored
<1> QED
  BY <1>2, <1>3, <1>4, <1>5, <1>7, <1>8, <1>9, <1>10, <1>11
     DEF Good, Installed, Shows, StateStored, TokenStored

(* unavailable: the tab keeps its token. *)
LEMMA MadeUnavailable ==
  ASSUME NEW t \in Tabs, NEW w, Sound(w), InStep(t, w), Len(issued) \in Nat
  PROVE  /\ Kept(t, w, Unavailable(w))
         /\ Unavailable(w).tab.tok = w.tab.tok /\ Unavailable(w).store = w.store
         /\ Unavailable(w).tab.listening = w.tab.listening
<1> DEFINE c == Publish(w, w.tab.tok, "unavailable", FALSE)
           d == [c.tab EXCEPT !.backoff = TRUE]
           v == [c EXCEPT !.tab = d]
<1>1. /\ w.tab.tok \in Tokens /\ w.tab.tok \in Known /\ w.store.rev \in Nat
      /\ w.tab.listening \/ w.tab.tok = None
  BY SessionAssumption DEF Sound, Worlds, Store, Tab, Known, Tokens
<1>2. Shows(w, w.tab.tok, "unavailable", c)
  BY <1>1, PublishShows DEF Statuses
<1>3. Unavailable(w) = v
  BY DEF Unavailable
<1> HIDE DEF c
<1>4. c \in Worlds /\ c.tab \in Tab
  BY <1>2 DEF Shows, Sound, Worlds
<1>5. /\ d \in Tab /\ d.tok = c.tab.tok /\ d.status = c.tab.status /\ d.epoch = c.tab.epoch
      /\ d.listening = c.tab.listening /\ d.hydrated = c.tab.hydrated
      /\ d.leaving = c.tab.leaving
  BY <1>4 DEF Tab
<1> HIDE DEF d
<1>6. v.tab = d /\ v.store = c.store /\ v.mail = c.mail /\ v.cache = c.cache /\ v \in Worlds
  BY <1>4, <1>5 DEF Worlds
<1> HIDE DEF v
<1>7. Sound(v)
  BY <1>2, <1>5, <1>6 DEF Sound, Shows
<1>8. InStep(t, v)
  BY <1>2, <1>5, <1>6 DEF InStep, Shows
<1>9. Moves(t, w, v)
  BY <1>1, <1>2, <1>5, <1>6 DEF Moves, Shows
<1> QED
  BY <1>2, <1>3, <1>5, <1>6, <1>7, <1>8, <1>9 DEF Kept, Good, Drops, Shows

(* hydrate: a page reads storage once, and listens from then on. *)
LEMMA Hydrated ==
  ASSUME NEW t \in Tabs, NEW w, Sound(w), InStep(t, w), Len(issued) \in Nat
  PROVE  /\ Kept(t, w, Hydrate(w)) /\ Hydrate(w).tab.listening
         /\ Hydrate(w).store = w.store
<1> DEFINE d == [w.tab EXCEPT !.hydrated = TRUE, !.listening = TRUE]
           h == [w EXCEPT !.tab = d]
<1>1. /\ w \in Worlds /\ w.tab \in Tab /\ w.store.rev \in Nat /\ w.tab.epoch \in Nat
      /\ w.tab.hydrated \in BOOLEAN /\ w.tab.listening \in BOOLEAN /\ w.mail \subseteq Tabs
  BY DEF Sound, Worlds, Store, Tab
<1>2. CASE w.tab.hydrated
  <2>1. Hydrate(w) = w /\ w.tab.listening
    BY <1>1, <1>2 DEF Hydrate, Sound
  <2> QED
    BY <2>1, GoodReflexive
<1>3. CASE ~w.tab.hydrated
  <2>1. /\ d \in Tab /\ d.tok = w.tab.tok /\ d.status = w.tab.status /\ d.epoch = w.tab.epoch
        /\ d.listening = TRUE /\ d.hydrated = TRUE /\ d.leaving = w.tab.leaving
    BY <1>1 DEF Tab
  <2> HIDE DEF d
  <2>2. h.tab = d /\ h.store = w.store /\ h.mail = w.mail /\ h.cache = w.cache /\ h \in Worlds
    BY <1>1, <2>1 DEF Worlds
  <2> DEFINE adopts == ~w.store.out /\ w.store.tok # None
  <2>3. Hydrate(w) = IF adopts THEN Adopt(h, w.store.tok) ELSE h
    BY <1>3 DEF Hydrate, d
  <2> HIDE DEF h
  <2>4. Sound(h)
    BY <2>1, <2>2 DEF Sound
  <2>5. CASE adopts
    <3> DEFINE v == Adopt(h, w.store.tok)
    <3>1. Kept(t, h, v) /\ v.tab.tok = w.store.tok /\ v.store = h.store /\ v.tab.listening
      BY <2>1, <2>2, <2>4, <2>5, Adopted
    <3>2. Hydrate(w) = v
      BY <2>3, <2>5
    <3> HIDE DEF v
    <3>3. Moves(t, w, v)
      BY <1>1, <2>1, <2>2, <3>1 DEF Kept, Good, Moves
    <3> QED
      BY <2>2, <3>1, <3>2, <3>3 DEF Kept, Good, Drops
  <2>6. CASE ~adopts
    <3>1. Hydrate(w) = h /\ w.store.tok = None
      BY <2>3, <2>6 DEF InStep
    <3>2. InStep(t, h)
      BY <2>1, <2>2, <3>1 DEF InStep
    <3>3. Moves(t, w, h)
      BY <1>1, <2>1, <2>2 DEF Moves
    <3> QED
      BY <2>1, <2>2, <2>4, <3>1, <3>2, <3>3 DEF Kept, Good, Drops
  <2> QED
    BY <2>5, <2>6
<1> QED
  BY <1>2, <1>3

(* syncSessionFromStorage: the tab shows what is stored, so that the event *)
(* may go.                                                                 *)
LEMMA Synced ==
  ASSUME NEW t \in Tabs, NEW w, Sound(w), InStep(t, w), t \in w.mail, Len(issued) \in Nat,
         NEW v, v = [SyncSessionFromStorage(w, t) EXCEPT !.mail = @ \ {t}]
  PROVE  Kept(t, w, v) /\ v.tab.listening
<1> DEFINE u == SyncSessionFromStorage(w, t)
<1>1. w.store.rev \in Nat /\ w.tab.listening
  BY DEF Sound, Worlds, Store, InStep
<1>2. Kept(t, w, u) /\ u.tab.tok = u.store.tok /\ u.tab.listening
  <2>1. CASE (w.store.out \/ w.store.tok = None) /\ (w.tab.tok # None \/ w.tab.status # "anonymous")
    <3>1. u = Anonymous(w, t, FALSE)
      BY <2>1 DEF SyncSessionFromStorage
    <3>2. Kept(t, w, u) /\ NobodyShown(w, u)
      BY <1>1, <3>1, BecameAnonymous
    <3> QED
      BY <1>1, <3>2 DEF NobodyShown
  <2>2. CASE ~(w.store.out \/ w.store.tok = None) /\ w.store.tok # w.tab.tok
    <3>1. u = Adopt(w, w.store.tok)
      BY <2>2 DEF SyncSessionFromStorage
    <3> QED
      BY <1>1, <2>2, <3>1, Adopted DEF InStep
  <2>3. CASE /\ ~((w.store.out \/ w.store.tok = None) /\ (w.tab.tok # None \/ w.tab.status # "anonymous"))
             /\ ~(~(w.store.out \/ w.store.tok = None) /\ w.store.tok # w.tab.tok)
    <3>1. u = w /\ w.tab.tok = w.store.tok
      BY <2>3 DEF SyncSessionFromStorage, InStep
    <3> QED
      BY <1>1, <3>1, GoodReflexive
  <2> QED
    BY <2>1, <2>2, <2>3
<1> HIDE DEF u
<1>3. u \in Worlds /\ u.mail \subseteq Tabs
  BY <1>2 DEF Kept, Good, Sound, Worlds
<1>4. v.tab = u.tab /\ v.store = u.store /\ v.cache = u.cache /\ v.mail = u.mail \ {t}
      /\ v \in Worlds
  BY <1>3 DEF u, Worlds
<1>5. Sound(v) /\ InStep(t, v)
  BY <1>2, <1>4 DEF Kept, Good, Sound, InStep
<1>6. t \notin Others(t)
  BY DEF Others
<1>7. Moves(t, w, v)
  BY <1>2, <1>4, <1>6 DEF Kept, Good, Moves
<1> QED
  BY <1>2, <1>4, <1>5, <1>7 DEF Kept, Good, Drops

(* clearRejectedSession ends a session only where nobody has replaced it. *)
LEMMA RejectedCleared ==
  ASSUME NEW t \in Tabs, NEW w, Sound(w), InStep(t, w), NEW bearer, Len(issued) \in Nat
  PROVE  /\ Kept(t, w, ClearRejected(w, t, bearer))
         /\ ClearRejected(w, t, bearer).tab.listening = w.tab.listening
<1>1. CASE w.tab.tok = bearer /\ w.store.tok = bearer
  BY <1>1, SessionEnded DEF ClearRejected, InStep, NobodyLeft
<1>2. CASE ~(w.tab.tok = bearer /\ w.store.tok = bearer)
  BY <1>2, GoodReflexive DEF ClearRejected
<1> QED
  BY <1>1, <1>2

LEMMA NotRefreshed ==
  ASSUME NEW t \in Tabs, NEW w, Sound(w), InStep(t, w), NEW q, Len(issued) \in Nat
  PROVE  /\ Kept(t, w, NoRefresh(w, t, q))
         /\ NoRefresh(w, t, q).tab.listening = w.tab.listening
<1>1. CASE q.left
  BY <1>1, GoodReflexive DEF NoRefresh
<1>2. CASE ~q.left
  BY <1>2, BecameAnonymous DEF NoRefresh, InStep, NobodyShown
<1> QED
  BY <1>1, <1>2

LEMMA ConfigurationKnown ==
  ASSUME NEW t \in Tabs, NEW w, NEW u, Sound(w), Kept(t, w, u)
  PROVE  /\ Kept(t, w, Configured(u))
         /\ Configured(u).tab.tok = u.tab.tok
         /\ Configured(u).tab.listening = u.tab.listening
<1> DEFINE d == [u.tab EXCEPT !.config = TRUE]
           v == [u EXCEPT !.tab = d]
<1>1. u \in Worlds /\ u.tab \in Tab /\ Sound(u) /\ InStep(t, u)
  BY DEF Kept, Good, Sound, Worlds
<1>2. /\ d \in Tab /\ d.tok = u.tab.tok /\ d.status = u.tab.status /\ d.epoch = u.tab.epoch
      /\ d.listening = u.tab.listening /\ d.hydrated = u.tab.hydrated
      /\ d.leaving = u.tab.leaving
  BY <1>1 DEF Tab
<1>3. Configured(u) = v
  BY DEF Configured
<1> HIDE DEF d
<1>4. v.tab = d /\ v.store = u.store /\ v.mail = u.mail /\ v.cache = u.cache /\ v \in Worlds
  BY <1>1, <1>2 DEF Worlds
<1> HIDE DEF v
<1>5. Kept(t, u, v)
  BY <1>1, <1>2, <1>4, FlagsFree
<1>6. Kept(t, w, v)
  BY <1>5, GoodTransitive DEF Kept
<1> QED
  BY <1>2, <1>3, <1>4, <1>6

(* ensureValidSession: what it hands out is no token or the one on screen. *)
Ensured(t, w, e) ==
    /\ Kept(t, w, e.w) /\ e.w.tab.listening
    /\ e.tok \in {None, Fail, e.w.tab.tok}
LEMMA SessionEnsured ==
  ASSUME NEW t \in Tabs, NEW w0, Sound(w0), InStep(t, w0), Len(issued) \in Nat,
         NEW force \in BOOLEAN
  PROVE  Ensured(t, w0, Ensure(w0, t, force))
<1> DEFINE w == Hydrate(w0)
           n == w.tab.tok
           e == Ensure(w0, t, force)
<1>1. Kept(t, w0, w) /\ w.tab.listening
  BY Hydrated
<1>2. Sound(w) /\ InStep(t, w)
  BY <1>1 DEF Kept, Good
<1>3. CASE w.store.out
  <2> DEFINE u == IF w.tab.status # "anonymous" THEN Anonymous(w, t, FALSE) ELSE w
  <2>1. e = Done(u, None)
    BY <1>3 DEF Ensure
  <2>2. Kept(t, w, u) /\ u.tab.listening
    <3>1. CASE w.tab.status # "anonymous"
      <4>1. u = Anonymous(w, t, FALSE)
        BY <3>1
      <4> HIDE DEF u, w, e
      <4>2. PICK y : y = Anonymous(w, t, FALSE) /\ Kept(t, w, y) /\ NobodyShown(w, y)
        BY <1>1, <1>2, BecameAnonymous DEF InStep
      <4> QED
        BY <1>1, <4>1, <4>2 DEF NobodyShown
    <3>2. CASE w.tab.status = "anonymous"
      <4>1. u = w
        BY <3>2
      <4> HIDE DEF u, w, e
      <4> QED
        BY <1>1, <1>2, <4>1, GoodReflexive
    <3> QED
      BY <3>1, <3>2
  <2> HIDE DEF u, w, e
  <2>3. Kept(t, w0, u)
    BY <1>1, <2>2, GoodTransitive DEF Kept
  <2> QED
    BY <2>1, <2>2, <2>3 DEF Ensured, Done, e
<1>4. CASE ~w.store.out
  <2>1. e.w = w /\ e.tok \in {None, Fail, n}
    <3>1. CASE ~force /\ Fresh(n)
      <4>1. e = Done(w, n)
        BY <1>4, <3>1 DEF Ensure
      <4> QED
        BY <4>1 DEF Done
    <3>2. CASE ~force /\ ~Fresh(n) /\ w.tab.backoff
      <4>1. e = Done(w, IF Left(n) THEN n ELSE Fail)
        BY <1>4, <3>2 DEF Ensure
      <4> QED
        BY <4>1 DEF Done
    <3>3. CASE ~(~force /\ Fresh(n)) /\ ~(~force /\ ~Fresh(n) /\ w.tab.backoff)
      <4>1. e = [how |-> "config", tok |-> None, w |-> w]
        BY <1>4, <3>3 DEF Ensure
      <4> QED
        BY <4>1
    <3> QED
      BY <3>1, <3>2, <3>3
  <2> QED
    BY <1>1, <2>1 DEF Ensured
<1> QED
  BY <1>3, <1>4

(* sessionFetch goes on with the token of the account on screen, gives up, *)
(* or sends the user to the login page unless the tab is logging out.      *)
Continues(q, w) ==
    /\ q \in Call /\ OwnBearer(q, w.tab) /\ q.pc \in {"idle", "sent", "redirect"}
    /\ q.pc = "redirect" => ~w.tab.leaving
LEMMA IdleContinues ==
  ASSUME NEW w, Sound(w), Len(issued) \in Nat
  PROVE  Continues(Idle, w)
<1>1. 0 \in Tokens /\ w.tab.epoch \in Nat
  BY SessionAssumption DEF Tokens, Sound, Worlds, Tab
<1> QED
  BY <1>1 DEF Continues, Idle, Call, Avail, None, OwnBearer

LEMMA TokenContinues ==
  ASSUME NEW w, Sound(w), Len(issued) \in Nat, NEW q \in Call, q.epoch <= w.tab.epoch,
         q.bearer <= Len(issued), NEW n, n \in {None, Fail, w.tab.tok}
  PROVE  Continues(AfterToken(q, w, n), w)
<1>1. /\ w.tab.epoch \in Nat /\ w.tab.tok \in Tokens /\ w.tab.tok <= Len(issued)
      /\ None \in Tokens /\ Fail \notin Tokens /\ None <= Len(issued) /\ None # Fail
  BY SessionAssumption DEF Tokens, None, Fail, Sound, Worlds, Tab
<1> DEFINE r == AfterToken(q, w, n)
<1>2. CASE n = Fail
  <2>1. r = Idle
    BY <1>1, <1>2 DEF AfterToken
  <2> QED
    BY <2>1, IdleContinues
<1>3. CASE n # Fail /\ q.stage = "first"
  <2>1. r = [q EXCEPT !.pc = "sent", !.bearer = n, !.epoch = w.tab.epoch]
    BY <1>3 DEF AfterToken
  <2>2. n \in Tokens /\ n <= Len(issued)
    BY <1>1, <1>3
  <2>3. r \in Call /\ r.pc = "sent" /\ r.bearer = n /\ r.epoch = w.tab.epoch
    BY <1>1, <2>1, <2>2 DEF Call
  <2> QED
    BY <1>1, <1>3, <2>2, <2>3 DEF Continues, OwnBearer
<1>4. CASE n = None /\ q.stage = "retry"
  <2>1. r = IF w.tab.leaving THEN Idle ELSE [Idle EXCEPT !.pc = "redirect"]
    BY <1>1, <1>4 DEF AfterToken
  <2>2. CASE w.tab.leaving
    BY <2>1, <2>2, IdleContinues
  <2>3. CASE ~w.tab.leaving
    <3>1. /\ r \in Call /\ r.pc = "redirect" /\ r.bearer = None /\ r.epoch = 0
      <4>1. Idle \in Call /\ Idle.bearer = None /\ Idle.epoch = 0
        BY <1>1 DEF Idle, Call, Avail
      <4> QED
        BY <2>1, <2>3, <4>1 DEF Call
    <3> QED
      BY <1>1, <2>3, <3>1 DEF Continues, OwnBearer
  <2> QED
    BY <2>2, <2>3
<1>5. CASE n # Fail /\ q.stage # "first" /\ n # None
  <2>1. r = IF w.tab.epoch # q.epoch \/ q.kind = "write" THEN Idle
            ELSE [q EXCEPT !.pc = "sent", !.bearer = n]
    BY <1>5 DEF AfterToken
  <2>2. CASE w.tab.epoch # q.epoch \/ q.kind = "write"
    BY <2>1, <2>2, IdleContinues
  <2>3. CASE ~(w.tab.epoch # q.epoch \/ q.kind = "write")
    <3>1. n \in Tokens /\ n <= Len(issued)
      BY <1>1, <1>5
    <3>2. r \in Call /\ r.pc = "sent" /\ r.bearer = n /\ r.epoch = w.tab.epoch
      BY <2>1, <2>3, <3>1 DEF Call
    <3> QED
      BY <1>1, <1>5, <3>1, <3>2 DEF Continues, OwnBearer
  <2> QED
    BY <2>2, <2>3
<1>6. q.stage \in {"first", "retry"}
  BY DEF Call
<1> QED
  BY <1>2, <1>3, <1>4, <1>5, <1>6

(* A call that waits for the configuration. *)
LEMMA WaitingTyped ==
  ASSUME NEW w, Sound(w), NEW q \in Call, NEW force \in BOOLEAN, q.epoch <= w.tab.epoch,
         q.bearer <= Len(issued)
  PROVE  /\ Waiting(q, w, force) \in Call /\ OwnBearer(Waiting(q, w, force), w.tab)
         /\ Waiting(q, w, force).pc = "config"
<1>1. w.store.avail \in Avail /\ Left(w.tab.tok) \in BOOLEAN
  BY DEF Sound, Worlds, Store, Left
<1> DEFINE avail == w.store.avail
           left == Left(w.tab.tok)
           r == [q EXCEPT !.pc = "config", !.mode = "ensure", !.force = force,
                          !.avail = avail, !.left = left]
<1>2. Waiting(q, w, force) = r
  BY DEF Waiting
<1> HIDE DEF avail, left
<1>3. r \in Call /\ r.pc = "config" /\ r.epoch = q.epoch /\ r.bearer = q.bearer
  BY <1>1 DEF Call, avail, left
<1> HIDE DEF r
<1> QED
  BY <1>2, <1>3 DEF OwnBearer

(* The calls that awaited a refresh. *)
LEMMA CallsResumed ==
  ASSUME NEW w, Sound(w), Len(issued) \in Nat, NEW q \in Call, OwnBearer(q, w.tab),
         q.pc = "refresh", NEW r, r \in {None, Fail, w.tab.tok}
  PROVE  Continues(Resumed(q, w, r), w)
  BY TokenContinues DEF Resumed, OwnBearer

-----------------------------------------------------------------------------
(* What a step of one tab leaves to the others.                            *)

(* Tokens keep their account and the time they were asked for. *)
Grows ==
    /\ issued \in Seq(Token) /\ issued' \in Seq(Token) /\ Len(issued) <= Len(issued')
    /\ \A n \in 1..Len(issued) : /\ issued'[n].user = issued[n].user
                                 /\ issued'[n].asked = issued[n].asked

(* Time passes: revisions grow, and with every logout. *)
Passes ==
    /\ Grows /\ store \in Store /\ store' \in Store /\ store.rev <= store'.rev
    /\ outs' = outs \/ store.rev < store'.rev

Listens(s) ==
    ~tab[s].listening => /\ boot[s].pc \in {"idle", "start"}
                         /\ req[s].pc = "idle" /\ flight[s].pc = "off"
                         /\ sign[s].pc = "off"
TabInv(s) ==
    /\ Sound(World(s)) /\ InStep(s, World(s)) /\ Listens(s)
    /\ FlightFenced(s) /\ SignFenced(s) /\ OwnBearer(req[s], tab[s])

LEMMA GrowsFacts ==
  ASSUME Grows
  PROVE  /\ Len(issued) \in Nat /\ Len(issued') \in Nat /\ Len(issued) <= Len(issued')
         /\ \A n \in Nat : n <= Len(issued) => n <= Len(issued') /\ UserOf(n)' = UserOf(n)
<1>1. Len(issued) \in Nat /\ Len(issued') \in Nat /\ Len(issued) <= Len(issued')
  BY LenProperties DEF Grows
<1>2. ASSUME NEW n \in Nat, n <= Len(issued)
      PROVE  n <= Len(issued') /\ UserOf(n)' = UserOf(n)
  <2>1. n # 0 => n \in 1..Len(issued)
    BY <1>1, <1>2
  <2> QED
    BY <1>1, <1>2, <2>1 DEF Grows, UserOf, None
<1> QED
  BY <1>1, <1>2

LEMMA GrowsStill ==
  ASSUME TypeOK, issued' = issued
  PROVE  Grows
<1>1. Len(issued) \in Nat
  BY LenProperties DEF TypeOK
<1> QED
  BY <1>1 DEF TypeOK, Grows

LEMMA FlightKept ==
  ASSUME TypeOK, FenceInv, Passes, NEW s \in Tabs, flight'[s] = flight[s]
  PROVE  FlightFenced(s)'
<1> DEFINE f == flight[s]
<1>1. FlightFenced(s) /\ f \in Flight
  BY DEF FenceInv, TypeOK
<1>2. f.fence \in Nat /\ store.rev \in Nat /\ store'.rev \in Nat
  BY <1>1 DEF Flight, Passes, Store
<1>3. Len(issued) \in Nat /\ Len(issued') \in Nat /\ Len(issued) <= Len(issued')
  BY GrowsFacts DEF Passes
<1>4. f.pc = "token" => /\ f.answer \in 1..Len(issued')
                        /\ issued'[f.answer].asked = f.asked
                        /\ issued'[f.answer].user \in OidcUsers
  BY <1>1, <1>3 DEF FlightFenced, Passes, Grows
<1>5. f.pc \notin {"off", "lock"} =>
          f.fence <= store'.rev /\ (f.fence = store'.rev => f.asked = outs')
  BY <1>1, <1>2 DEF FlightFenced, Passes
<1> QED
  BY <1>1, <1>4, <1>5 DEF FlightFenced

LEMMA SignKept ==
  ASSUME TypeOK, FenceInv, Passes, NEW s \in Tabs, sign'[s] = sign[s]
  PROVE  SignFenced(s)'
<1> DEFINE g == sign[s]
<1>1. SignFenced(s) /\ g \in SignIn
  BY DEF FenceInv, TypeOK
<1>2. g.fence \in Nat /\ store.rev \in Nat /\ store'.rev \in Nat
  BY <1>1 DEF SignIn, Passes, Store
<1>3. Len(issued) \in Nat /\ Len(issued') \in Nat /\ Len(issued) <= Len(issued')
  BY GrowsFacts DEF Passes
<1>4. g.pc \in {"token", "clearing", "cleared"} =>
          /\ g.answer \in 1..Len(issued')
          /\ issued'[g.answer].asked = g.asked
          /\ issued'[g.answer].user = g.user
  BY <1>1, <1>3 DEF SignFenced, Passes, Grows
<1>5. g.pc # "off" => /\ g.user \in Users
                      /\ g.fence <= store'.rev /\ (g.fence = store'.rev => g.asked = outs')
  BY <1>1, <1>2 DEF SignFenced, Passes
<1> QED
  BY <1>1, <1>4, <1>5 DEF SignFenced

(* A pending request, while its tab shows tb from now on. *)
LEMMA BearerKept ==
  ASSUME NEW q \in Call, NEW ta \in Tab, NEW tb \in Tab, OwnBearer(q, ta), Grows,
         ta.tok <= Len(issued), tb.tok <= Len(issued), ta.epoch <= tb.epoch,
         tb.epoch = ta.epoch => UserOf(tb.tok) = UserOf(ta.tok)
  PROVE  OwnBearer(q, tb)'
<1>1. /\ q.epoch \in Nat /\ q.bearer \in Nat /\ ta.epoch \in Nat /\ tb.epoch \in Nat
      /\ ta.tok \in Nat /\ tb.tok \in Nat
  BY DEF Call, Tab, Tokens
<1>2. /\ q.bearer <= Len(issued) /\ q.bearer <= Len(issued')
      /\ UserOf(q.bearer)' = UserOf(q.bearer) /\ UserOf(tb.tok)' = UserOf(tb.tok)
  BY <1>1, GrowsFacts DEF OwnBearer
<1>3. q.epoch <= tb.epoch /\ (q.epoch = tb.epoch => q.epoch = ta.epoch /\ tb.epoch = ta.epoch)
  BY <1>1 DEF OwnBearer
<1> QED
  BY <1>2, <1>3 DEF OwnBearer

(* A tab in which nothing runs learns of a new token. *)
LEMMA WorldKept ==
  ASSUME TypeOK, WorldsInv, Passes, NEW s \in Tabs, tab'[s] = tab[s], cache'[s] = cache[s],
         mail' \subseteq Tabs, store'.tok <= Len(issued'), store'.out => store'.tok = None,
         s \in mail => s \in mail', s \in mail' => s \in mail \/ tab[s].listening,
         store'.tok # store.tok /\ tab[s].listening => s \in mail'
  PROVE  Sound(World(s))' /\ InStep(s, World(s))'
<1> DEFINE w == World(s)
<1>1. Sound(w) /\ InStep(s, w) /\ w.tab = tab[s] /\ w.cache = cache[s] /\ w.store = store
      /\ w.mail = mail
  BY DEF WorldsInv, World
<1> HIDE DEF w
<1>2. tab[s].tok \in Nat /\ tab[s] \in Tab /\ cache[s] \in SUBSET Users
  BY DEF TypeOK, Tab, Tokens
<1>3. tab[s].tok <= Len(issued)
  BY <1>1 DEF Sound
<1>4. tab[s].tok <= Len(issued') /\ UserOf(tab[s].tok)' = UserOf(tab[s].tok)
  <2> PICK n \in Nat : n = tab[s].tok
    BY <1>2
  <2>1. n <= Len(issued') /\ UserOf(n)' = UserOf(n)
    BY <1>3, GrowsFacts DEF Passes
  <2> QED
    BY <2>1 DEF UserOf
<1>5. World(s)' \in Worlds
  BY <1>2 DEF World, Worlds, Passes
<1>6. Sound(World(s))'
  <2>1. ~tab[s].listening => tab[s].tok = None /\ ~tab[s].hydrated
    BY <1>1 DEF Sound
  <2>2. tab[s].status = "anonymous" => tab[s].tok = None
    BY <1>1 DEF Sound
  <2>3. cache[s] \subseteq {UserOf(tab[s].tok)} \ {NoUser}
    BY <1>1 DEF Sound
  <2>4. World(s)' = [tab |-> tab[s], cache |-> cache[s], store |-> store', mail |-> mail']
    BY DEF World
  <2>5. cache[s] \subseteq {UserOf(tab[s].tok)'} \ {NoUser}
    BY <1>4, <2>3
  <2> QED
    BY <1>4, <1>5, <2>1, <2>2, <2>4, <2>5 DEF Sound
<1>7. InStep(s, World(s))'
  <2>1. /\ tab[s].tok # store.tok => s \in mail \/ (tab[s].tok = None /\ ~tab[s].hydrated)
        /\ s \in mail => tab[s].listening
    BY <1>1 DEF InStep
  <2>2. ~tab[s].listening => tab[s].tok = None /\ ~tab[s].hydrated
    BY <1>1 DEF Sound
  <2> QED
    BY <2>1, <2>2 DEF InStep, World
<1> QED
  BY <1>6, <1>7

(* The frame of a step of tab t. *)
Frame(t) ==
    /\ Passes /\ TypeOK' /\ lockKind' = lockKind
    /\ store'.tok <= Len(issued') /\ (store'.out => store'.tok = None)
    /\ mail \ {t} \subseteq mail' /\ mail' \subseteq mail \cup Others(t)
    /\ store'.tok # store.tok => Others(t) \subseteq mail'
    /\ \A s \in Tabs \ {t} :
           /\ tab'[s] = tab[s] /\ cache'[s] = cache[s] /\ flight'[s] = flight[s]
           /\ boot'[s] = boot[s] /\ req'[s] = req[s] /\ sign'[s] = sign[s]
           /\ out'[s] = out[s]

LEMMA OthersKept ==
  ASSUME SessionInv, NEW t \in Tabs, Frame(t), NEW s \in Tabs \ {t}
  PROVE  TabInv(s)'
<1>1. /\ tab'[s] = tab[s] /\ cache'[s] = cache[s] /\ flight'[s] = flight[s]
      /\ boot'[s] = boot[s] /\ req'[s] = req[s] /\ sign'[s] = sign[s]
      /\ Passes /\ mail' \subseteq Tabs /\ TypeOK /\ FenceInv /\ WorldsInv /\ ListeningInv
      /\ BearerInv
  BY DEF Frame, TypeOK, SessionInv
<1>2. /\ s \in mail => s \in mail'
      /\ s \in mail' => s \in mail \/ tab[s].listening
      /\ store'.tok # store.tok /\ tab[s].listening => s \in mail'
  BY DEF Frame, Others
<1>3. Sound(World(s))' /\ InStep(s, World(s))'
  BY <1>1, <1>2, WorldKept DEF Frame
<1>4. Listens(s)'
  BY <1>1 DEF Listens, ListeningInv
<1>5. FlightFenced(s)' /\ SignFenced(s)'
  BY <1>1, FlightKept, SignKept
<1>6. OwnBearer(req[s], tab[s])'
  <2> PICK q \in Call, b \in Tab : q = req[s] /\ b = tab[s]
    BY <1>1 DEF TypeOK
  <2>1. OwnBearer(q, b) /\ b.tok <= Len(issued) /\ b.epoch \in Nat
    BY <1>1 DEF BearerInv, WorldsInv, Sound, World, Tab
  <2>2. OwnBearer(q, b)'
    BY <1>1, <2>1, BearerKept DEF Passes
  <2> QED
    BY <1>1, <2>2 DEF OwnBearer, UserOf
<1> QED
  BY <1>3, <1>4, <1>5, <1>6 DEF TabInv

(* A step that keeps the invariant and leaves a password account alone. *)
Alone ==
    lockKind = "web" /\ store'.tok # store.tok /\ UserOf(store.tok)' \in BasicUsers
        => grant' = NoUser
Safe == SessionInv' /\ Alone

LEMMA TokenDropped ==
  ASSUME store'.tok \in {store.tok, None}
  PROVE  Alone
  BY SessionAssumption DEF Alone, UserOf

(* The invariant, put together after a step of tab t. *)
LEMMA Assembled ==
  ASSUME SessionInv, NEW t \in Tabs, Frame(t), TabInv(t)', LockInv', SignedOutStays',
         LeavingInv', LogoutNotCancelled', GrantInv', Alone
  PROVE  Safe
<1>1. \A s \in Tabs : TabInv(s)'
  BY OthersKept
<1>2. TypeOK'
  BY DEF Frame
<1>3. WorldsInv' /\ ListeningInv' /\ FenceInv' /\ BearerInv'
  BY <1>1 DEF TabInv, WorldsInv, ListeningInv, Listens, FenceInv, BearerInv
<1>4. LockInUse'
  BY <1>2 DEF LockInUse, LockInv, TypeOK, Free
<1> QED
  BY <1>2, <1>3, <1>4 DEF SessionInv, Safe

-----------------------------------------------------------------------------
(* Steps that put a world back.                                            *)

(* What is pending elsewhere stays, what is pending in tab t is typed. *)
Pending(t) ==
    /\ flight' \in [Tabs -> Flight] /\ boot' \in [Tabs -> Call] /\ req' \in [Tabs -> Call]
    /\ sign' \in [Tabs -> SignIn]
    /\ out' \in [Tabs -> {"off", "config", "lock", "sent", "done"}]
    /\ \A s \in Tabs \ {t} :
           /\ flight'[s] = flight[s] /\ boot'[s] = boot[s] /\ req'[s] = req[s]
           /\ sign'[s] = sign[s] /\ out'[s] = out[s]

LEMMA PutFrame ==
  ASSUME SessionInv, NEW t \in Tabs, NEW v, Good(t, World(t), v), Put(t, v), Pending(t),
         issued' = issued, lockKind' = lockKind, grant' \in OidcUsers \cup {NoUser},
         lock' \in (Tabs \X {"refresh", "sign", "out"}) \cup {Free},
         outs' \in Nat, outs' = outs \/ store.rev < v.store.rev, owed' \subseteq Tabs
  PROVE  /\ Frame(t) /\ Sound(World(t))' /\ InStep(t, World(t))'
         /\ tab'[t] = v.tab /\ store' = v.store
<1>1. TypeOK /\ issued \in Seq(Token) /\ tab \in [Tabs -> Tab] /\ cache \in [Tabs -> SUBSET Users]
      /\ store \in Store /\ lockKind \in {"web", "lease"}
  BY DEF SessionInv, TypeOK
<1>2. Sound(v) /\ InStep(t, v) /\ Moves(t, World(t), v)
  BY DEF Good
<1>3. v \in Worlds /\ v.tab \in Tab /\ v.cache \in SUBSET Users /\ v.store \in Store
      /\ v.mail \in SUBSET Tabs
  BY <1>2 DEF Sound, Worlds
<1>4. /\ tab' = [tab EXCEPT ![t] = v.tab] /\ cache' = [cache EXCEPT ![t] = v.cache]
      /\ store' = v.store /\ mail' = v.mail
  BY DEF Put
<1>5. /\ tab' \in [Tabs -> Tab] /\ cache' \in [Tabs -> SUBSET Users]
      /\ tab'[t] = v.tab /\ cache'[t] = v.cache
      /\ \A s \in Tabs \ {t} : tab'[s] = tab[s] /\ cache'[s] = cache[s]
  BY <1>1, <1>3, <1>4
<1>6. World(t)' = v
  BY <1>3, <1>4, <1>5 DEF World, Worlds
<1>7. Sound(World(t))' /\ InStep(t, World(t))'
  BY <1>2, <1>6 DEF Sound, InStep, UserOf
<1>8. /\ mail \ {t} \subseteq mail' /\ mail' \subseteq mail \cup Others(t)
      /\ store'.tok # store.tok => Others(t) \subseteq mail'
      /\ store.rev <= store'.rev
  BY <1>2, <1>4 DEF Moves, World
<1>9. Passes
  BY <1>1, <1>3, <1>4, <1>8, GrowsStill DEF Passes
<1>10. TypeOK'
  BY <1>1, <1>3, <1>4, <1>5 DEF TypeOK, Pending
<1>11. store'.tok <= Len(issued') /\ (store'.out => store'.tok = None)
  BY <1>2, <1>4 DEF Sound, InStep
<1>12. Frame(t)
  BY <1>5, <1>8, <1>9, <1>10, <1>11 DEF Frame, Pending
<1> QED
  BY <1>4, <1>5, <1>7, <1>12

(* A request goes on while its tab moves to v. *)
LEMMA BearerMoves ==
  ASSUME SessionInv, NEW t \in Tabs, NEW v, Good(t, World(t), v), tab'[t] = v.tab,
         issued' = issued, NEW q \in Call, OwnBearer(q, tab[t])
  PROVE  OwnBearer(q, v.tab)
<1>1. /\ tab[t].epoch <= v.tab.epoch
      /\ v.tab.epoch = tab[t].epoch => UserOf(v.tab.tok) = UserOf(tab[t].tok)
  BY DEF Good, Moves, World
<1>2. q.epoch \in Nat /\ tab[t].epoch \in Nat /\ v.tab.epoch \in Nat
  BY DEF SessionInv, TypeOK, Call, Tab, Good, Sound, Worlds
<1>3. q.epoch <= v.tab.epoch
      /\ (q.epoch = v.tab.epoch => q.epoch = tab[t].epoch /\ v.tab.epoch = tab[t].epoch)
  BY <1>1, <1>2 DEF OwnBearer
<1> QED
  BY <1>1, <1>3 DEF OwnBearer

(* A task that neither takes the lock nor stores a token. *)
LEMMA QuietTask ==
  ASSUME SessionInv, NEW t \in Tabs, NEW v, Kept(t, World(t), v), Put(t, v), Pending(t),
         UNCHANGED <<grant, lock, lockKind, issued, outs, owed>>, Listens(t)',
         OwnBearer(req'[t], v.tab),
         req'[t].pc = "redirect" => req[t].pc = "redirect" \/ ~v.tab.leaving,
         \/ flight'[t] = flight[t]
         \/ /\ flight[t].pc \in {"off", "lock"} /\ flight'[t].pc \in {"off", "lock"}
            /\ flight'[t].pc = "lock" => RefreshEnabled,
         \/ sign'[t] = sign[t]
         \/ /\ {sign[t].pc, sign'[t].pc} \subseteq {"off", "config", "lock"}
            /\ sign'[t].pc # "off" => /\ sign'[t].user \in Users
                                      /\ sign'[t].fence <= store.rev
                                      /\ sign'[t].fence = store.rev => sign'[t].asked = outs,
         out'[t] = out[t] \/ (out[t] = "config" /\ out'[t] = "lock")
  PROVE  Safe
<1>1. TypeOK /\ FenceInv /\ Good(t, World(t), v) /\ Drops(World(t), v)
      /\ lock' = lock /\ lockKind' = lockKind /\ grant' = grant /\ owed' = owed
      /\ issued' = issued /\ outs' = outs
  BY DEF SessionInv, Kept
<1>2. /\ Frame(t) /\ Sound(World(t))' /\ InStep(t, World(t))'
      /\ tab'[t] = v.tab /\ store' = v.store
  BY <1>1, PutFrame DEF TypeOK
<1>3. Passes
  BY <1>2 DEF Frame
<1>4. FlightFenced(t)'
  <2>1. CASE flight'[t] = flight[t]
    BY <1>1, <1>3, <2>1, FlightKept
  <2>2. CASE /\ flight'[t].pc \in {"off", "lock"}
             /\ flight'[t].pc = "lock" => RefreshEnabled
    BY <2>2 DEF FlightFenced
  <2> QED
    BY <2>1, <2>2
<1>5. SignFenced(t)'
  <2>1. CASE sign'[t] = sign[t]
    BY <1>1, <1>3, <2>1, SignKept
  <2>2. CASE /\ sign'[t].pc \in {"off", "config", "lock"}
             /\ sign'[t].pc # "off" => /\ sign'[t].user \in Users
                                       /\ sign'[t].fence <= store.rev
                                       /\ sign'[t].fence = store.rev => sign'[t].asked = outs
    <3>1. sign'[t].fence \in Nat /\ store.rev \in Nat /\ store'.rev \in Nat
          /\ store.rev <= store'.rev
      BY <1>3 DEF Pending, SignIn, Passes, Store
    <3> QED
      BY <1>1, <2>2, <3>1 DEF SignFenced
  <2> QED
    BY <2>1, <2>2
<1>6. OwnBearer(req[t], tab[t])'
  BY <1>1, <1>2 DEF OwnBearer, UserOf
<1>7. TabInv(t)'
  BY <1>2, <1>4, <1>5, <1>6 DEF TabInv
<1>8. LockInv'
  <2>1. \A s \in Tabs : /\ flight'[s].pc \notin {"off", "lock"} <=> flight[s].pc \notin {"off", "lock"}
                        /\ out'[s] = "sent" <=> out[s] = "sent"
                        /\ sign'[s].pc \notin {"off", "config", "lock"}
                              <=> sign[s].pc \notin {"off", "config", "lock"}
    BY DEF Pending
  <2> QED
    BY <1>1, <2>1 DEF SessionInv, LockInv
<1>9. SignedOutStays'
  BY <1>1, <1>2 DEF SessionInv, SignedOutStays, Drops, World
<1>10. LeavingInv' /\ LogoutNotCancelled'
  <2>1. tab[t].leaving => v.tab.leaving
    BY <1>1 DEF Good, Moves, World
  <2>2. ASSUME NEW s \in owed
        PROVE  /\ RefreshEnabled /\ tab'[s].leaving /\ req'[s].pc # "redirect"
               /\ out'[s] \in {"config", "lock", "sent"}
    <3>1. /\ RefreshEnabled /\ tab[s].leaving /\ req[s].pc # "redirect"
          /\ out[s] \in {"config", "lock", "sent"} /\ s \in Tabs
      BY DEF SessionInv, LeavingInv, LogoutNotCancelled, TypeOK
    <3>2. CASE s = t
      BY <1>2, <2>1, <3>1, <3>2
    <3>3. CASE s # t
      BY <1>2, <3>1, <3>3 DEF Frame
    <3> QED
      BY <3>2, <3>3
  <2> QED
    BY <1>1, <2>2 DEF LeavingInv, LogoutNotCancelled
<1>11. GrantInv'
  BY <1>1 DEF SessionInv, GrantInv, Pending
<1>12. Alone
  BY <1>1, <1>2, TokenDropped DEF Drops, World
<1> QED
  BY <1>2, <1>7, <1>8, <1>9, <1>10, <1>11, <1>12, Assembled

(* What the invariant says of one tab. *)
LEMMA TabFacts ==
  ASSUME SessionInv, NEW t \in Tabs
  PROVE  /\ TabInv(t) /\ Len(issued) \in Nat
         /\ World(t).tab = tab[t] /\ World(t).cache = cache[t]
         /\ World(t).store = store /\ World(t).mail = mail
         /\ tab[t] \in Tab /\ flight[t] \in Flight /\ boot[t] \in Call /\ req[t] \in Call
         /\ sign[t] \in SignIn
<1>1. Len(issued) \in Nat
  BY LenProperties DEF SessionInv, TypeOK
<1>2. TabInv(t)
  BY DEF TabInv, SessionInv, WorldsInv, ListeningInv, Listens, FenceInv, BearerInv
<1> QED
  BY <1>1, <1>2 DEF World, SessionInv, TypeOK

(* A step that leaves what the tab shows. *)
LEMMA StillPut ==
  ASSUME SessionInv, NEW t \in Tabs, UNCHANGED <<store, tab, cache, mail>>
  PROVE  Kept(t, World(t), World(t)) /\ Put(t, World(t))
<1>1. Kept(t, World(t), World(t))
  BY TabFacts, GoodReflexive DEF TabInv
<1>2. Put(t, World(t))
  BY DEF Put, World, SessionInv, TypeOK
<1> QED
  BY <1>1, <1>2

(* A step that sets flags of the tab. *)
LEMMA FlagsPut ==
  ASSUME SessionInv, NEW t \in Tabs, NEW d \in Tab, tab' = [tab EXCEPT ![t] = d],
         UNCHANGED <<store, cache, mail>>,
         d.tok = tab[t].tok, d.status = tab[t].status, d.epoch = tab[t].epoch,
         d.hydrated = tab[t].hydrated, d.listening = tab[t].listening,
         tab[t].leaving => d.leaving
  PROVE  \E v : Kept(t, World(t), v) /\ Put(t, v) /\ v.tab = d
<1> DEFINE v == [tab |-> d, cache |-> cache[t], store |-> store, mail |-> mail]
<1>1. Sound(World(t)) /\ InStep(t, World(t))
  BY TabFacts DEF TabInv
<1>2. v \in Worlds
  BY DEF Worlds, SessionInv, TypeOK
<1>3. /\ v.store = World(t).store /\ v.mail = World(t).mail /\ v.cache = World(t).cache
      /\ World(t).tab = tab[t] /\ v.tab = d
  BY DEF World
<1>4. Kept(t, World(t), v)
  <2> HIDE DEF v
  <2> QED
    BY <1>1, <1>2, <1>3, FlagsFree
<1>5. Put(t, v)
  BY DEF Put, SessionInv, TypeOK
<1> QED
  BY <1>3, <1>4, <1>5

LEMMA BackoffEndsKeeps ==
  ASSUME SessionInv, NEW t \in Tabs, BackoffEnds(t)
  PROVE  Safe
<1> USE DEF BackoffEnds
<1> DEFINE d == [tab[t] EXCEPT !.backoff = FALSE]
<1>1. tab[t] \in Tab /\ tab \in [Tabs -> Tab]
  BY DEF SessionInv, TypeOK
<1>2. /\ d \in Tab /\ d.tok = tab[t].tok /\ d.status = tab[t].status /\ d.epoch = tab[t].epoch
      /\ d.hydrated = tab[t].hydrated /\ d.listening = tab[t].listening
      /\ d.leaving = tab[t].leaving
  BY <1>1 DEF Tab
<1>3. tab' = [tab EXCEPT ![t] = d]
  BY <1>1
<1>4. PICK v : Kept(t, World(t), v) /\ Put(t, v) /\ v.tab = d
  <2> HIDE DEF d
  <2> QED
    BY <1>2, <1>3, FlagsPut
<1>5. Pending(t) /\ req'[t] = req[t] /\ flight'[t] = flight[t] /\ sign'[t] = sign[t]
      /\ out'[t] = out[t]
  BY DEF Pending, SessionInv, TypeOK
<1>6. Listens(t)'
  <2>1. Listens(t) /\ tab'[t] = d
    BY <1>1, <1>3, TabFacts DEF TabInv
  <2> HIDE DEF d
  <2> QED
    BY <1>2, <2>1 DEF Listens
<1>7. OwnBearer(req'[t], v.tab)
  <2> HIDE DEF d
  <2> QED
    BY <1>2, <1>4, TabFacts DEF TabInv, OwnBearer
<1> QED
  BY <1>4, <1>5, <1>6, <1>7, QuietTask

LEMMA DeliverKeeps ==
  ASSUME SessionInv, NEW t \in Tabs, Deliver(t)
  PROVE  Safe
<1> PICK v : v = [SyncSessionFromStorage(World(t), t) EXCEPT !.mail = @ \ {t}]
  OBVIOUS
<1>1. Put(t, v) /\ t \in mail
  BY DEF Deliver
<1>2. Kept(t, World(t), v) /\ v.tab.listening
  BY <1>1, TabFacts, Synced DEF TabInv
<1>3. tab'[t] = v.tab
  BY <1>1 DEF Put, SessionInv, TypeOK
<1>4. Pending(t) /\ req'[t] = req[t] /\ flight'[t] = flight[t] /\ sign'[t] = sign[t]
      /\ out'[t] = out[t]
  BY DEF Deliver, Pending, SessionInv, TypeOK
<1>5. Listens(t)'
  BY <1>2, <1>3 DEF Listens
<1>6. OwnBearer(req'[t], v.tab)
  BY <1>2, <1>3, <1>4, TabFacts, BearerMoves DEF TabInv, Kept, Deliver
<1>7. UNCHANGED <<grant, lock, lockKind, issued, outs, owed>>
  BY DEF Deliver
<1> QED
  BY <1>1, <1>2, <1>4, <1>5, <1>6, <1>7, QuietTask

LEMMA EnsureKeeps ==
  ASSUME SessionInv, NEW t \in Tabs, NEW force \in BOOLEAN, EnsureFromProvider(t, force)
  PROVE  Safe
<1> DEFINE w == World(t)
<1> PICK e : e = Ensure(World(t), t, force)
  OBVIOUS
<1> DEFINE armed == e.w.tab.armed /\ boot[t].pc = "start"
           d == [e.w.tab EXCEPT !.armed = armed]
           v == [e.w EXCEPT !.tab = d]
<1>1. /\ Put(t, v)
      /\ boot' = [boot EXCEPT ![t] = IF e.how = "config" THEN Waiting(Idle, e.w, force) ELSE Idle]
      /\ UNCHANGED <<grant, lock, lockKind, flight, req, sign, out, issued, outs, owed>>
  BY DEF EnsureFromProvider
<1>2. Sound(w) /\ InStep(t, w) /\ Len(issued) \in Nat /\ OwnBearer(req[t], tab[t]) /\ req[t] \in Call
  BY TabFacts DEF TabInv
<1>3. Ensured(t, w, e)
  BY <1>2, SessionEnsured
<1>4. Sound(e.w) /\ InStep(t, e.w) /\ e.w \in Worlds /\ e.w.tab \in Tab /\ Kept(t, w, e.w)
      /\ e.w.tab.listening
  BY <1>3 DEF Ensured, Kept, Good, Sound, Worlds
<1>5. armed \in BOOLEAN
  BY <1>4 DEF Tab
<1> HIDE DEF armed
<1>6. /\ d \in Tab /\ d.tok = e.w.tab.tok /\ d.status = e.w.tab.status /\ d.epoch = e.w.tab.epoch
      /\ d.hydrated = e.w.tab.hydrated /\ d.listening = e.w.tab.listening
      /\ d.leaving = e.w.tab.leaving
  BY <1>4, <1>5 DEF Tab
<1> HIDE DEF d
<1>7. v.tab = d /\ v.store = e.w.store /\ v.mail = e.w.mail /\ v.cache = e.w.cache /\ v \in Worlds
  BY <1>4, <1>6 DEF Worlds
<1> HIDE DEF v, w
<1>8. Kept(t, e.w, v)
  BY <1>4, <1>6, <1>7, FlagsFree
<1>9. Kept(t, w, v)
  BY <1>2, <1>4, <1>8, GoodTransitive DEF Kept
<1>10. Idle \in Call /\ Waiting(Idle, e.w, force) \in Call
  BY <1>2, <1>4, IdleContinues, WaitingTyped DEF Continues, OwnBearer
<1>11. Pending(t)
  BY <1>1, <1>10 DEF Pending, SessionInv, TypeOK
<1>12. tab'[t] = v.tab
  BY <1>1 DEF Put, SessionInv, TypeOK
<1>13. Listens(t)'
  BY <1>4, <1>6, <1>7, <1>12 DEF Listens
<1>14. OwnBearer(req'[t], v.tab)
  BY <1>1, <1>2, <1>9, <1>12, BearerMoves DEF Kept, w
<1> QED
  BY <1>1, <1>9, <1>11, <1>13, <1>14, QuietTask DEF w

LEMMA FlightStarted ==
  ASSUME SessionInv, NEW t \in Tabs, NEW rejected \in Tokens
  PROVE  /\ StartFlight(t, rejected) \in Flight
         /\ \/ StartFlight(t, rejected) = flight[t]
            \/ flight[t].pc = "off" /\ StartFlight(t, rejected).pc = "lock"
<1>1. flight[t] \in Flight /\ tab[t].tok \in Tokens /\ tab[t].epoch \in Nat
  BY DEF SessionInv, TypeOK, Tab
<1>2. 0 \in Tokens
  BY SessionAssumption DEF Tokens
<1> QED
  BY <1>1, <1>2 DEF StartFlight, NoFlight, Flight, None

LEMMA BootConfigKeeps ==
  ASSUME SessionInv, NEW t \in Tabs, BootConfig(t)
  PROVE  Safe
<1> DEFINE refresh == RefreshEnabled /\ boot[t].avail # "no"
<1> PICK v : v = IF refresh THEN Configured(World(t))
                            ELSE Configured(NoRefresh(World(t), t, boot[t]))
  OBVIOUS
<1>1. /\ Put(t, v) /\ boot[t].pc = "config"
      /\ boot' = [boot EXCEPT ![t] = IF refresh THEN [boot[t] EXCEPT !.pc = "refresh"] ELSE Idle]
      /\ IF refresh THEN flight' = [flight EXCEPT ![t] = StartFlight(t, None)]
                    ELSE flight' = flight
      /\ UNCHANGED <<grant, lock, lockKind, req, sign, out, issued, outs, owed>>
  BY DEF BootConfig, SessionInv, TypeOK
<1>2. /\ Sound(World(t)) /\ InStep(t, World(t)) /\ Len(issued) \in Nat /\ Listens(t)
      /\ OwnBearer(req[t], tab[t]) /\ req[t] \in Call /\ boot[t] \in Call
      /\ World(t).tab = tab[t]
  BY TabFacts DEF TabInv
<1>3. Kept(t, World(t), v) /\ v.tab.listening = tab[t].listening
  <2>1. CASE refresh
    BY <1>2, <2>1, GoodReflexive, ConfigurationKnown
  <2>2. CASE ~refresh
    BY <1>2, <2>2, NotRefreshed, ConfigurationKnown
  <2> QED
    BY <2>1, <2>2
<1>4. tab[t].listening
  BY <1>1, <1>2 DEF Listens
<1>5. Idle \in Call /\ [boot[t] EXCEPT !.pc = "refresh"] \in Call
  BY <1>2, IdleContinues DEF Continues, Call
<1>6. None \in Tokens
  BY SessionAssumption DEF None, Tokens
<1>7. /\ flight' \in [Tabs -> Flight]
      /\ \A s \in Tabs \ {t} : flight'[s] = flight[s]
      /\ \/ flight'[t] = flight[t]
         \/ flight[t].pc = "off" /\ flight'[t].pc = "lock" /\ RefreshEnabled
  BY <1>1, <1>6, FlightStarted DEF SessionInv, TypeOK
<1>8. Pending(t)
  BY <1>1, <1>5, <1>7 DEF Pending, SessionInv, TypeOK
<1>9. tab'[t] = v.tab
  BY <1>1 DEF Put, SessionInv, TypeOK
<1>10. Listens(t)'
  BY <1>3, <1>4, <1>9 DEF Listens
<1>11. OwnBearer(req'[t], v.tab)
  BY <1>1, <1>2, <1>3, <1>9, BearerMoves DEF Kept
<1> QED
  BY <1>1, <1>3, <1>7, <1>8, <1>10, <1>11, QuietTask

(* A request of the tab goes on as q. *)
LEMMA RequestTask ==
  ASSUME SessionInv, NEW t \in Tabs, NEW v, Kept(t, World(t), v), Put(t, v), v.tab.listening,
         NEW q \in Call, req' = [req EXCEPT ![t] = q], OwnBearer(q, v.tab),
         q.pc = "redirect" => ~v.tab.leaving,
         UNCHANGED <<grant, lock, lockKind, flight, boot, sign, out, issued, outs, owed>>
  PROVE  Safe
<1>1. Pending(t) /\ req'[t] = q /\ flight'[t] = flight[t] /\ sign'[t] = sign[t] /\ out'[t] = out[t]
  BY DEF Pending, SessionInv, TypeOK
<1>2. tab'[t] = v.tab
  BY DEF Put, SessionInv, TypeOK
<1>3. Listens(t)'
  BY <1>2 DEF Listens
<1> QED
  BY <1>1, <1>3, QuietTask

LEMMA CallMoves ==
  ASSUME SessionInv, NEW t \in Tabs, NEW v, Kept(t, World(t), v), NEW q \in Call,
         OwnBearer(q, tab[t])
  PROVE  q.epoch <= v.tab.epoch /\ q.bearer <= Len(issued)
<1>1. tab[t].epoch <= v.tab.epoch
  BY DEF Kept, Good, Moves, World
<1>2. q.epoch \in Nat /\ tab[t].epoch \in Nat /\ v.tab.epoch \in Nat
  BY DEF SessionInv, TypeOK, Call, Tab, Kept, Good, Sound, Worlds
<1> QED
  BY <1>1, <1>2 DEF OwnBearer

LEMMA ReqConfigKeeps ==
  ASSUME SessionInv, NEW t \in Tabs, ReqConfig(t)
  PROVE  Safe
<1> DEFINE q == req[t]
           recover == q.mode = "recover"
           refresh == RefreshEnabled /\ (IF recover THEN store.avail ELSE q.avail) # "no"
           u == IF recover THEN ClearRejected(World(t), t, q.bearer) ELSE NoRefresh(World(t), t, q)
<1> PICK v : v = IF refresh THEN Configured(World(t)) ELSE Configured(u)
  OBVIOUS
<1>1. /\ Sound(World(t)) /\ InStep(t, World(t)) /\ Len(issued) \in Nat /\ Listens(t)
      /\ OwnBearer(q, tab[t]) /\ q \in Call /\ World(t).tab = tab[t]
  BY TabFacts DEF TabInv
<1>2. /\ q.pc = "config" /\ Put(t, v)
      /\ UNCHANGED <<grant, lock, lockKind, boot, sign, out, issued, outs, owed>>
  BY DEF ReqConfig
<1>3. tab[t].listening
  BY <1>1, <1>2 DEF Listens
<1>4. Kept(t, World(t), v) /\ v.tab.listening
  <2>1. CASE refresh
    BY <1>1, <1>3, <2>1, GoodReflexive, ConfigurationKnown
  <2>2. CASE ~refresh
    <3>1. Kept(t, World(t), u) /\ u.tab.listening
      BY <1>1, <1>3, RejectedCleared, NotRefreshed
    <3> HIDE DEF u
    <3> QED
      BY <1>1, <2>2, <3>1, ConfigurationKnown
  <2> QED
    BY <2>1, <2>2
<1>5. q.epoch <= v.tab.epoch /\ q.bearer <= Len(issued) /\ q.bearer \in Tokens /\ Sound(v)
      /\ None \in Tokens
  <2>1. None \in Tokens
    BY SessionAssumption DEF None, Tokens
  <2> QED
    BY <1>1, <1>4, <2>1, CallMoves DEF Call, Kept, Good
<1>6. CASE refresh
  <2> DEFINE r == [q EXCEPT !.pc = "refresh"]
  <2>1. r \in Call /\ r.pc = "refresh" /\ r.epoch = q.epoch /\ r.bearer = q.bearer
    BY <1>1 DEF Call
  <2>2. req' = [req EXCEPT ![t] = r]
    BY <1>6 DEF ReqConfig, SessionInv, TypeOK
  <2> HIDE DEF r
  <2>3. OwnBearer(r, v.tab)
    BY <1>5, <2>1 DEF OwnBearer
  <2>4. PICK rejected \in Tokens : flight' = [flight EXCEPT ![t] = StartFlight(t, rejected)]
    BY <1>5, <1>6 DEF ReqConfig
  <2>5. /\ flight' \in [Tabs -> Flight]
        /\ \A s \in Tabs \ {t} : flight'[s] = flight[s]
        /\ \/ flight'[t] = flight[t]
           \/ flight[t].pc = "off" /\ flight'[t].pc = "lock" /\ RefreshEnabled
    BY <1>6, <2>4, FlightStarted DEF SessionInv, TypeOK
  <2>6. Pending(t) /\ req'[t] = r
    BY <1>2, <2>1, <2>2, <2>5 DEF Pending, SessionInv, TypeOK
  <2>7. tab'[t] = v.tab
    BY <1>2 DEF Put, SessionInv, TypeOK
  <2>8. Listens(t)'
    BY <1>4, <2>7 DEF Listens
  <2> QED
    BY <1>2, <1>4, <2>1, <2>3, <2>5, <2>6, <2>8, QuietTask
<1>7. CASE ~refresh
  <2>1. PICK n : n = IF recover THEN None ELSE v.tab.tok
    OBVIOUS
  <2>2. req' = [req EXCEPT ![t] = AfterToken(q, v, n)] /\ flight' = flight
    BY <1>7, <2>1 DEF ReqConfig
  <2>3. Continues(AfterToken(q, v, n), v)
    BY <1>1, <1>5, <2>1, TokenContinues
  <2> QED
    BY <1>2, <1>4, <2>2, <2>3, RequestTask DEF Continues
<1> QED
  BY <1>6, <1>7

LEMMA StartRequestKeeps ==
  ASSUME SessionInv, NEW t \in Tabs, NEW kind \in {"read", "write"}, StartRequest(t, kind)
  PROVE  Safe
<1> PICK e : e = Ensure(World(t), t, FALSE)
  OBVIOUS
<1> PICK q : q = [Idle EXCEPT !.kind = kind]
  OBVIOUS
<1>1. /\ Put(t, e.w)
      /\ req' = [req EXCEPT ![t] = IF e.how = "config" THEN Waiting(q, e.w, FALSE)
                                   ELSE AfterToken(q, e.w, e.tok)]
      /\ UNCHANGED <<grant, lock, lockKind, flight, boot, sign, out, issued, outs, owed>>
  BY DEF StartRequest
<1>2. Sound(World(t)) /\ InStep(t, World(t)) /\ Len(issued) \in Nat
  BY TabFacts DEF TabInv
<1>3. Ensured(t, World(t), e)
  BY <1>2, SessionEnsured
<1>4. Sound(e.w) /\ Kept(t, World(t), e.w) /\ e.w.tab.listening /\ e.tok \in {None, Fail, e.w.tab.tok}
  BY <1>3 DEF Ensured, Kept, Good
<1>5. q \in Call /\ OwnBearer(q, e.w.tab) /\ q.epoch <= e.w.tab.epoch /\ q.bearer <= Len(issued)
  <2>1. Idle \in Call /\ OwnBearer(Idle, e.w.tab)
    BY <1>2, <1>4, IdleContinues DEF Continues
  <2>2. q \in Call /\ q.pc = Idle.pc /\ q.bearer = Idle.bearer /\ q.epoch = Idle.epoch
    BY <2>1 DEF Call
  <2> QED
    BY <2>1, <2>2 DEF OwnBearer
<1>6. CASE e.how = "config"
  <2>1. /\ Waiting(q, e.w, FALSE) \in Call /\ OwnBearer(Waiting(q, e.w, FALSE), e.w.tab)
        /\ Waiting(q, e.w, FALSE).pc = "config"
    BY <1>4, <1>5, WaitingTyped
  <2> QED
    BY <1>1, <1>4, <1>6, <2>1, RequestTask
<1>7. CASE e.how # "config"
  <2>1. Continues(AfterToken(q, e.w, e.tok), e.w)
    BY <1>2, <1>4, <1>5, TokenContinues
  <2> QED
    BY <1>1, <1>4, <1>7, <2>1, RequestTask DEF Continues
<1> QED
  BY <1>6, <1>7

LEMMA RecoverKeeps ==
  ASSUME SessionInv, NEW t \in Tabs, req[t].pc = "sent", Recover(t, req[t]),
         UNCHANGED <<grant, lock, lockKind, flight, boot, sign, out, issued, outs, owed>>
  PROVE  Safe
<1> DEFINE q == req[t]
<1> PICK w : w = Hydrate(World(t))
  OBVIOUS
<1> PICK e : e = Ensure(w, t, FALSE)
  OBVIOUS
<1> PICK r : r = [q EXCEPT !.stage = "retry"]
  OBVIOUS
<1>1. Sound(World(t)) /\ InStep(t, World(t)) /\ Len(issued) \in Nat /\ OwnBearer(q, tab[t]) /\ q \in Call
  BY TabFacts DEF TabInv
<1>2. Kept(t, World(t), w) /\ w.tab.listening
  BY <1>1, Hydrated
<1>3. Sound(w) /\ InStep(t, w)
  BY <1>2 DEF Kept, Good
<1>4. r \in Call /\ r.pc = "sent" /\ r.bearer = q.bearer /\ r.epoch = q.epoch
  BY <1>1 DEF Call
<1>5. OwnBearer(r, tab[t])
  BY <1>1, <1>4 DEF OwnBearer
<1>6. CASE q.bearer # w.tab.tok
  <2>1. /\ Put(t, e.w)
        /\ req' = [req EXCEPT ![t] = IF e.how = "config" THEN Waiting(r, e.w, FALSE)
                                     ELSE AfterToken(r, e.w, e.tok)]
    BY <1>6 DEF Recover
  <2>2. Ensured(t, w, e)
    BY <1>1, <1>3, SessionEnsured
  <2>3. Sound(e.w) /\ e.w.tab.listening /\ e.tok \in {None, Fail, e.w.tab.tok}
    BY <2>2 DEF Ensured, Kept, Good
  <2>4. Kept(t, World(t), e.w)
    BY <1>1, <1>2, <2>2, GoodTransitive DEF Ensured, Kept
  <2>5. r.epoch <= e.w.tab.epoch /\ r.bearer <= Len(issued)
    BY <1>4, <1>5, <2>4, CallMoves
  <2>6. CASE e.how = "config"
    <3>1. /\ Waiting(r, e.w, FALSE) \in Call /\ OwnBearer(Waiting(r, e.w, FALSE), e.w.tab)
          /\ Waiting(r, e.w, FALSE).pc = "config"
      BY <1>4, <2>3, <2>5, WaitingTyped
    <3> QED
      BY <2>1, <2>3, <2>4, <2>6, <3>1, RequestTask
  <2>7. CASE e.how # "config"
    <3>1. Continues(AfterToken(r, e.w, e.tok), e.w)
      BY <1>1, <1>4, <2>3, <2>5, TokenContinues
    <3> QED
      BY <2>1, <2>3, <2>4, <2>7, <3>1, RequestTask DEF Continues
  <2> QED
    BY <2>6, <2>7
<1>7. CASE q.bearer = w.tab.tok
  <2> PICK c : c = [r EXCEPT !.pc = "config", !.mode = "recover"]
    OBVIOUS
  <2>1. /\ Put(t, w)
        /\ \/ req' = [req EXCEPT ![t] = AfterToken(r, w, None)]
           \/ req' = [req EXCEPT ![t] = Idle]
           \/ req' = [req EXCEPT ![t] = c]
    BY <1>7 DEF Recover
  <2>2. r.epoch <= w.tab.epoch /\ r.bearer <= Len(issued)
    BY <1>2, <1>4, <1>5, CallMoves
  <2>3. Continues(AfterToken(r, w, None), w) /\ Continues(Idle, w)
    BY <1>1, <1>3, <1>4, <2>2, TokenContinues, IdleContinues
  <2>4. c \in Call /\ OwnBearer(c, w.tab) /\ c.pc = "config"
    <3>1. c \in Call /\ c.pc = "config" /\ c.bearer = r.bearer /\ c.epoch = r.epoch
      BY <1>4 DEF Call
    <3> QED
      BY <2>2, <3>1 DEF OwnBearer
  <2> QED
    BY <1>2, <2>1, <2>3, <2>4, RequestTask DEF Continues
<1> QED
  BY <1>6, <1>7

LEMMA RequestAnsweredKeeps ==
  ASSUME SessionInv, NEW t \in Tabs, RequestAnswered(t)
  PROVE  Safe
<1> DEFINE q == req[t]
<1>1. /\ Sound(World(t)) /\ InStep(t, World(t)) /\ Len(issued) \in Nat /\ Listens(t)
      /\ OwnBearer(q, tab[t]) /\ q \in Call /\ World(t).tab = tab[t]
  BY TabFacts DEF TabInv
<1>2. /\ q.pc = "sent"
      /\ UNCHANGED <<grant, lock, lockKind, flight, boot, sign, out, issued, outs, owed>>
  BY DEF RequestAnswered
<1>3. tab[t].listening
  BY <1>1, <1>2 DEF Listens
<1>4. Continues(Idle, World(t))
  BY <1>1, IdleContinues
<1>5. CASE /\ Left(q.bearer) /\ tab[t].epoch = q.epoch
           /\ req' = [req EXCEPT ![t] = [q EXCEPT !.pc = "decode"]]
           /\ UNCHANGED <<store, tab, cache, mail>>
  <2> PICK d : d = [q EXCEPT !.pc = "decode"]
    OBVIOUS
  <2>1. d \in Call /\ d.pc = "decode" /\ d.bearer = q.bearer /\ d.epoch = q.epoch
    BY <1>1 DEF Call
  <2>2. OwnBearer(d, World(t).tab)
    BY <1>1, <1>2, <1>5, <2>1 DEF OwnBearer, Left
  <2> QED
    BY <1>1, <1>2, <1>3, <1>5, <2>1, <2>2, StillPut, RequestTask
<1>6. CASE req' = [req EXCEPT ![t] = Idle] /\ UNCHANGED <<store, tab, cache, mail>>
  BY <1>1, <1>2, <1>3, <1>4, <1>6, StillPut, RequestTask DEF Continues
<1>7. CASE Recover(t, q)
  BY <1>2, <1>7, RecoverKeeps
<1>8. CASE LET w == ClearRejected(World(t), t, q.bearer)
           IN  Put(t, w) /\ req' = [req EXCEPT ![t] = AfterToken(q, w, None)]
  <2> PICK w : w = ClearRejected(World(t), t, q.bearer)
    OBVIOUS
  <2>1. Kept(t, World(t), w) /\ w.tab.listening /\ Sound(w)
    BY <1>1, <1>3, RejectedCleared DEF Kept, Good
  <2>2. q.epoch <= w.tab.epoch /\ q.bearer <= Len(issued)
    BY <1>1, <2>1, CallMoves
  <2>3. Continues(AfterToken(q, w, None), w)
    BY <1>1, <2>1, <2>2, TokenContinues
  <2> QED
    BY <1>2, <1>8, <2>1, <2>3, RequestTask DEF Continues
<1> QED
  BY <1>5, <1>6, <1>7, <1>8 DEF RequestAnswered

LEMMA RequestDecodedKeeps ==
  ASSUME SessionInv, NEW t \in Tabs, RequestDecoded(t)
  PROVE  Safe
<1> DEFINE q == req[t]
<1> PICK c : c = IF tab[t].epoch = q.epoch THEN cache[t] \cup {UserOf(q.bearer)} ELSE cache[t]
  OBVIOUS
<1> DEFINE v == [World(t) EXCEPT !.cache = c]
<1>1. /\ Sound(World(t)) /\ InStep(t, World(t)) /\ Len(issued) \in Nat /\ Listens(t)
      /\ OwnBearer(q, tab[t]) /\ q \in Call /\ World(t).tab = tab[t] /\ World(t).cache = cache[t]
      /\ World(t).store = store /\ World(t).mail = mail
  BY TabFacts DEF TabInv
<1>2. /\ q.pc = "decode" /\ cache' = [cache EXCEPT ![t] = c] /\ req' = [req EXCEPT ![t] = Idle]
      /\ UNCHANGED <<store, grant, lock, lockKind, tab, mail, flight, boot, sign, out,
                     issued, outs, owed>>
  BY DEF RequestDecoded
<1>3. tab[t].listening
  BY <1>1, <1>2 DEF Listens
<1>4. tab[t].epoch = q.epoch => UserOf(q.bearer) = UserOf(tab[t].tok) /\ UserOf(q.bearer) \in Users
  <2>1. q.bearer \in 1..Len(issued)
    BY <1>1, <1>2 DEF OwnBearer, Call, Tokens, None
  <2>2. issued[q.bearer] \in Token
    BY <2>1, ElementOfSeq DEF SessionInv, TypeOK
  <2>3. UserOf(q.bearer) \in Users
    BY <1>1, <1>2, <2>2 DEF UserOf, Token, OwnBearer
  <2> QED
    BY <1>1, <1>2, <2>3 DEF OwnBearer
<1>5. NoUser \notin Users
  BY SessionAssumption DEF Users
<1>6. cache[t] \in SUBSET Users /\ cache[t] \subseteq {UserOf(tab[t].tok)} \ {NoUser}
      /\ World(t) \in Worlds
  BY <1>1 DEF Sound, Worlds
<1>7. c \in SUBSET Users /\ c \subseteq {UserOf(tab[t].tok)} \ {NoUser}
  <2>1. CASE tab[t].epoch = q.epoch
    BY <1>4, <1>5, <1>6, <2>1
  <2>2. CASE tab[t].epoch # q.epoch
    BY <1>6, <2>2
  <2> QED
    BY <2>1, <2>2
<1>8. v.tab = World(t).tab /\ v.store = World(t).store /\ v.mail = World(t).mail /\ v.cache = c
      /\ v \in Worlds
  BY <1>6, <1>7 DEF Worlds
<1>9. Put(t, v)
  BY <1>1, <1>2, <1>8 DEF Put, SessionInv, TypeOK
<1> HIDE DEF v
<1>10. Sound(v) /\ InStep(t, v)
  BY <1>1, <1>7, <1>8 DEF Sound, InStep
<1>11. Kept(t, World(t), v)
  <2>1. World(t).store.rev \in Nat /\ World(t).tab.epoch \in Nat
    BY <1>6 DEF Worlds, Store, Tab
  <2> QED
    BY <1>8, <1>10, <2>1 DEF Kept, Good, Moves, Drops
<1>12. Continues(Idle, v)
  BY <1>1, <1>10, IdleContinues
<1> QED
  BY <1>1, <1>2, <1>3, <1>8, <1>9, <1>11, <1>12, RequestTask DEF Continues

LEMMA ConfigFailsKeeps ==
  ASSUME SessionInv, NEW t \in Tabs, ConfigFails(t)
  PROVE  Safe
<1> DEFINE Lost(q) == q.pc = "config" /\ ~(q.mode = "ensure" /\ q.left /\ ~q.force)
           changed == req[t].mode = "recover" /\ (tab[t].epoch # req[t].epoch \/ store.out)
           lost == Lost(boot[t]) \/ (Lost(req[t]) /\ ~changed)
<1> PICK v : v = IF lost THEN Unavailable(World(t)) ELSE World(t)
  OBVIOUS
<1> PICK n : n = IF ~Lost(req[t]) THEN v.tab.tok ELSE IF changed THEN None ELSE Fail
  OBVIOUS
<1>1. /\ Sound(World(t)) /\ InStep(t, World(t)) /\ Len(issued) \in Nat /\ Listens(t)
      /\ OwnBearer(req[t], tab[t]) /\ req[t] \in Call /\ World(t).tab = tab[t] /\ sign[t] \in SignIn
  BY TabFacts DEF TabInv
<1>2. /\ Put(t, v)
      /\ boot' = [boot EXCEPT ![t] = IF boot[t].pc = "config" THEN Idle ELSE boot[t]]
      /\ req' = [req EXCEPT ![t] = IF req[t].pc # "config" THEN req[t]
                                   ELSE AfterToken(req[t], v, n)]
      /\ sign' = [sign EXCEPT ![t] = IF sign[t].pc = "config" THEN NoSign ELSE sign[t]]
      /\ out' = [out EXCEPT ![t] = IF out[t] = "config" THEN "lock" ELSE out[t]]
      /\ UNCHANGED <<grant, lock, lockKind, flight, issued, outs, owed>>
  <2>1. req' = [req EXCEPT ![t] = IF req[t].pc # "config" THEN req[t]
                                  ELSE IF ~Lost(req[t]) THEN AfterToken(req[t], v, v.tab.tok)
                                  ELSE AfterToken(req[t], v, IF changed THEN None ELSE Fail)]
    BY DEF ConfigFails, SessionInv, TypeOK
  <2>2. req' = [req EXCEPT ![t] = IF req[t].pc # "config" THEN req[t]
                                  ELSE AfterToken(req[t], v, n)]
    <3> HIDE DEF Lost, changed
    <3> QED
      BY <2>1
  <2> QED
    BY <2>2 DEF ConfigFails, SessionInv, TypeOK
<1> HIDE DEF Lost, changed
<1>3. Kept(t, World(t), v) /\ v.tab.listening = tab[t].listening /\ Sound(v)
  <2>1. CASE lost
    BY <1>1, <2>1, MadeUnavailable DEF Kept, Good
  <2>2. CASE ~lost
    BY <1>1, <2>2, GoodReflexive
  <2> QED
    BY <2>1, <2>2
<1> HIDE DEF lost
<1>4. req[t].epoch <= v.tab.epoch /\ req[t].bearer <= Len(issued)
  BY <1>1, <1>3, CallMoves
<1>5. Continues(AfterToken(req[t], v, n), v)
  BY <1>1, <1>3, <1>4, TokenContinues
<1>6. Idle \in Call /\ NoSign \in SignIn
  <2>1. 0 \in Tokens
    BY SessionAssumption DEF Tokens
  <2> QED
    BY <1>1, <1>3, <2>1, IdleContinues DEF Continues, NoSign, SignIn, None
<1>7. /\ boot' \in [Tabs -> Call] /\ req' \in [Tabs -> Call] /\ sign' \in [Tabs -> SignIn]
      /\ out' \in [Tabs -> {"off", "config", "lock", "sent", "done"}]
  BY <1>2, <1>5, <1>6 DEF SessionInv, TypeOK, Continues
<1>8. Pending(t)
  BY <1>2, <1>7 DEF Pending, SessionInv, TypeOK
<1>9. req'[t] = req[t] \/ (req[t].pc = "config" /\ req'[t] = AfterToken(req[t], v, n))
  BY <1>2 DEF SessionInv, TypeOK
<1>10. tab'[t] = v.tab
  BY <1>2 DEF Put, SessionInv, TypeOK
<1>11. OwnBearer(req'[t], v.tab)
  <2>1. OwnBearer(req[t], v.tab)
    BY <1>1, <1>2, <1>3, <1>10, BearerMoves DEF Kept
  <2> QED
    BY <1>5, <1>9, <2>1 DEF Continues
<1>12. Listens(t)'
  <2>1. boot'[t] = boot[t] \/ boot'[t] = Idle
    BY <1>2 DEF SessionInv, TypeOK
  <2>2. sign'[t] = sign[t] \/ sign'[t] = NoSign
    BY <1>2 DEF SessionInv, TypeOK
  <2>3. ~tab'[t].listening => ~tab[t].listening
    BY <1>3, <1>10
  <2> QED
    BY <1>1, <1>2, <1>9, <2>1, <2>2, <2>3 DEF Listens, Idle, NoSign
<1>13. sign'[t] = sign[t] \/ (sign[t].pc = "config" /\ sign'[t].pc = "off")
  BY <1>2 DEF SessionInv, TypeOK, NoSign
<1>14. out'[t] = out[t] \/ (out[t] = "config" /\ out'[t] = "lock")
  BY <1>2 DEF SessionInv, TypeOK
<1>15. req'[t].pc = "redirect" => req[t].pc = "redirect" \/ ~v.tab.leaving
  BY <1>5, <1>9 DEF Continues
<1> QED
  BY <1>2, <1>3, <1>8, <1>11, <1>12, <1>13, <1>14, <1>15, QuietTask

LEMMA SignConfigKeeps ==
  ASSUME SessionInv, NEW t \in Tabs, SignConfig(t)
  PROVE  Safe
<1> USE DEF SignConfig
<1> DEFINE d == [tab[t] EXCEPT !.config = TRUE]
<1>1. tab[t] \in Tab /\ tab \in [Tabs -> Tab] /\ sign[t] \in SignIn /\ sign \in [Tabs -> SignIn]
  BY DEF SessionInv, TypeOK
<1>2. /\ d \in Tab /\ d.tok = tab[t].tok /\ d.status = tab[t].status /\ d.epoch = tab[t].epoch
      /\ d.hydrated = tab[t].hydrated /\ d.listening = tab[t].listening
      /\ d.leaving = tab[t].leaving
  BY <1>1 DEF Tab
<1>3. tab' = [tab EXCEPT ![t] = d]
  BY <1>1
<1>4. PICK v : Kept(t, World(t), v) /\ Put(t, v) /\ v.tab = d
  <2>1. UNCHANGED <<store, cache, mail>>
    OBVIOUS
  <2> HIDE DEF d, SignConfig
  <2> QED
    BY <1>2, <1>3, <2>1, FlagsPut
<1> DEFINE g == [sign[t] EXCEPT !.pc = "lock"]
<1>5. /\ g \in SignIn /\ g.pc = "lock" /\ g.user = sign[t].user /\ g.fence = sign[t].fence
      /\ g.asked = sign[t].asked
  BY <1>1 DEF SignIn
<1>6. sign' = [sign EXCEPT ![t] = g]
  BY <1>1
<1> HIDE DEF g
<1>7. Pending(t) /\ req'[t] = req[t] /\ flight'[t] = flight[t] /\ out'[t] = out[t] /\ sign'[t] = g
  BY <1>5, <1>6 DEF Pending, SessionInv, TypeOK
<1>8. /\ TabInv(t) /\ tab'[t] = d
  BY <1>1, <1>3, TabFacts
<1> HIDE DEF d
<1>9. Listens(t)'
  BY <1>2, <1>8 DEF Listens, TabInv
<1>10. OwnBearer(req'[t], v.tab)
  BY <1>2, <1>4, <1>8 DEF TabInv, OwnBearer
<1>11. /\ {sign[t].pc, sign'[t].pc} \subseteq {"off", "config", "lock"}
       /\ sign'[t].user \in Users /\ sign'[t].fence <= store.rev
       /\ sign'[t].fence = store.rev => sign'[t].asked = outs
  BY <1>5, <1>7, <1>8 DEF TabInv, SignFenced
<1> QED
  BY <1>4, <1>7, <1>9, <1>10, <1>11, QuietTask

LEMMA PasswordKeeps ==
  ASSUME SessionInv, NEW t \in Tabs, NEW u \in BasicUsers, SignInWithPassword(t, u)
  PROVE  Safe
<1> USE DEF SignInWithPassword
<1> DEFINE g == [NoSign EXCEPT !.pc = "config", !.user = u, !.epoch = tab[t].epoch,
                               !.fence = store.rev, !.asked = outs]
<1>1. /\ tab[t].epoch \in Nat /\ store.rev \in Nat /\ outs \in Nat /\ u \in Users /\ 0 \in Tokens
      /\ tab[t].hydrated \in BOOLEAN
  BY SessionAssumption DEF SessionInv, TypeOK, Store, Tab, Users, Tokens
<1>2. g \in SignIn /\ g.pc = "config" /\ g.user = u /\ g.fence = store.rev /\ g.asked = outs
  BY <1>1 DEF NoSign, SignIn, None
<1>3. sign' = [sign EXCEPT ![t] = g]
  OBVIOUS
<1> HIDE DEF g
<1>4. Pending(t) /\ req'[t] = req[t] /\ flight'[t] = flight[t] /\ out'[t] = out[t] /\ sign'[t] = g
  BY <1>2, <1>3 DEF Pending, SessionInv, TypeOK
<1>5. TabInv(t) /\ World(t).tab = tab[t]
  BY TabFacts
<1>6. tab[t].listening
  BY <1>1, <1>5 DEF TabInv, Sound
<1>7. Listens(t)'
  BY <1>6 DEF Listens
<1>8. OwnBearer(req'[t], World(t).tab)
  BY <1>4, <1>5 DEF TabInv
<1>9. /\ {sign[t].pc, sign'[t].pc} \subseteq {"off", "config", "lock"}
      /\ sign'[t].user \in Users /\ sign'[t].fence <= store.rev /\ sign'[t].asked = outs
  BY <1>1, <1>2, <1>4
<1> QED
  BY <1>4, <1>7, <1>8, <1>9, StillPut, QuietTask

-----------------------------------------------------------------------------
(* The lock.                                                               *)

Flows == {"refresh", "sign", "out"}
Inside(s, flow) ==
    \/ flow = "refresh" /\ flight[s].pc \notin {"off", "lock"}
    \/ flow = "out" /\ out[s] = "sent"
    \/ flow = "sign" /\ sign[s].pc \notin {"off", "config", "lock"}
Elsewhere(t, flow) ==
    \A s \in Tabs, f \in Flows : s # t \/ f # flow => (Inside(s, f)' <=> Inside(s, f))

LEMMA LockTaken ==
  ASSUME SessionInv, NEW t \in Tabs, NEW flow \in Flows, lock = Free, lock' = <<t, flow>>,
         lockKind' = lockKind, Inside(t, flow)', Elsewhere(t, flow)
  PROVE  LockInv'
<1>1. lockKind = "web" => \A s \in Tabs, f \in Flows : ~Inside(s, f)
  BY DEF SessionInv, LockInv, Inside, Flows, Free
<1>2. \A s \in Tabs, f \in Flows : lock' = <<s, f>> <=> s = t /\ f = flow
  OBVIOUS
<1>3. lockKind = "web" => \A s \in Tabs, f \in Flows : Inside(s, f)' <=> s = t /\ f = flow
  BY <1>1 DEF Elsewhere
<1> QED
  BY <1>2, <1>3 DEF LockInv, Inside, Flows

LEMMA LockGiven ==
  ASSUME SessionInv, NEW t \in Tabs, NEW flow \in Flows, Release(t, flow),
         lockKind' = lockKind, Inside(t, flow), ~Inside(t, flow)', Elsewhere(t, flow)
  PROVE  /\ LockInv'
         /\ lock' \in (Tabs \X {"refresh", "sign", "out"}) \cup {Free}
<1>1. lockKind = "web" =>
          \A s \in Tabs, f \in Flows : Inside(s, f) <=> lock = <<s, f>>
  BY DEF SessionInv, LockInv, Inside, Flows
<1>2. lockKind = "web" => lock = <<t, flow>> /\ lock' = Free
  BY <1>1 DEF Release
<1>3. lockKind = "web" => \A s \in Tabs, f \in Flows : ~Inside(s, f)' /\ lock' # <<s, f>>
  BY <1>1, <1>2 DEF Elsewhere, Free, Flows
<1>4. lock' \in (Tabs \X {"refresh", "sign", "out"}) \cup {Free}
  BY DEF Release, SessionInv, TypeOK
<1> QED
  BY <1>3, <1>4 DEF LockInv, Inside, Flows

LEMMA LockSame ==
  ASSUME SessionInv, lock' = lock, lockKind' = lockKind,
         \A s \in Tabs, f \in Flows : Inside(s, f)' <=> Inside(s, f)
  PROVE  LockInv'
<1>1. lockKind = "web" =>
          \A s \in Tabs, f \in Flows : Inside(s, f) <=> lock = <<s, f>>
  BY DEF SessionInv, LockInv, Inside, Flows
<1>2. lockKind = "web" =>
          \A s \in Tabs, f \in Flows : Inside(s, f)' <=> lock' = <<s, f>>
  BY <1>1
<1> QED
  BY <1>2 DEF LockInv, Inside, Flows

(* A task of a tab that takes the lock or gives it back. *)
LEMMA LockTask ==
  ASSUME SessionInv, NEW t \in Tabs, NEW v, Good(t, World(t), v), Put(t, v), Pending(t),
         UNCHANGED <<grant, lockKind, issued, outs>>, owed' \subseteq owed,
         lock' \in (Tabs \X {"refresh", "sign", "out"}) \cup {Free}, LockInv',
         Listens(t)', OwnBearer(req'[t], v.tab), FlightFenced(t)', SignFenced(t)',
         SignedOutStays', Alone,
         req'[t].pc = "redirect" => req[t].pc = "redirect" \/ ~v.tab.leaving,
         t \in owed' /\ out[t] \in {"config", "lock", "sent"} => out'[t] \in {"config", "lock", "sent"},
         sign'[t].pc = "cleared" => sign[t].pc = "cleared"
  PROVE  Safe
<1>1. TypeOK /\ lockKind' = lockKind /\ grant' = grant /\ issued' = issued /\ outs' = outs
  BY DEF SessionInv
<1>2. /\ Frame(t) /\ Sound(World(t))' /\ InStep(t, World(t))'
      /\ tab'[t] = v.tab /\ store' = v.store
  BY <1>1, PutFrame DEF TypeOK
<1>3. OwnBearer(req[t], tab[t])'
  BY <1>1, <1>2 DEF OwnBearer, UserOf
<1>4. TabInv(t)'
  BY <1>2, <1>3 DEF TabInv
<1>5. LeavingInv' /\ LogoutNotCancelled'
  <2>1. tab[t].leaving => v.tab.leaving
    BY DEF Good, Moves, World
  <2>2. ASSUME NEW s \in owed'
        PROVE  /\ RefreshEnabled /\ tab'[s].leaving /\ req'[s].pc # "redirect"
               /\ out'[s] \in {"config", "lock", "sent"}
    <3>1. /\ RefreshEnabled /\ tab[s].leaving /\ req[s].pc # "redirect"
          /\ out[s] \in {"config", "lock", "sent"} /\ s \in Tabs
      BY DEF SessionInv, LeavingInv, LogoutNotCancelled, TypeOK
    <3>2. CASE s = t
      BY <1>2, <2>1, <3>1, <3>2
    <3>3. CASE s # t
      BY <1>2, <3>1, <3>3 DEF Frame
    <3> QED
      BY <3>2, <3>3
  <2> QED
    BY <2>2 DEF LeavingInv, LogoutNotCancelled
<1>6. GrantInv'
  BY <1>1 DEF SessionInv, GrantInv, Pending
<1> QED
  BY <1>2, <1>4, <1>5, <1>6, Assembled

(* The flight of tab t ends in r, and its callers go on. *)
FlightOver(t, w, v) ==
    /\ Good(t, World(t), v) /\ Put(t, v) /\ v.store = w.store /\ v.tab.listening
    /\ (Drops(World(t), w) => Drops(World(t), v))
    /\ Pending(t) /\ Listens(t)' /\ OwnBearer(req'[t], v.tab)
    /\ (req'[t].pc = "redirect" => req[t].pc = "redirect" \/ ~v.tab.leaving)
    /\ flight'[t].pc = "off"
LEMMA FlightEnds ==
  ASSUME SessionInv, NEW t \in Tabs, NEW w, Good(t, World(t), w), w.tab.listening,
         NEW r, r \in {None, Fail, w.tab.tok}, EndFlight(t, w, r), issued' = issued,
         UNCHANGED <<sign, out>>
  PROVE  \E v : FlightOver(t, w, v)
<1> PICK v : v = IF r = Fail THEN Unavailable(w) ELSE w
  OBVIOUS
<1>1. /\ Sound(World(t)) /\ InStep(t, World(t)) /\ Len(issued) \in Nat /\ World(t).tab = tab[t]
      /\ OwnBearer(req[t], tab[t]) /\ req[t] \in Call /\ boot[t] \in Call
  BY TabFacts DEF TabInv
<1>2. Kept(t, w, v) /\ v.store = w.store /\ v.tab.listening /\ v.tab.tok = w.tab.tok
  <2>1. Sound(w) /\ InStep(t, w)
    BY DEF Good
  <2>2. CASE r = Fail
    BY <1>1, <2>1, <2>2, MadeUnavailable
  <2>3. CASE r # Fail
    BY <2>1, <2>3, GoodReflexive
  <2> QED
    BY <2>2, <2>3
<1>3. Good(t, World(t), v) /\ (Drops(World(t), w) => Drops(World(t), v)) /\ Sound(v)
  BY <1>1, <1>2, GoodTransitive DEF Kept, Good
<1>4. /\ Put(t, v) /\ flight' = [flight EXCEPT ![t] = NoFlight]
      /\ boot' = [boot EXCEPT ![t] = BootResumed(boot[t])]
      /\ req' = [req EXCEPT ![t] = Resumed(req[t], v, r)]
  BY DEF EndFlight, SessionInv, TypeOK
<1>5. tab'[t] = v.tab
  BY <1>4 DEF Put, SessionInv, TypeOK
<1>6. OwnBearer(req[t], v.tab)
  BY <1>1, <1>3, <1>5, BearerMoves
<1>7. CASE req[t].pc = "refresh"
  <2>1. Continues(Resumed(req[t], v, r), v)
    BY <1>1, <1>2, <1>3, <1>6, <1>7, CallsResumed
  <2> QED
    <3>1. NoFlight \in Flight /\ NoFlight.pc = "off"
      <4>1. 0 \in Tokens
        BY SessionAssumption DEF Tokens
      <4> QED
        BY <4>1 DEF NoFlight, Flight, None
    <3>2. BootResumed(boot[t]) \in Call
      BY <1>1, <1>3, IdleContinues DEF Continues, BootResumed
    <3>3. Pending(t) /\ req'[t] = Resumed(req[t], v, r) /\ flight'[t].pc = "off"
      BY <1>4, <2>1, <3>1, <3>2 DEF Pending, SessionInv, TypeOK, Continues
    <3>4. Listens(t)'
      BY <1>2, <1>5 DEF Listens
    <3> QED
      BY <1>2, <1>3, <1>4, <2>1, <3>3, <3>4 DEF FlightOver, Continues
<1>8. CASE req[t].pc # "refresh"
  <2>1. Resumed(req[t], v, r) = req[t]
    BY <1>8 DEF Resumed
  <2>2. NoFlight \in Flight /\ NoFlight.pc = "off"
    <3>1. 0 \in Tokens
      BY SessionAssumption DEF Tokens
    <3> QED
      BY <3>1 DEF NoFlight, Flight, None
  <2>3. BootResumed(boot[t]) \in Call
    BY <1>1, <1>3, IdleContinues DEF Continues, BootResumed
  <2>4. Pending(t) /\ req'[t] = req[t] /\ flight'[t].pc = "off"
    BY <1>4, <2>1, <2>2, <2>3 DEF Pending, SessionInv, TypeOK
  <2>5. Listens(t)'
    BY <1>2, <1>5 DEF Listens
  <2> QED
    BY <1>2, <1>3, <1>4, <1>6, <2>4, <2>5 DEF FlightOver
<1> QED
  BY <1>7, <1>8

LEMMA RefreshLockedKeeps ==
  ASSUME SessionInv, NEW t \in Tabs, RefreshLocked(t)
  PROVE  Safe
<1> DEFINE f == flight[t]
           shared == store.tok
<1>1. /\ TabInv(t) /\ Len(issued) \in Nat /\ World(t).tab = tab[t] /\ World(t).store = store
      /\ f \in Flight
  BY TabFacts
<1>2. /\ f.pc = "lock" /\ lock = Free
      /\ UNCHANGED <<grant, lockKind, sign, out, issued, outs, owed, events>>
  BY DEF RefreshLocked
<1>3. tab[t].listening
  BY <1>1, <1>2 DEF TabInv, Listens
<1>4. ASSUME NEW w, Kept(t, World(t), w), w.tab.listening, NEW r, r \in {None, Fail, w.tab.tok},
             EndFlight(t, w, r), lock' = lock
      PROVE  Safe
  <2>1. PICK v : FlightOver(t, w, v)
    BY <1>2, <1>4, FlightEnds DEF Kept
  <2>2. Kept(t, World(t), v)
    BY <1>4, <2>1 DEF FlightOver, Kept
  <2> QED
    BY <1>2, <1>4, <2>1, <2>2, QuietTask DEF FlightOver
<1>5. CASE EndFlight(t, World(t), None) /\ lock' = lock
  BY <1>1, <1>3, <1>4, <1>5, GoodReflexive DEF TabInv
<1>6. CASE /\ ~store.out
           /\ EndFlight(t, Publish(World(t), shared, "authenticated", FALSE), shared)
           /\ lock' = lock
  <2> PICK w : w = Publish(World(t), shared, "authenticated", FALSE)
    OBVIOUS
  <2>1. shared \in Tokens /\ shared \in Known /\ Sound(World(t)) /\ InStep(t, World(t))
        /\ store.rev \in Nat
    BY <1>1, SessionAssumption DEF TabInv, Sound, Worlds, Store, Known, Tokens, SessionInv, TypeOK
  <2>2. Shows(World(t), shared, "authenticated", w)
    BY <1>1, <1>3, <2>1, PublishShows DEF Statuses
  <2>3. InStep(t, w)
    BY <1>1, <1>3, <2>1, <2>2 DEF InStep, Shows
  <2>4. Moves(t, World(t), w)
    BY <2>1, <2>2, ShowsMoves
  <2>5. Kept(t, World(t), w) /\ w.tab.listening /\ w.tab.tok = shared
    BY <1>1, <1>3, <2>2, <2>3, <2>4 DEF Kept, Good, Drops, Shows
  <2> QED
    BY <1>4, <1>6, <2>5
<1>7. CASE /\ Acquire(t, "refresh")
           /\ flight' = [flight EXCEPT ![t] =
                  [f EXCEPT !.pc = "sent", !.fence = store.rev, !.cookie = grant, !.asked = outs]]
           /\ UNCHANGED <<store, tab, cache, mail, boot, req>>
  <2> PICK g : g = [f EXCEPT !.pc = "sent", !.fence = store.rev, !.cookie = grant, !.asked = outs]
    OBVIOUS
  <2>1. store.rev \in Nat /\ outs \in Nat /\ grant \in OidcUsers \cup {NoUser}
    BY DEF SessionInv, TypeOK, Store
  <2>2. g \in Flight /\ g.pc = "sent" /\ g.fence = store.rev /\ g.asked = outs
    BY <1>1, <2>1 DEF Flight
  <2>3. Pending(t) /\ flight'[t] = g /\ req'[t] = req[t] /\ sign'[t] = sign[t] /\ out'[t] = out[t]
    BY <1>2, <1>7, <2>2 DEF Pending, SessionInv, TypeOK
  <2>4. FlightFenced(t)' /\ SignFenced(t)'
    BY <1>1, <1>2, <1>7, <2>1, <2>2, <2>3 DEF FlightFenced, SignFenced, TabInv
  <2>5. Inside(t, "refresh")' /\ Elsewhere(t, "refresh")
    BY <1>2, <2>2, <2>3 DEF Inside, Elsewhere, Flows, Pending
  <2>6. LockInv'
    BY <1>2, <1>7, <2>5, LockTaken DEF Acquire, Flows
  <2>7. Listens(t)' /\ OwnBearer(req'[t], World(t).tab)
    BY <1>1, <1>3, <1>7 DEF Listens, TabInv
  <2>8. SignedOutStays' /\ Alone
    BY <1>2, <1>7, TokenDropped DEF SessionInv, SignedOutStays
  <2>9. lock' \in (Tabs \X {"refresh", "sign", "out"}) \cup {Free}
    BY <1>7 DEF Acquire
  <2> QED
    BY <1>2, <1>7, <2>3, <2>4, <2>6, <2>7, <2>8, <2>9, StillPut, LockTask DEF Kept
<1> QED
  BY <1>5, <1>6, <1>7 DEF RefreshLocked

LEMMA RefreshDecodedKeeps ==
  ASSUME SessionInv, NEW t \in Tabs, RefreshDecoded(t)
  PROVE  Safe
<1> DEFINE f == flight[t]
<1>1. /\ TabInv(t) /\ Len(issued) \in Nat /\ World(t).tab = tab[t] /\ World(t).store = store
      /\ f \in Flight
  BY TabFacts
<1>2. /\ f.pc \in {"token", "denied", "failed"} /\ Release(t, "refresh")
      /\ UNCHANGED <<grant, lockKind, sign, out, issued, outs, owed, events>>
  BY DEF RefreshDecoded
<1>3. tab[t].listening /\ Sound(World(t)) /\ InStep(t, World(t))
  BY <1>1, <1>2 DEF TabInv, Listens
<1>4. ASSUME NEW w, Good(t, World(t), w), w.tab.listening, NEW r, r \in {None, Fail, w.tab.tok},
             EndFlight(t, w, r),
             w.store.tok # None => w.store.tok = store.tok \/ issued[w.store.tok].asked = outs,
             w.store.tok \in {store.tok, None} \/ UserOf(w.store.tok) \notin BasicUsers
      PROVE  Safe
  <2>1. PICK v : FlightOver(t, w, v)
    BY <1>2, <1>4, FlightEnds
  <2>2. FlightFenced(t)'
    BY <2>1 DEF FlightOver, FlightFenced
  <2>3. /\ Inside(t, "refresh") /\ ~Inside(t, "refresh")' /\ Elsewhere(t, "refresh")
    BY <1>2, <2>1 DEF Inside, Elsewhere, Flows, FlightOver, Pending
  <2>4. LockInv' /\ lock' \in (Tabs \X {"refresh", "sign", "out"}) \cup {Free}
    BY <1>2, <2>3, LockGiven DEF Flows
  <2>5. store' = w.store
    BY <2>1 DEF FlightOver, Put
  <2>6. SignedOutStays'
    BY <1>2, <1>4, <2>5 DEF SessionInv, SignedOutStays
  <2>8. Alone
    BY <1>2, <1>4, <2>5, TokenDropped DEF Alone, UserOf
  <2>7. SignFenced(t)'
    <3>1. Frame(t)
      BY <1>2, <2>1, <2>4, PutFrame DEF FlightOver, SessionInv, TypeOK
    <3> QED
      BY <1>2, <3>1, SignKept DEF Frame, SessionInv
  <2> QED
    BY <1>2, <2>1, <2>2, <2>4, <2>6, <2>7, <2>8, LockTask DEF FlightOver
<1>5. ASSUME NEW r \in {None, Fail}, EndFlight(t, World(t), r)
      PROVE  Safe
  BY <1>1, <1>3, <1>4, <1>5, GoodReflexive DEF Kept
<1>6. CASE EndFlight(t, SignedOut(World(t), t, FALSE), None)
  <2> PICK w : w = SignedOut(World(t), t, FALSE)
    OBVIOUS
  <2>1. Kept(t, World(t), w) /\ NobodyLeft(World(t), w)
    BY <1>1, <1>3, SessionEnded DEF InStep
  <2> QED
    BY <1>1, <1>3, <1>4, <1>6, <2>1 DEF NobodyLeft, Kept
<1>7. CASE /\ ~Changed(t, f) /\ f.pc = "token"
           /\ EndFlight(t, CompleteSession(World(t), t, f.answer, "yes"), f.answer)
  <2> PICK w : w = CompleteSession(World(t), t, f.answer, "yes")
    OBVIOUS
  <2>1. f.answer \in Tokens /\ f.answer \in Known /\ issued[f.answer].asked = outs
    BY <1>1, <1>7 DEF TabInv, FlightFenced, Changed, Known, Flight
  <2>2. Good(t, World(t), w) /\ Installed(World(t), f.answer, w)
    BY <1>1, <1>3, <2>1, SessionCompleted DEF Avail
  <2>3. UserOf(f.answer) \notin BasicUsers
    BY <1>1, <1>7, SessionAssumption DEF TabInv, FlightFenced, UserOf, None
  <2> QED
    BY <1>4, <1>7, <2>1, <2>2, <2>3 DEF Installed
<1> QED
  BY <1>5, <1>6, <1>7 DEF RefreshDecoded

-----------------------------------------------------------------------------
(* Answers of the server, and time.                                        *)

LEMMA MintedGrows ==
  ASSUME SessionInv, NEW user \in Users, NEW asked \in Nat, CanMint, issued' = Minted(user, asked)
  PROVE  /\ Grows /\ Len(issued') \in Tokens /\ Len(issued') \in 1..Len(issued')
         /\ issued'[Len(issued')].user = user /\ issued'[Len(issued')].asked = asked
<1> DEFINE e == [user |-> user, age |-> "fresh", asked |-> asked]
<1>1. issued \in Seq(Token) /\ Len(issued) \in Nat
  BY LenProperties DEF SessionInv, TypeOK
<1>2. e \in Token
  BY DEF Token
<1>3. issued' = Append(issued, e)
  BY DEF Minted
<1> HIDE DEF e
<1>4. /\ issued' \in Seq(Token) /\ Len(issued') = Len(issued) + 1
      /\ \A i \in 1..Len(issued) : issued'[i] = issued[i]
      /\ issued'[Len(issued) + 1] = e
  BY <1>1, <1>2, <1>3, AppendProperties
<1>5. Grows
  BY <1>1, <1>4 DEF Grows
<1>6. Len(issued') \in Tokens /\ Len(issued') \in 1..Len(issued')
  BY <1>1, <1>4, SessionAssumption DEF CanMint, Tokens
<1> QED
  BY <1>4, <1>5, <1>6 DEF e

(* A step that leaves what is stored and shown. *)
LEMMA ServerStep ==
  ASSUME SessionInv, NEW t \in Tabs, Grows, Pending(t),
         UNCHANGED <<store, lock, lockKind, tab, cache, mail, boot, req, out, outs, owed>>,
         grant' \in OidcUsers \cup {NoUser}, Listens(t)', FlightFenced(t)', SignFenced(t)',
         GrantInv', \A f \in Flows : Inside(t, f)' <=> Inside(t, f)
  PROVE  Safe
<1>1. TypeOK /\ WorldsInv /\ LeavingInv /\ LogoutNotCancelled /\ SignedOutStays
  BY DEF SessionInv
<1>2. Passes
  BY <1>1 DEF Passes, TypeOK, Store
<1>3. TypeOK'
  BY <1>1 DEF TypeOK, Pending, Grows
<1>4. /\ store.tok \in Nat /\ store.tok <= Len(issued) /\ (store.out => store.tok = None)
      /\ tab[t].tok <= Len(issued) /\ tab[t].epoch \in Nat
  <2>1. /\ store.tok \in Nat /\ tab[t].epoch \in Nat
    BY <1>1 DEF TypeOK, Store, Tokens, Tab
  <2>2. Sound(World(t)) /\ InStep(t, World(t)) /\ World(t).store = store /\ World(t).tab = tab[t]
    BY TabFacts DEF TabInv
  <2> QED
    BY <2>1, <2>2 DEF Sound, InStep
<1>5. store'.tok <= Len(issued')
  BY <1>4, GrowsFacts
<1>6. Frame(t)
  BY <1>2, <1>3, <1>4, <1>5 DEF Frame, Pending
<1>7. Sound(World(t))' /\ InStep(t, World(t))'
  BY <1>1, <1>2, <1>4, <1>5, WorldKept DEF TypeOK
<1>8. OwnBearer(req[t], tab[t])'
  <2> PICK q \in Call, b \in Tab : q = req[t] /\ b = tab[t]
    BY <1>1 DEF TypeOK
  <2>1. OwnBearer(q, b)
    BY DEF SessionInv, BearerInv
  <2>2. OwnBearer(q, b)'
    BY <1>4, <2>1, BearerKept
  <2> QED
    BY <2>2 DEF OwnBearer, UserOf
<1>9. TabInv(t)'
  BY <1>7, <1>8 DEF TabInv
<1>10. LockInv'
  <2>1. \A s \in Tabs, f \in Flows : Inside(s, f)' <=> Inside(s, f)
    BY DEF Pending, Inside
  <2> QED
    BY <2>1, LockSame
<1>11. SignedOutStays'
  <2>1. store.tok # None => store.tok \in 1..Len(issued)
    BY <1>4 DEF None, Grows
  <2> QED
    BY <1>1, <2>1 DEF SignedOutStays, Grows
<1>12. LeavingInv' /\ LogoutNotCancelled' /\ Alone
  BY <1>1, TokenDropped DEF LeavingInv, LogoutNotCancelled
<1> QED
  BY <1>6, <1>9, <1>10, <1>11, <1>12, Assembled

LEMMA RefreshAnsweredKeeps ==
  ASSUME SessionInv, NEW t \in Tabs, RefreshAnswered(t)
  PROVE  Safe
<1> DEFINE f == flight[t]
<1>1. /\ TabInv(t) /\ f \in Flight /\ f.cookie \in OidcUsers \cup {NoUser} /\ f.asked \in Nat
      /\ TypeOK
  BY TabFacts DEF Flight, SessionInv
<1>2. /\ f.pc = "sent"
      /\ UNCHANGED <<store, lock, lockKind, tab, cache, mail, boot, req, sign, out, outs, owed>>
  BY DEF RefreshAnswered
<1>3. RefreshEnabled /\ tab[t].listening
  BY <1>1, <1>2 DEF TabInv, FlightFenced, Listens
<1>4. lockKind = "web" => \A s \in Tabs : sign[s].pc # "cleared"
  BY <1>2 DEF SessionInv, LockInv
<1>5. GrantInv'
  BY <1>2, <1>3, <1>4 DEF GrantInv
<1>6. ASSUME NEW g \in Flight, g.pc \in {"token", "denied", "failed"}, g.fence = f.fence,
             g.asked = f.asked, flight' = [flight EXCEPT ![t] = g], Grows,
             grant' \in OidcUsers \cup {NoUser},
             g.pc = "token" => /\ g.answer \in 1..Len(issued')
                               /\ issued'[g.answer].asked = g.asked
                               /\ issued'[g.answer].user \in OidcUsers
      PROVE  Safe
  <2>1. Pending(t) /\ flight'[t] = g
    BY <1>1, <1>2, <1>6 DEF Pending, TypeOK
  <2>2. Passes
    BY <1>1, <1>2, <1>6 DEF Passes, TypeOK, Store
  <2>3. FlightFenced(t)'
    BY <1>1, <1>2, <1>3, <1>6, <2>1 DEF TabInv, FlightFenced
  <2>4. SignFenced(t)'
    BY <1>1, <1>2, <2>2, SignKept DEF SessionInv
  <2>5. Listens(t)'
    BY <1>2, <1>3 DEF Listens
  <2>6. \A fl \in Flows : Inside(t, fl)' <=> Inside(t, fl)
    BY <1>2, <1>6, <2>1 DEF Inside
  <2> QED
    BY <1>2, <1>5, <1>6, <2>1, <2>3, <2>4, <2>5, <2>6, ServerStep
<1>7. CASE /\ f.cookie # NoUser /\ CanMint /\ issued' = Minted(f.cookie, f.asked)
           /\ grant' = f.cookie
           /\ flight' = [flight EXCEPT ![t].pc = "token", ![t].answer = Len(issued')]
  <2>1. f.cookie \in OidcUsers /\ f.cookie \in Users
    BY <1>1, <1>7 DEF Users
  <2>2. /\ Grows /\ Len(issued') \in Tokens /\ Len(issued') \in 1..Len(issued')
        /\ issued'[Len(issued')].user = f.cookie /\ issued'[Len(issued')].asked = f.asked
    BY <1>1, <1>7, <2>1, MintedGrows
  <2> PICK n : n = Len(issued')
    OBVIOUS
  <2> PICK g : g = [f EXCEPT !.pc = "token", !.answer = n]
    OBVIOUS
  <2>3. g \in Flight /\ g.pc = "token" /\ g.answer = n /\ g.fence = f.fence /\ g.asked = f.asked
    BY <1>1, <2>2 DEF Flight
  <2>4. flight' = [flight EXCEPT ![t] = g]
    BY <1>1, <1>7 DEF TypeOK
  <2>5. grant' \in OidcUsers \cup {NoUser}
    BY <1>7, <2>1
  <2>6. /\ g.answer \in 1..Len(issued') /\ issued'[g.answer].asked = g.asked
        /\ issued'[g.answer].user \in OidcUsers
    BY <2>1, <2>2, <2>3
  <2> QED
    BY <1>6, <2>2, <2>3, <2>4, <2>5, <2>6
<1>8. ASSUME NEW pc \in {"denied", "failed"}, flight' = [flight EXCEPT ![t].pc = pc],
             issued' = issued, grant' \in {grant, NoUser}
      PROVE  Safe
  <2> PICK g : g = [f EXCEPT !.pc = pc]
    OBVIOUS
  <2>1. g \in Flight /\ g.pc = pc /\ g.fence = f.fence /\ g.asked = f.asked
    BY <1>1 DEF Flight
  <2>2. flight' = [flight EXCEPT ![t] = g]
    BY <1>1, <1>8 DEF TypeOK
  <2>3. grant' \in OidcUsers \cup {NoUser}
    BY <1>1, <1>8 DEF TypeOK
  <2> QED
    BY <1>1, <1>6, <1>8, <2>1, <2>2, <2>3, GrowsStill
<1> QED
  BY <1>7, <1>8 DEF RefreshAnswered

(* The server's side of a sign-in whose next state is g. *)
LEMMA SignServed ==
  ASSUME SessionInv, NEW t \in Tabs, NEW g \in SignIn, sign' = [sign EXCEPT ![t] = g], Grows,
         sign[t].pc \notin {"off", "config", "lock"}, g.pc \notin {"off", "config", "lock"},
         g.user = sign[t].user, g.fence = sign[t].fence, g.asked = sign[t].asked,
         g.pc \in {"token", "clearing", "cleared"} =>
             /\ g.answer \in 1..Len(issued')
             /\ issued'[g.answer].asked = g.asked /\ issued'[g.answer].user = g.user,
         grant' \in OidcUsers \cup {NoUser},
         ~RefreshEnabled => grant' = grant, g.pc = "cleared" => grant' = NoUser,
         UNCHANGED <<store, lock, lockKind, tab, cache, mail, flight, boot, req, out, outs, owed>>
  PROVE  Safe
<1>1. TabInv(t) /\ TypeOK /\ FenceInv
  BY TabFacts DEF SessionInv
<1>2. Pending(t) /\ sign'[t] = g
  BY <1>1 DEF Pending, TypeOK
<1>3. Passes
  BY <1>1 DEF Passes, TypeOK, Store
<1>4. SignFenced(t)'
  BY <1>1, <1>2 DEF TabInv, SignFenced
<1>5. FlightFenced(t)'
  BY <1>1, <1>3, FlightKept
<1>6. Listens(t)'
  BY <1>1, <1>2 DEF TabInv, Listens
<1>7. \A f \in Flows : Inside(t, f)' <=> Inside(t, f)
  BY <1>2 DEF Inside
<1>8. lockKind = "web" => \A s \in Tabs \ {t} : sign[s].pc # "cleared"
  BY DEF SessionInv, LockInv
<1>9. GrantInv'
  BY <1>2, <1>8 DEF SessionInv, GrantInv, Pending
<1> QED
  BY <1>2, <1>4, <1>5, <1>6, <1>7, <1>9, ServerStep

LEMMA SignAnsweredKeeps ==
  ASSUME SessionInv, NEW t \in Tabs, SignAnswered(t)
  PROVE  Safe
<1> DEFINE h == sign[t]
<1>1. TabInv(t) /\ h \in SignIn /\ TypeOK /\ grant \in OidcUsers \cup {NoUser}
  BY TabFacts DEF SessionInv, TypeOK
<1>2. /\ h.pc = "sent"
      /\ UNCHANGED <<store, lock, lockKind, tab, cache, mail, flight, boot, req, out, outs, owed>>
  BY DEF SignAnswered
<1>3. h.user \in Users /\ h.asked \in Nat
  BY <1>1, <1>2 DEF TabInv, SignFenced, SignIn
<1>4. CASE /\ CanMint /\ issued' = Minted(h.user, h.asked)
           /\ sign' = [sign EXCEPT ![t].pc = "token", ![t].answer = Len(issued')]
           /\ grant' = IF h.user \in OidcUsers /\ RefreshEnabled THEN h.user ELSE grant
  <2>1. /\ Grows /\ Len(issued') \in Tokens /\ Len(issued') \in 1..Len(issued')
        /\ issued'[Len(issued')].user = h.user /\ issued'[Len(issued')].asked = h.asked
    BY <1>3, <1>4, MintedGrows
  <2> PICK n : n = Len(issued')
    OBVIOUS
  <2> PICK g : g = [h EXCEPT !.pc = "token", !.answer = n]
    OBVIOUS
  <2>2. /\ g \in SignIn /\ g.pc = "token" /\ g.answer = n /\ g.user = h.user
        /\ g.fence = h.fence /\ g.asked = h.asked
    BY <1>1, <2>1 DEF SignIn
  <2>3. sign' = [sign EXCEPT ![t] = g]
    BY <1>1, <1>4 DEF TypeOK
  <2>4. grant' \in OidcUsers \cup {NoUser} /\ (~RefreshEnabled => grant' = grant)
    BY <1>1, <1>4
  <2> QED
    BY <1>2, <2>1, <2>2, <2>3, <2>4, SignServed
<1>5. CASE sign' = [sign EXCEPT ![t].pc = "failed"] /\ UNCHANGED <<issued, grant>>
  <2> PICK g : g = [h EXCEPT !.pc = "failed"]
    OBVIOUS
  <2>1. /\ g \in SignIn /\ g.pc = "failed" /\ g.user = h.user
        /\ g.fence = h.fence /\ g.asked = h.asked
    BY <1>1 DEF SignIn
  <2>2. sign' = [sign EXCEPT ![t] = g]
    BY <1>1, <1>5 DEF TypeOK
  <2>3. Grows
    BY <1>1, <1>5, GrowsStill
  <2> QED
    BY <1>1, <1>2, <1>5, <2>1, <2>2, <2>3, SignServed
<1> QED
  BY <1>4, <1>5 DEF SignAnswered

LEMMA GrantClearedKeeps ==
  ASSUME SessionInv, NEW t \in Tabs, GrantCleared(t)
  PROVE  Safe
<1> DEFINE h == sign[t]
<1>1. TabInv(t) /\ h \in SignIn /\ TypeOK /\ grant \in OidcUsers \cup {NoUser} /\ GrantInv
  BY TabFacts DEF SessionInv, TypeOK
<1>2. /\ h.pc = "clearing" /\ issued' = issued
      /\ UNCHANGED <<store, lock, lockKind, tab, cache, mail, flight, boot, req, out, outs, owed>>
  BY DEF GrantCleared
<1>3. Grows
  BY <1>1, <1>2, GrowsStill
<1>4. ASSUME NEW pc \in {"cleared", "failed"}, sign' = [sign EXCEPT ![t].pc = pc],
             grant' \in {grant, NoUser}, pc = "cleared" => grant' = NoUser
      PROVE  Safe
  <2> PICK g : g = [h EXCEPT !.pc = pc]
    OBVIOUS
  <2>1. /\ g \in SignIn /\ g.pc = pc /\ g.user = h.user /\ g.answer = h.answer
        /\ g.fence = h.fence /\ g.asked = h.asked
    BY <1>1 DEF SignIn
  <2>2. sign' = [sign EXCEPT ![t] = g]
    BY <1>1, <1>4 DEF TypeOK
  <2>3. /\ h.answer \in 1..Len(issued')
        /\ issued'[h.answer].asked = h.asked /\ issued'[h.answer].user = h.user
    BY <1>1, <1>2 DEF TabInv, SignFenced
  <2>4. grant' \in OidcUsers \cup {NoUser} /\ (~RefreshEnabled => grant' = grant)
    BY <1>1, <1>4 DEF GrantInv
  <2>5. /\ g.pc \notin {"off", "config", "lock"} /\ h.pc \notin {"off", "config", "lock"}
        /\ g.answer \in 1..Len(issued') /\ issued'[g.answer].asked = g.asked
        /\ issued'[g.answer].user = g.user /\ (g.pc = "cleared" => grant' = NoUser)
    BY <1>2, <1>4, <2>1, <2>3
  <2> QED
    BY <1>2, <1>3, <2>1, <2>2, <2>4, <2>5, SignServed
<1> QED
  BY <1>4 DEF GrantCleared

(* A token that ages stays who it was. *)
LEMMA AgeTokenKeeps ==
  ASSUME SessionInv, NEW n \in DOMAIN issued, AgeToken(n), NEW t \in Tabs
  PROVE  Safe
<1>1. TabInv(t) /\ TypeOK /\ issued \in Seq(Token) /\ FenceInv /\ GrantInv
  BY TabFacts DEF SessionInv, TypeOK
<1> PICK a : a = IF issued[n].age = "fresh" THEN "aging" ELSE "expired"
  OBVIOUS
<1>2. issued' = [issued EXCEPT ![n].age = a]
  BY <1>1 DEF AgeToken
<1>3. issued[n] \in Token /\ n \in 1..Len(issued) /\ Len(issued) \in Nat
  BY <1>1, LenProperties, ElementOfSeq
<1> PICK e : e = [issued[n] EXCEPT !.age = a]
  OBVIOUS
<1>4. e \in Token /\ e.user = issued[n].user /\ e.asked = issued[n].asked
  BY <1>3 DEF Token
<1>5. issued' = [issued EXCEPT ![n] = e]
  BY <1>2
<1>6. issued' \in Seq(Token) /\ Len(issued') = Len(issued)
  BY <1>1, <1>3, <1>4, <1>5, ExceptSeq
<1>7. Grows
  BY <1>1, <1>3, <1>4, <1>5, <1>6 DEF Grows
<1>8. UNCHANGED <<store, grant, lock, lockKind, tab, cache, mail, flight, boot,
                  req, sign, out, outs, owed>>
  BY DEF AgeToken
<1>9. Passes
  BY <1>1, <1>7, <1>8 DEF Passes, TypeOK, Store
<1>10. Pending(t) /\ Listens(t)' /\ GrantInv'
  BY <1>1, <1>8 DEF Pending, TypeOK, TabInv, Listens, GrantInv
<1>11. FlightFenced(t)' /\ SignFenced(t)'
  BY <1>1, <1>8, <1>9, FlightKept, SignKept
<1>12. \A f \in Flows : Inside(t, f)' <=> Inside(t, f)
  BY <1>8 DEF Inside
<1> QED
  BY <1>1, <1>7, <1>8, <1>10, <1>11, <1>12, ServerStep DEF TypeOK

-----------------------------------------------------------------------------
(* Sign-in.                                                                *)

LEMMA NoSignTyped == NoSign \in SignIn /\ NoSign.pc = "off"
<1>1. 0 \in Tokens
  BY SessionAssumption DEF Tokens
<1> QED
  BY <1>1 DEF NoSign, SignIn, None

LEMMA SignEnds ==
  ASSUME SessionInv, NEW t \in Tabs, sign[t].pc \notin {"off", "config", "lock"},
         sign' = [sign EXCEPT ![t] = NoSign], Release(t, "sign"), owed' \subseteq owed,
         NEW w, Good(t, World(t), w), Put(t, w), w.tab.listening,
         w.store.tok # None => w.store.tok = store.tok \/ issued[w.store.tok].asked = outs,
         \/ w.store.tok \in {store.tok, None}
         \/ lockKind = "web" /\ UserOf(w.store.tok) \in BasicUsers => grant = NoUser,
         UNCHANGED <<grant, lockKind, flight, boot, req, out, issued, outs>>
  PROVE  Safe
<1>1. TabInv(t) /\ TypeOK /\ FenceInv /\ req[t] \in Call
  BY TabFacts DEF SessionInv
<1>2. Pending(t) /\ sign'[t].pc = "off"
  BY <1>1, NoSignTyped DEF Pending, TypeOK
<1>3. Inside(t, "sign") /\ ~Inside(t, "sign")' /\ Elsewhere(t, "sign")
  BY <1>2 DEF Inside, Elsewhere, Flows, Pending
<1>4. LockInv' /\ lock' \in (Tabs \X {"refresh", "sign", "out"}) \cup {Free}
  BY <1>3, LockGiven DEF Flows
<1>5. tab'[t] = w.tab /\ store' = w.store
  BY <1>1 DEF Put, TypeOK
<1>6. OwnBearer(req'[t], w.tab)
  BY <1>1, <1>5, BearerMoves DEF TabInv
<1>7. Frame(t)
  BY <1>1, <1>2, <1>4, PutFrame DEF TypeOK
<1>8. FlightFenced(t)' /\ SignFenced(t)'
  BY <1>1, <1>2, <1>7, FlightKept DEF Frame, SignFenced
<1>9. Listens(t)'
  BY <1>5 DEF Listens
<1>10. SignedOutStays'
  BY <1>5 DEF SessionInv, SignedOutStays
<1>11. Alone
  BY <1>5, TokenDropped DEF Alone, UserOf
<1> QED
  BY <1>2, <1>4, <1>6, <1>8, <1>9, <1>10, <1>11, LockTask

LEMMA SignLockedKeeps ==
  ASSUME SessionInv, NEW t \in Tabs, SignLocked(t)
  PROVE  Safe
<1> DEFINE h == sign[t]
<1>1. TabInv(t) /\ TypeOK /\ FenceInv /\ h \in SignIn /\ World(t).tab = tab[t]
  BY TabFacts DEF SessionInv
<1>2. /\ h.pc = "lock" /\ lock = Free
      /\ UNCHANGED <<store, grant, lockKind, tab, cache, mail, flight, boot, req,
                     out, issued, outs, owed>>
  BY DEF SignLocked
<1>3. tab[t].listening /\ OwnBearer(req'[t], World(t).tab)
  BY <1>1, <1>2 DEF TabInv, Listens
<1>4. Listens(t)'
  BY <1>2, <1>3 DEF Listens
<1>5. CASE Acquire(t, "sign") /\ sign' = [sign EXCEPT ![t].pc = "sent"]
  <2> PICK g : g = [h EXCEPT !.pc = "sent"]
    OBVIOUS
  <2>1. /\ g \in SignIn /\ g.pc = "sent" /\ g.user = h.user
        /\ g.fence = h.fence /\ g.asked = h.asked
    BY <1>1 DEF SignIn
  <2>2. Pending(t) /\ sign'[t] = g
    BY <1>1, <1>2, <1>5, <2>1 DEF Pending, TypeOK
  <2>3. SignFenced(t)' /\ FlightFenced(t)'
    BY <1>1, <1>2, <2>1, <2>2 DEF TabInv, SignFenced, FlightFenced
  <2>4. Inside(t, "sign")' /\ Elsewhere(t, "sign")
    BY <1>2, <2>1, <2>2 DEF Inside, Elsewhere, Flows, Pending
  <2>5. LockInv' /\ lock' \in (Tabs \X {"refresh", "sign", "out"}) \cup {Free}
    BY <1>2, <1>5, <2>4, LockTaken DEF Acquire, Flows
  <2>6. SignedOutStays' /\ Alone
    BY <1>2, TokenDropped DEF SessionInv, SignedOutStays
  <2> QED
    BY <1>2, <1>3, <1>4, <2>1, <2>2, <2>3, <2>5, <2>6, StillPut, LockTask DEF Kept
<1>6. CASE lock' = lock /\ sign' = [sign EXCEPT ![t] = NoSign]
  <2>1. Pending(t) /\ sign'[t].pc = "off"
    BY <1>1, <1>2, <1>6, NoSignTyped DEF Pending, TypeOK
  <2> QED
    BY <1>2, <1>3, <1>4, <1>6, <2>1, StillPut, QuietTask
<1> QED
  BY <1>5, <1>6 DEF SignLocked

LEMMA SignDecodedKeeps ==
  ASSUME SessionInv, NEW t \in Tabs, SignDecoded(t)
  PROVE  Safe
<1> DEFINE h == sign[t]
           good == h.pc = "token" /\ SameSession(t) /\ Left(h.answer)
           basic == h.user \in BasicUsers
<1>1. TabInv(t) /\ TypeOK /\ h \in SignIn /\ World(t).tab = tab[t] /\ World(t).store = store
      /\ Len(issued) \in Nat
  BY TabFacts DEF SessionInv
<1>2. /\ h.pc \in {"token", "failed"}
      /\ UNCHANGED <<grant, lockKind, flight, boot, req, out, issued, outs>>
  BY DEF SignDecoded
<1>3. tab[t].listening /\ Sound(World(t)) /\ InStep(t, World(t))
  BY <1>1, <1>2 DEF TabInv, Listens
<1>4. h.pc = "token" => /\ h.answer \in 1..Len(issued) /\ issued[h.answer].asked = h.asked
                        /\ issued[h.answer].user = h.user
  BY <1>1 DEF TabInv, SignFenced
<1>5. CASE /\ good /\ sign' = [sign EXCEPT ![t].pc = "clearing"]
           /\ UNCHANGED <<store, lock, tab, cache, mail, owed>>
  <2> PICK g : g = [h EXCEPT !.pc = "clearing"]
    OBVIOUS
  <2>1. /\ g \in SignIn /\ g.pc = "clearing" /\ g.user = h.user /\ g.answer = h.answer
        /\ g.fence = h.fence /\ g.asked = h.asked
    BY <1>1 DEF SignIn
  <2>2. sign' = [sign EXCEPT ![t] = g]
    BY <1>1, <1>5 DEF TypeOK
  <2>3. /\ g.answer \in 1..Len(issued') /\ issued'[g.answer].asked = g.asked
        /\ issued'[g.answer].user = g.user
    BY <1>2, <1>4, <1>5, <2>1
  <2>4. Grows /\ grant' \in OidcUsers \cup {NoUser} /\ grant' = grant
    BY <1>1, <1>2, GrowsStill DEF TypeOK
  <2>5. h.pc \notin {"off", "config", "lock"} /\ g.pc \notin {"off", "config", "lock"}
        /\ g.pc # "cleared"
    BY <1>2, <2>1
  <2> QED
    BY <1>2, <1>5, <2>1, <2>2, <2>3, <2>4, <2>5, SignServed
<1>6. ASSUME NEW avail \in Avail, good, ~(basic /\ RefreshEnabled), Put(t, CompleteSession(World(t), t, h.answer, avail)),
             sign' = [sign EXCEPT ![t] = NoSign], Release(t, "sign"), owed' = {}
      PROVE  Safe
  <2> PICK w : w = CompleteSession(World(t), t, h.answer, avail)
    OBVIOUS
  <2>1. h.answer \in Tokens /\ h.answer \in Known
    BY <1>1, <1>4, <1>6 DEF SignIn, Known
  <2>2. issued[h.answer].asked = outs
    BY <1>1, <1>4, <1>6 DEF TabInv, SignFenced, SameSession
  <2>3. Good(t, World(t), w) /\ Installed(World(t), h.answer, w)
    BY <1>1, <1>3, <2>1, SessionCompleted
  <2>4. UserOf(h.answer) \in BasicUsers => grant = NoUser
    BY <1>4, <1>6 DEF UserOf, None, SessionInv, GrantInv
  <2> QED
    BY <1>2, <1>6, <2>2, <2>3, <2>4, SignEnds DEF Installed
<1>7. CASE /\ sign' = [sign EXCEPT ![t] = NoSign] /\ Release(t, "sign")
           /\ UNCHANGED <<store, tab, cache, mail, owed>>
  BY <1>1, <1>2, <1>3, <1>7, StillPut, SignEnds DEF Kept
<1>8. "yes" \in Avail /\ "no" \in Avail
  BY DEF Avail
<1> QED
  BY <1>5, <1>6, <1>7, <1>8 DEF SignDecoded

LEMMA PasswordAcceptedKeeps ==
  ASSUME SessionInv, NEW t \in Tabs, PasswordAccepted(t)
  PROVE  Safe
<1> DEFINE h == sign[t]
<1>1. TabInv(t) /\ TypeOK /\ h \in SignIn /\ World(t).tab = tab[t] /\ World(t).store = store
      /\ Len(issued) \in Nat
  BY TabFacts DEF SessionInv
<1>2. /\ h.pc = "cleared" /\ sign' = [sign EXCEPT ![t] = NoSign] /\ Release(t, "sign")
      /\ UNCHANGED <<grant, lockKind, flight, boot, req, out, issued, outs>>
  BY DEF PasswordAccepted
<1>3. tab[t].listening /\ Sound(World(t)) /\ InStep(t, World(t))
  BY <1>1, <1>2 DEF TabInv, Listens
<1>4. /\ h.answer \in 1..Len(issued) /\ issued[h.answer].asked = h.asked
  BY <1>1, <1>2 DEF TabInv, SignFenced
<1>5. CASE /\ SameSession(t) /\ Put(t, CompleteSession(World(t), t, h.answer, "no"))
           /\ owed' = {}
  <2> PICK w : w = CompleteSession(World(t), t, h.answer, "no")
    OBVIOUS
  <2>1. h.answer \in Tokens /\ h.answer \in Known
    BY <1>1, <1>4 DEF SignIn, Known
  <2>2. issued[h.answer].asked = outs
    BY <1>1, <1>2, <1>4, <1>5 DEF TabInv, SignFenced, SameSession
  <2>3. Good(t, World(t), w) /\ Installed(World(t), h.answer, w)
    BY <1>1, <1>3, <2>1, SessionCompleted DEF Avail
  <2>4. lockKind = "web" => grant = NoUser
    BY <1>2 DEF SessionInv, GrantInv
  <2> QED
    BY <1>2, <1>5, <2>2, <2>3, <2>4, SignEnds DEF Installed
<1>6. CASE UNCHANGED <<store, tab, cache, mail, owed>>
  BY <1>1, <1>2, <1>3, <1>6, StillPut, SignEnds DEF Kept
<1> QED
  BY <1>5, <1>6 DEF PasswordAccepted

-----------------------------------------------------------------------------
(* Logout and navigation.                                                  *)

(* A step that sets flags of tab t, the pending logout among them. *)
LEMMA LeavingStep ==
  ASSUME SessionInv, NEW t \in Tabs, NEW d \in Tab, tab' = [tab EXCEPT ![t] = d],
         d.tok = tab[t].tok, d.status = tab[t].status, d.epoch = tab[t].epoch,
         d.hydrated = tab[t].hydrated, d.listening = tab[t].listening,
         NEW o \in {"off", "config", "lock", "sent", "done"}, out' = [out EXCEPT ![t] = o],
         grant' \in {grant, NoUser}, owed' \subseteq owed,
         t \in owed' => d.leaving /\ o \in {"config", "lock", "sent"},
         lock' \in (Tabs \X {"refresh", "sign", "out"}) \cup {Free}, LockInv',
         UNCHANGED <<store, lockKind, cache, mail, flight, boot, req, sign, issued, outs>>
  PROVE  Safe
<1>1. TabInv(t) /\ TypeOK /\ FenceInv /\ GrantInv /\ LeavingInv /\ LogoutNotCancelled
      /\ World(t) \in Worlds /\ World(t).store = store /\ World(t).tab = tab[t]
      /\ World(t).mail = mail /\ World(t).cache = cache[t]
  BY TabFacts DEF SessionInv, TabInv, Sound
<1>2. /\ tab' \in [Tabs -> Tab] /\ tab'[t] = d /\ \A s \in Tabs \ {t} : tab'[s] = tab[s]
      /\ out' \in [Tabs -> {"off", "config", "lock", "sent", "done"}] /\ out'[t] = o
      /\ \A s \in Tabs \ {t} : out'[s] = out[s]
  BY <1>1 DEF TypeOK
<1>3. TypeOK'
  BY <1>1, <1>2 DEF TypeOK
<1>4. Passes
  BY <1>1, GrowsStill DEF Passes, TypeOK, Store
<1>5. store.tok <= Len(issued) /\ (store.out => store.tok = None)
  BY <1>1 DEF TabInv, Sound, InStep
<1>6. Frame(t)
  BY <1>2, <1>3, <1>4, <1>5 DEF Frame
<1>7. /\ World(t)'.tab = d /\ World(t)'.store = store /\ World(t)'.mail = mail
      /\ World(t)'.cache = cache[t] /\ World(t)' \in Worlds
  BY <1>1, <1>2 DEF World, Worlds, TypeOK
<1>8. Sound(World(t))' /\ InStep(t, World(t))'
  BY <1>1, <1>7 DEF TabInv, Sound, InStep, UserOf
<1>9. Listens(t)' /\ OwnBearer(req[t], tab[t])'
  BY <1>1, <1>2 DEF TabInv, Listens, OwnBearer, UserOf
<1>10. FlightFenced(t)' /\ SignFenced(t)'
  BY <1>1, <1>4, FlightKept, SignKept
<1>11. TabInv(t)'
  BY <1>8, <1>9, <1>10 DEF TabInv
<1>12. SignedOutStays' /\ GrantInv' /\ Alone
  BY <1>1, TokenDropped DEF SessionInv, SignedOutStays, GrantInv
<1>13. LeavingInv' /\ LogoutNotCancelled'
  <2>1. ASSUME NEW s \in owed'
        PROVE  /\ RefreshEnabled /\ tab'[s].leaving /\ req'[s].pc # "redirect"
               /\ out'[s] \in {"config", "lock", "sent"}
    <3>1. /\ RefreshEnabled /\ tab[s].leaving /\ req[s].pc # "redirect"
          /\ out[s] \in {"config", "lock", "sent"} /\ s \in Tabs
      BY <1>1 DEF LeavingInv, LogoutNotCancelled, TypeOK
    <3>2. CASE s = t
      BY <1>2, <2>1, <3>1, <3>2
    <3>3. CASE s # t
      BY <1>2, <3>1, <3>3
    <3> QED
      BY <3>2, <3>3
  <2> QED
    BY <2>1 DEF LeavingInv, LogoutNotCancelled
<1> QED
  BY <1>6, <1>11, <1>12, <1>13, Assembled

LEMMA LogoutConfigKeeps ==
  ASSUME SessionInv, NEW t \in Tabs, LogoutConfig(t)
  PROVE  Safe
<1>1. tab[t] \in Tab /\ tab \in [Tabs -> Tab] /\ TypeOK /\ LeavingInv
      /\ RefreshEnabled \in BOOLEAN
  BY SessionAssumption DEF SessionInv, TypeOK
<1> PICK d : d = [tab[t] EXCEPT !.config = TRUE, !.leaving = RefreshEnabled]
  OBVIOUS
<1> PICK o : o = IF RefreshEnabled THEN "lock" ELSE "done"
  OBVIOUS
<1>2. /\ d \in Tab /\ d.tok = tab[t].tok /\ d.status = tab[t].status /\ d.epoch = tab[t].epoch
      /\ d.hydrated = tab[t].hydrated /\ d.listening = tab[t].listening
      /\ d.leaving = RefreshEnabled
  BY <1>1 DEF Tab
<1>3. /\ tab' = [tab EXCEPT ![t] = d] /\ out' = [out EXCEPT ![t] = o] /\ out[t] = "config"
      /\ UNCHANGED <<store, grant, lock, lockKind, cache, mail, flight, boot, req, sign,
                     issued, outs, owed>>
  BY <1>1 DEF LogoutConfig
<1>4. o \in {"lock", "done"} /\ (RefreshEnabled => o = "lock")
  OBVIOUS
<1>5. \A s \in Tabs, f \in Flows : Inside(s, f)' <=> Inside(s, f)
  BY <1>1, <1>3, <1>4 DEF Inside, TypeOK
<1>6. LockInv' /\ lock' \in (Tabs \X {"refresh", "sign", "out"}) \cup {Free}
  BY <1>1, <1>3, <1>5, LockSame DEF TypeOK
<1>7. t \in owed' => d.leaving /\ o \in {"config", "lock", "sent"}
  BY <1>1, <1>2, <1>3, <1>4 DEF LeavingInv
<1> QED
  BY <1>2, <1>3, <1>4, <1>6, <1>7, LeavingStep

LEMMA LogoutLockedKeeps ==
  ASSUME SessionInv, NEW t \in Tabs, LogoutLocked(t)
  PROVE  Safe
<1>1. tab[t] \in Tab /\ tab \in [Tabs -> Tab] /\ TypeOK /\ LeavingInv
  BY DEF SessionInv, TypeOK
<1>2. /\ out[t] = "lock" /\ Acquire(t, "out") /\ out' = [out EXCEPT ![t] = "sent"]
      /\ UNCHANGED <<store, grant, lockKind, tab, cache, mail, flight, boot, req, sign,
                     issued, outs, owed>>
  BY DEF LogoutLocked
<1>3. tab' = [tab EXCEPT ![t] = tab[t]]
  BY <1>1, <1>2
<1>4. Inside(t, "out")' /\ Elsewhere(t, "out")
  BY <1>1, <1>2 DEF Inside, Elsewhere, Flows, TypeOK
<1>5. LockInv' /\ lock' \in (Tabs \X {"refresh", "sign", "out"}) \cup {Free}
  BY <1>2, <1>4, LockTaken DEF Acquire, Flows
<1> QED
  BY <1>1, <1>2, <1>3, <1>5, LeavingStep DEF LeavingInv

LEMMA LogoutAnsweredKeeps ==
  ASSUME SessionInv, NEW t \in Tabs, LogoutAnswered(t)
  PROVE  Safe
<1>1. tab[t] \in Tab /\ tab \in [Tabs -> Tab] /\ TypeOK
  BY DEF SessionInv, TypeOK
<1> PICK d : d = [tab[t] EXCEPT !.leaving = FALSE]
  OBVIOUS
<1>2. /\ d \in Tab /\ d.tok = tab[t].tok /\ d.status = tab[t].status /\ d.epoch = tab[t].epoch
      /\ d.hydrated = tab[t].hydrated /\ d.listening = tab[t].listening
  BY <1>1 DEF Tab
<1>3. /\ tab' = [tab EXCEPT ![t] = d] /\ out' = [out EXCEPT ![t] = "done"] /\ out[t] = "sent"
      /\ grant' \in {grant, NoUser} /\ owed' = owed \ {t} /\ Release(t, "out")
      /\ UNCHANGED <<store, lockKind, cache, mail, flight, boot, req, sign, issued, outs>>
  BY <1>1 DEF LogoutAnswered
<1>4. Inside(t, "out") /\ ~Inside(t, "out")' /\ Elsewhere(t, "out")
  BY <1>1, <1>3 DEF Inside, Elsewhere, Flows, TypeOK
<1>5. LockInv' /\ lock' \in (Tabs \X {"refresh", "sign", "out"}) \cup {Free}
  BY <1>3, <1>4, LockGiven DEF Flows
<1> QED
  BY <1>2, <1>3, <1>5, LeavingStep

LEMMA LogoutKeeps ==
  ASSUME SessionInv, NEW t \in Tabs, Logout(t)
  PROVE  Safe
<1>1. TabInv(t) /\ TypeOK /\ FenceInv /\ Len(issued) \in Nat /\ World(t).store = store
      /\ req[t] \in Call
  BY TabFacts DEF SessionInv
<1> PICK h : h = Hydrate(World(t))
  OBVIOUS
<1> PICK w : w = SignedOut(h, t, TRUE)
  OBVIOUS
<1> PICK d : d = [w.tab EXCEPT !.leaving = TRUE]
  OBVIOUS
<1> PICK v : v = [w EXCEPT !.tab = d]
  OBVIOUS
<1>2. /\ req[t].pc # "redirect" /\ out[t] = "off" /\ sign[t].pc = "off" /\ Put(t, v)
      /\ out' = [out EXCEPT ![t] = "config"] /\ outs' = outs + 1
      /\ owed' = IF RefreshEnabled THEN owed \cup {t} ELSE owed
      /\ UNCHANGED <<grant, lock, lockKind, flight, boot, req, sign, issued>>
  BY DEF Logout, Settled, Live
<1>3. Kept(t, World(t), h) /\ h.tab.listening /\ h.store = store /\ Sound(h)
  BY <1>1, Hydrated DEF TabInv, Kept, Good
<1>4. Kept(t, h, w) /\ NobodyLeft(h, w)
  BY <1>1, <1>3, SessionEnded
<1>5. Kept(t, World(t), w) /\ Sound(w) /\ InStep(t, w)
  BY <1>1, <1>3, <1>4, GoodTransitive DEF TabInv, Kept, Good
<1>6. w \in Worlds /\ w.tab \in Tab
  BY <1>5 DEF Sound, Worlds
<1>7. /\ d \in Tab /\ d.tok = w.tab.tok /\ d.status = w.tab.status /\ d.epoch = w.tab.epoch
      /\ d.hydrated = w.tab.hydrated /\ d.listening = w.tab.listening /\ d.leaving = TRUE
  BY <1>6 DEF Tab
<1>8. v.tab = d /\ v.store = w.store /\ v.mail = w.mail /\ v.cache = w.cache /\ v \in Worlds
  BY <1>6, <1>7 DEF Worlds
<1>9. Kept(t, w, v)
  <2>1. /\ v.tab.tok = w.tab.tok /\ v.tab.status = w.tab.status /\ v.tab.epoch = w.tab.epoch
        /\ v.tab.hydrated = w.tab.hydrated /\ v.tab.listening = w.tab.listening
        /\ (w.tab.leaving => v.tab.leaving)
    BY <1>7, <1>8, Zenon
  <2>2. /\ v.store = w.store /\ v.mail = w.mail /\ v.cache = w.cache /\ v \in Worlds
    BY <1>8
  <2> QED
    BY <1>5, <2>1, <2>2, FlagsFree, Zenon
<1>10. Kept(t, World(t), v)
  BY <1>1, <1>5, <1>9, GoodTransitive DEF TabInv, Kept
<1>11. /\ v.store.tok = None /\ store.rev < v.store.rev /\ v.tab.listening /\ v.tab.leaving
       /\ store.rev \in Nat
  <2>1. store.rev \in Nat
    BY <1>1 DEF TypeOK, Store
  <2>2. v.store.tok = None /\ v.store.rev = store.rev + 1
    BY <1>3, <1>4, <1>8 DEF NobodyLeft
  <2>3. v.tab.listening /\ v.tab.leaving
    BY <1>3, <1>4, <1>7, <1>8 DEF NobodyLeft
  <2>4. store.rev < v.store.rev
    <3>1. PICK m \in Nat : m = store.rev
      BY <2>1
    <3>2. PICK n : n = v.store.rev
      OBVIOUS
    <3>3. n = m + 1
      BY <2>2, <3>1, <3>2, Zenon
    <3>4. m < n
      BY <3>3
    <3> QED
      BY <3>1, <3>2, <3>4, Zenon
  <2> QED
    BY <2>1, <2>2, <2>3, <2>4
<1>12. Pending(t) /\ out'[t] = "config"
  BY <1>1, <1>2 DEF Pending, TypeOK
<1>13. owed' \subseteq Tabs /\ owed' \subseteq owed \cup {t} /\ (t \in owed' /\ t \notin owed => RefreshEnabled)
  BY <1>1, <1>2 DEF TypeOK
<1>14. /\ Frame(t) /\ Sound(World(t))' /\ InStep(t, World(t))'
       /\ tab'[t] = v.tab /\ store' = v.store
  <2>1. /\ issued' = issued /\ lockKind' = lockKind /\ grant' \in OidcUsers \cup {NoUser}
        /\ lock' \in (Tabs \X {"refresh", "sign", "out"}) \cup {Free} /\ outs' \in Nat
    BY <1>1, <1>2 DEF TypeOK
  <2>2. Good(t, World(t), v)
    BY <1>10 DEF Kept
  <2> QED
    BY <1>2, <1>11, <1>12, <1>13, <2>1, <2>2, PutFrame
<1>15. Listens(t)'
  BY <1>11, <1>14 DEF Listens
<1>16. FlightFenced(t)' /\ SignFenced(t)'
  BY <1>1, <1>2, <1>14, FlightKept, SignKept DEF Frame
<1>17. OwnBearer(req[t], tab[t])'
  <2>1. OwnBearer(req[t], v.tab)
    BY <1>1, <1>2, <1>10, <1>14, BearerMoves DEF TabInv, Kept
  <2> QED
    BY <1>2, <1>14, <2>1 DEF OwnBearer, UserOf
<1>18. TabInv(t)'
  BY <1>14, <1>15, <1>16, <1>17 DEF TabInv
<1>19. \A s \in Tabs, f \in Flows : Inside(s, f)' <=> Inside(s, f)
  BY <1>1, <1>2 DEF Inside, TypeOK
<1>20. LockInv' /\ SignedOutStays' /\ GrantInv' /\ Alone
  BY <1>2, <1>11, <1>14, <1>19, LockSame, TokenDropped DEF SignedOutStays, SessionInv, GrantInv
<1>21. LeavingInv' /\ LogoutNotCancelled'
  <2>1. ASSUME NEW s \in owed'
        PROVE  /\ RefreshEnabled /\ tab'[s].leaving /\ req'[s].pc # "redirect"
               /\ out'[s] \in {"config", "lock", "sent"}
    <3>1. CASE s = t
      BY <1>2, <1>11, <1>12, <1>13, <1>14, <2>1, <3>1 DEF SessionInv, LeavingInv
    <3>2. CASE s # t
      <4>1. s \in owed /\ s \in Tabs \ {t}
        BY <1>13, <2>1, <3>2
      <4> QED
        BY <1>2, <1>14, <4>1 DEF Frame, SessionInv, LeavingInv, LogoutNotCancelled
    <3> QED
      BY <3>1, <3>2
  <2> QED
    BY <2>1 DEF LeavingInv, LogoutNotCancelled
<1> QED
  BY <1>14, <1>18, <1>20, <1>21, Assembled

(* A page is left: what it had under way is gone, and the lock with it. *)
LEMMA ResetKeeps ==
  ASSUME SessionInv, NEW t \in Tabs, NEW page \in Tab, NEW start \in {"start", "idle"},
         Reset(t, page, start), page.tok = None, page.status = "loading", page.epoch = 0,
         ~page.hydrated, t \notin owed', owed' \subseteq owed,
         NEW g \in SignIn, sign' = [sign EXCEPT ![t] = g], out' = [out EXCEPT ![t] = "off"],
         \/ g.pc = "off"
         \/ /\ g.pc = "lock" /\ g.user \in Users /\ g.fence = store.rev /\ g.asked = outs
            /\ page.listening,
         grant' \in OidcUsers \cup {NoUser}, GrantInv',
         UNCHANGED <<store, lockKind, issued, outs>>
  PROVE  Safe
<1>1. TabInv(t) /\ TypeOK /\ FenceInv /\ Len(issued) \in Nat /\ World(t).store = store
      /\ LeavingInv /\ LogoutNotCancelled /\ 0 \in Tokens
  BY SessionAssumption, TabFacts DEF SessionInv, Tokens
<1> PICK b : b = [Idle EXCEPT !.pc = start]
  OBVIOUS
<1>2. /\ tab' = [tab EXCEPT ![t] = page] /\ cache' = [cache EXCEPT ![t] = {}]
      /\ mail' = mail \ {t} /\ flight' = [flight EXCEPT ![t] = NoFlight]
      /\ boot' = [boot EXCEPT ![t] = b] /\ req' = [req EXCEPT ![t] = Idle]
      /\ lock' = IF lockKind = "web" /\ lock[1] = t THEN Free ELSE lock
  BY DEF Reset
<1>3. NoFlight \in Flight /\ NoFlight.pc = "off" /\ Idle \in Call /\ b \in Call /\ b.pc = start
      /\ Idle.pc = "idle" /\ Idle.epoch = 0 /\ Idle.bearer = 0
  BY <1>1 DEF NoFlight, Flight, Idle, Call, None, Avail
<1>4. /\ tab' \in [Tabs -> Tab] /\ cache' \in [Tabs -> SUBSET Users] /\ tab'[t] = page
      /\ cache'[t] = {} /\ Pending(t)
      /\ flight'[t] = NoFlight /\ boot'[t] = b /\ req'[t] = Idle /\ sign'[t] = g /\ out'[t] = "off"
      /\ \A s \in Tabs \ {t} : tab'[s] = tab[s] /\ cache'[s] = cache[s]
  <2>1. /\ tab' \in [Tabs -> Tab] /\ tab'[t] = page /\ \A s \in Tabs \ {t} : tab'[s] = tab[s]
    BY <1>1, <1>2 DEF TypeOK
  <2>2. /\ cache' \in [Tabs -> SUBSET Users] /\ cache'[t] = {}
        /\ \A s \in Tabs \ {t} : cache'[s] = cache[s]
    BY <1>1, <1>2 DEF TypeOK
  <2>3. /\ flight'[t] = NoFlight /\ boot'[t] = b /\ req'[t] = Idle /\ sign'[t] = g
        /\ out'[t] = "off" /\ Pending(t)
    BY <1>1, <1>2, <1>3 DEF TypeOK, Pending
  <2> QED
    BY <2>1, <2>2, <2>3
<1>5. lock' \in (Tabs \X {"refresh", "sign", "out"}) \cup {Free}
  BY <1>1, <1>2 DEF TypeOK
<1>6. TypeOK'
  BY <1>1, <1>2, <1>4, <1>5 DEF TypeOK, Pending
<1>7. Passes
  BY <1>1, GrowsStill DEF Passes, TypeOK, Store
<1>8. store.tok <= Len(issued) /\ (store.out => store.tok = None)
  BY <1>1 DEF TabInv, Sound, InStep
<1>9. Frame(t)
  BY <1>2, <1>4, <1>6, <1>7, <1>8 DEF Frame, Pending
<1>10. /\ World(t)'.tab = page /\ World(t)'.store = store /\ World(t)'.mail = mail \ {t}
       /\ World(t)'.cache = {} /\ World(t)' \in Worlds
  BY <1>1, <1>2, <1>4 DEF World, Worlds, TypeOK
<1>11. Sound(World(t))'
  BY <1>1, <1>8, <1>10 DEF Sound, None
<1>12. InStep(t, World(t))'
  BY <1>8, <1>10 DEF InStep
<1>13. Listens(t)' /\ FlightFenced(t)'
  BY <1>3, <1>4 DEF Listens, FlightFenced
<1>14. SignFenced(t)'
  BY <1>1, <1>4 DEF SignFenced, TypeOK, Store
<1>15. OwnBearer(req[t], tab[t])'
  BY <1>1, <1>3, <1>4 DEF OwnBearer
<1>16. TabInv(t)'
  BY <1>11, <1>12, <1>13, <1>14, <1>15 DEF TabInv
<1>17. LockInv'
  <2>1. SUFFICES ASSUME lockKind = "web"
                 PROVE  \A s \in Tabs, f \in Flows : Inside(s, f)' <=> lock' = <<s, f>>
    BY DEF LockInv, Inside, Flows
  <2>2. \A s \in Tabs, f \in Flows : Inside(s, f) <=> lock = <<s, f>>
    BY <2>1 DEF SessionInv, LockInv, Inside, Flows
  <2>3. \A f \in Flows : ~Inside(t, f)'
    BY <1>3, <1>4 DEF Inside
  <2>4. \A s \in Tabs \ {t}, f \in Flows : Inside(s, f)' <=> Inside(s, f)
    BY <1>4 DEF Inside, Pending
  <2>5. \A s \in Tabs, f \in Flows : Free # <<s, f>>
    BY DEF Free, Flows
  <2>6. CASE lock[1] = t
    BY <1>2, <2>1, <2>2, <2>3, <2>4, <2>5, <2>6
  <2>7. CASE lock[1] # t
    BY <1>2, <2>1, <2>2, <2>3, <2>4, <2>7
  <2> QED
    BY <2>6, <2>7
<1>18. SignedOutStays' /\ Alone
  BY TokenDropped DEF SessionInv, SignedOutStays
<1>19. LeavingInv' /\ LogoutNotCancelled'
  BY <1>1, <1>4 DEF LeavingInv, LogoutNotCancelled, Pending, TypeOK
<1> QED
  BY <1>9, <1>16, <1>17, <1>18, <1>19, Assembled

LEMMA NewTabTyped ==
  /\ NewTab \in Tab /\ NewTab.tok = None /\ NewTab.status = "loading" /\ NewTab.epoch = 0
  /\ ~NewTab.hydrated
  /\ [NewTab EXCEPT !.listening = TRUE] \in Tab
<1>1. 0 \in Tokens
  BY SessionAssumption DEF Tokens
<1> QED
  BY <1>1 DEF NewTab, Tab, None

(* Leaving a page for good: redirect, reload, the end of a logout. *)
LEMMA PageLeft ==
  ASSUME SessionInv, NEW t \in Tabs, Reset(t, NewTab, "start"), t \notin owed', owed' \subseteq owed,
         sign' = [sign EXCEPT ![t] = NoSign], out' = [out EXCEPT ![t] = "off"],
         \/ grant' \in {grant, NoUser}
         \/ RefreshEnabled /\ grant' \in OidcUsers /\ sign[t].pc = "sent",
         UNCHANGED <<store, lockKind, issued, outs>>
  PROVE  Safe
<1>1. grant' \in OidcUsers \cup {NoUser}
  BY DEF SessionInv, TypeOK
<1>2. \A s \in Tabs : sign'[s].pc = "cleared" => s # t /\ sign[s].pc = "cleared"
  BY NoSignTyped DEF SessionInv, TypeOK
<1>3. sign[t].pc = "sent" /\ lockKind = "web" => \A s \in Tabs \ {t} : sign[s].pc # "cleared"
  BY DEF SessionInv, LockInv
<1>4. GrantInv'
  BY <1>2, <1>3 DEF SessionInv, GrantInv
<1> QED
  BY <1>1, <1>4, NoSignTyped, NewTabTyped, ResetKeeps

LEMMA RedirectKeeps ==
  ASSUME SessionInv, NEW t \in Tabs, Redirect(t)
  PROVE  Safe
<1>1. t \notin owed
  BY DEF Redirect, SessionInv, LeavingInv
<1> QED
  BY <1>1, PageLeft DEF Redirect

LEMMA ReloadKeeps ==
  ASSUME SessionInv, NEW t \in Tabs, Reload(t)
  PROVE  Safe
  BY PageLeft DEF Reload

LEMMA LogoutNavigatesKeeps ==
  ASSUME SessionInv, NEW t \in Tabs, LogoutNavigates(t)
  PROVE  Safe
<1>1. t \notin owed
  BY DEF LogoutNavigates, SessionInv, LogoutNotCancelled
<1> QED
  BY <1>1, PageLeft DEF LogoutNavigates

LEMMA SignInWithCodeKeeps ==
  ASSUME SessionInv, NEW t \in Tabs, NEW u \in OidcUsers, SignInWithCode(t, u)
  PROVE  Safe
<1> PICK page : page = [NewTab EXCEPT !.listening = TRUE]
  OBVIOUS
<1> PICK g : g = [NoSign EXCEPT !.pc = "lock", !.user = u, !.fence = store.rev, !.asked = outs]
  OBVIOUS
<1>1. /\ out[t] = "off" /\ Reset(t, page, "idle") /\ sign' = [sign EXCEPT ![t] = g]
      /\ UNCHANGED <<store, grant, lockKind, out, issued, outs, owed>>
  BY DEF SignInWithCode
<1>2. t \notin owed
  BY <1>1 DEF SessionInv, LogoutNotCancelled
<1>3. store.rev \in Nat /\ outs \in Nat /\ u \in Users
  BY DEF SessionInv, TypeOK, Store, Users
<1>4. g \in SignIn /\ g.pc = "lock" /\ g.user = u /\ g.fence = store.rev /\ g.asked = outs
  BY <1>3, NoSignTyped DEF SignIn
<1>5. /\ page \in Tab /\ page.tok = None /\ page.status = "loading" /\ page.epoch = 0
      /\ ~page.hydrated /\ page.listening
  BY NewTabTyped DEF Tab
<1>6. out' = [out EXCEPT ![t] = "off"]
  BY <1>1 DEF SessionInv, TypeOK
<1>7. grant' \in OidcUsers \cup {NoUser} /\ GrantInv'
  BY <1>1, <1>4 DEF SessionInv, TypeOK, GrantInv
<1> QED
  BY <1>1, <1>2, <1>3, <1>4, <1>5, <1>6, <1>7, ResetKeeps

LEMMA LeaseExpiresKeeps ==
  ASSUME SessionInv, NEW t \in Tabs, LeaseExpires
  PROVE  Safe
<1>1. TabInv(t) /\ TypeOK /\ World(t).tab = tab[t]
  BY TabFacts DEF SessionInv
<1>2. /\ lockKind = "lease" /\ lock' = Free
      /\ UNCHANGED <<store, grant, lockKind, tab, cache, mail, flight, boot, req, sign,
                     out, issued, outs, owed>>
  BY DEF LeaseExpires
<1>3. Pending(t)
  BY <1>1, <1>2 DEF Pending, TypeOK
<1>4. LockInv' /\ SignedOutStays' /\ Alone
  BY <1>2, TokenDropped DEF LockInv, SessionInv, SignedOutStays
<1>5. Listens(t)' /\ FlightFenced(t)' /\ SignFenced(t)'
  BY <1>1, <1>2 DEF TabInv, Listens, FlightFenced, SignFenced
<1> QED
  BY <1>1, <1>2, <1>3, <1>4, <1>5, StillPut, LockTask DEF TabInv, Kept

-----------------------------------------------------------------------------
(* Theorems.                                                               *)

LEMMA InitHolds == Init => SessionInv
<1> SUFFICES ASSUME NEW u \in OidcUsers,
               store = [tok |-> 1, out |-> FALSE, rev |-> 1,
                        avail |-> IF RefreshEnabled THEN "yes" ELSE "no"],
               grant = (IF RefreshEnabled THEN u ELSE NoUser),
               lock = Free, lockKind \in LockKinds,
               tab = [t \in Tabs |-> [NewTab EXCEPT !.tok = 1, !.status = "authenticated",
                                         !.epoch = 1, !.hydrated = TRUE, !.listening = TRUE,
                                         !.config = TRUE, !.armed = TRUE]],
               cache = [t \in Tabs |-> {}], mail = {},
               flight = [t \in Tabs |-> NoFlight],
               boot = [t \in Tabs |-> Idle], req = [t \in Tabs |-> Idle],
               sign = [t \in Tabs |-> NoSign], out = [t \in Tabs |-> "off"],
               issued = <<[user |-> u, age |-> "fresh", asked |-> 0]>>,
               outs = 0, owed = {}
             PROVE  SessionInv
  BY DEF Init
<1>1. 0 \in Tokens /\ 1 \in Tokens /\ u \in Users
  BY SessionAssumption DEF Tokens, Users
<1> PICK b : b = [NewTab EXCEPT !.tok = 1, !.status = "authenticated", !.epoch = 1,
                                !.hydrated = TRUE, !.listening = TRUE, !.config = TRUE,
                                !.armed = TRUE]
  OBVIOUS
<1>2. /\ b \in Tab /\ b.tok = 1 /\ b.status = "authenticated" /\ b.listening /\ b.hydrated
      /\ b.epoch = 1
  BY <1>1, NewTabTyped DEF Tab
<1>3. NoFlight \in Flight /\ NoFlight.pc = "off" /\ Idle \in Call /\ Idle.pc = "idle"
      /\ Idle.epoch = 0 /\ Idle.bearer = 0
  BY <1>1 DEF NoFlight, Flight, Idle, Call, None, Avail
<1>4. store \in Store /\ store.tok = 1 /\ store.out = FALSE
  BY <1>1, SessionAssumption DEF Store, Avail
<1>5. issued \in Seq(Token) /\ Len(issued) = 1 /\ issued[1].asked = 0 /\ issued[1].user = u
  BY <1>1 DEF Token
<1>6. grant \in OidcUsers \cup {NoUser} /\ lockKind \in {"web", "lease"}
  BY SessionAssumption
<1>7. TypeOK
  BY <1>1, <1>2, <1>3, <1>4, <1>5, <1>6, NoSignTyped DEF TypeOK
<1>8. WorldsInv
  <2>1. SUFFICES ASSUME NEW t \in Tabs
                 PROVE  Sound(World(t)) /\ InStep(t, World(t))
    BY DEF WorldsInv
  <2>2. World(t) \in Worlds /\ World(t).tab = b /\ World(t).store = store
        /\ World(t).cache = {} /\ World(t).mail = {}
    BY <1>2, <1>4 DEF World, Worlds
  <2> QED
    BY <1>2, <1>4, <1>5, <2>2 DEF Sound, InStep, None
<1>9. ListeningInv /\ FenceInv
  BY <1>2, <1>3, NoSignTyped DEF ListeningInv, FenceInv, FlightFenced, SignFenced
<1>10. LockInv /\ LockInUse
  BY <1>3, NoSignTyped DEF LockInv, LockInUse, Free
<1>11. BearerInv
  <2>1. OwnBearer(Idle, b)
    BY <1>2, <1>3, <1>5 DEF OwnBearer, None
  <2>2. ASSUME NEW t \in Tabs
        PROVE  req[t] = Idle /\ tab[t] = b
    OBVIOUS
  <2> QED
    BY <2>1, <2>2, Zenon DEF BearerInv
<1>12. SignedOutStays /\ LeavingInv /\ LogoutNotCancelled /\ GrantInv
  BY <1>4, <1>5, NoSignTyped DEF SignedOutStays, LeavingInv, LogoutNotCancelled, GrantInv
<1> QED
  BY <1>7, <1>8, <1>9, <1>10, <1>11, <1>12 DEF SessionInv

LEMMA NextSafe ==
  ASSUME SessionInv, Next
  PROVE  Safe
<1>1. ASSUME NEW t \in Tabs, TabStep(t)
      PROVE  Safe
  <2>1. ASSUME Bootstrap(t) \/ RefreshTimer(t)
        PROVE  Safe
    BY <2>1, EnsureKeeps DEF Bootstrap, RefreshTimer
  <2> QED
    BY <1>1, <2>1, DeliverKeeps, BootConfigKeeps, ReqConfigKeeps, SignConfigKeeps,
       LogoutConfigKeeps, RefreshLockedKeeps, RefreshAnsweredKeeps, RefreshDecodedKeeps,
       RequestAnsweredKeeps, RequestDecodedKeeps, RedirectKeeps, SignLockedKeeps,
       SignAnsweredKeeps, SignDecodedKeeps, GrantClearedKeeps, PasswordAcceptedKeeps,
       LogoutLockedKeeps, LogoutAnsweredKeeps, LogoutNavigatesKeeps
       DEF TabStep
<1>2. ASSUME NEW t \in Tabs, UserStep(t)
      PROVE  Safe
  <2>1. ASSUME Reconnect(t)
        PROVE  Safe
    BY <2>1, EnsureKeeps DEF Reconnect
  <2> QED
    BY <1>2, <2>1, StartRequestKeeps, SignInWithCodeKeeps, PasswordKeeps, LogoutKeeps,
       ReloadKeeps DEF UserStep
<1>3. PICK t : t \in Tabs
  BY SessionAssumption
<1> QED
  BY <1>1, <1>2, <1>3, ConfigFailsKeeps, BackoffEndsKeeps, AgeTokenKeeps, LeaseExpiresKeeps
     DEF Next

LEMMA StutterSafe ==
  ASSUME SessionInv, UNCHANGED vars
  PROVE  Safe
<1>1. SessionInv'
  BY DEF vars, SessionInv, TypeOK, LockInUse, WorldsInv, ListeningInv, LockInv, FenceInv,
         SignedOutStays, BearerInv, LeavingInv, LogoutNotCancelled, GrantInv, Sound, InStep,
         World, FlightFenced, SignFenced, OwnBearer, UserOf
<1>2. Alone
  BY TokenDropped DEF vars
<1> QED
  BY <1>1, <1>2 DEF Safe

(* The invariant of the session module holds in every state the tabs of a  *)
(* browser can reach, whatever the order of their tasks, answers, storage  *)
(* events, failures and reloads (browser-session.ts, session-request.ts).  *)
THEOREM SessionInvariant == Spec => []SessionInv
<1>1. SessionInv /\ [Next]_vars => SessionInv'
  BY NextSafe, StutterSafe DEF Safe
<1> QED
  BY InitHolds, <1>1, PTL DEF Spec

(* A session that the user ended stays ended, in any number of tabs.       *)
THEOREM LogoutIsFinal == Spec => []SignedOutStays
<1>1. SessionInv => SignedOutStays
  BY DEF SessionInv
<1> QED
  BY SessionInvariant, <1>1, PTL

(* A tab shows the stored session or is about to be told of it.            *)
THEOREM TabsAlwaysFollow == Spec => []TabsFollow
<1>1. SessionInv => TabsFollow
  <2> SUFFICES ASSUME SessionInv, NEW t \in Tabs, tab[t].tok # store.tok
               PROVE  t \in mail \/ (tab[t].tok = None /\ ~tab[t].hydrated)
    BY DEF TabsFollow
  <2> QED
    BY TabFacts DEF TabInv, InStep
<1> QED
  BY SessionInvariant, <1>1, PTL

(* No tab shows data of an account other than its own.                     *)
THEOREM CacheAlwaysOwn == Spec => []CacheIsOwn
<1>1. SessionInv => CacheIsOwn
  <2> SUFFICES ASSUME SessionInv, NEW t \in Tabs
               PROVE  cache[t] \subseteq {UserOf(tab[t].tok)} \ {NoUser}
    BY DEF CacheIsOwn
  <2> QED
    BY TabFacts DEF TabInv, Sound
<1> QED
  BY SessionInvariant, <1>1, PTL

(* An undisturbed logout is not cancelled by its own tab.                  *)
THEOREM LogoutCompletes == Spec => []LogoutNotCancelled
<1>1. SessionInv => LogoutNotCancelled
  BY DEF SessionInv
<1> QED
  BY SessionInvariant, <1>1, PTL

(* With Web Locks a password account is installed over an empty cookie.    *)
THEOREM PasswordAlone == Spec => PasswordStandsAlone
<1>1. SessionInv /\ [Next]_vars =>
        [lockKind = "web" /\ store'.tok # store.tok /\ UserOf(store.tok)' \in BasicUsers
            => grant' = NoUser]_vars
  BY NextSafe, StutterSafe DEF Safe, Alone
<1> QED
  BY SessionInvariant, <1>1, PTL DEF Spec, PasswordStandsAlone
=============================================================================
