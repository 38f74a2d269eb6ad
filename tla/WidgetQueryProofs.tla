--------------------------- MODULE WidgetQueryProofs ---------------------------
(* The scheduler of a dashboard's queries keeps its shape and loses no     *)
(* place; answers belong to the question on screen and never get older.    *)
EXTENDS WidgetQuery, FiniteSetTheorems, WellFoundedInduction, SequenceTheorems, TLAPS

-----------------------------------------------------------------------------
(* Sequences.                                                              *)

(* What is left when the element at one position is removed. *)
LEMMA RemovedAt ==
  ASSUME NEW S, NEW q \in Seq(S), NEW i \in DOMAIN q
  PROVE  /\ RemoveAt(q, i) \in Seq(S)
         /\ Len(RemoveAt(q, i)) = Len(q) - 1
         /\ \A j \in DOMAIN RemoveAt(q, i) :
               RemoveAt(q, i)[j] = IF j < i THEN q[j] ELSE q[j + 1]
<1> DEFINE a == SubSeq(q, 1, i - 1)
           b == SubSeq(q, i + 1, Len(q))
<1>1. Len(q) \in Nat /\ DOMAIN q = 1..Len(q) /\ \A j \in 1..Len(q) : q[j] \in S
  BY LenProperties, ElementOfSeq
<1>2. i \in 1..Len(q)
  BY <1>1
<1>3. /\ a \in Seq(S) /\ Len(a) = i - 1
      /\ \A j \in 1..(i - 1) : a[j] = q[j]
  <2>1. \A j \in 1..(i - 1) : q[j] \in S
    BY <1>1, <1>2
  <2>2. /\ a \in Seq(S) /\ Len(a) = IF 1 <= i - 1 THEN (i - 1) - 1 + 1 ELSE 0
        /\ \A j \in 1..((i - 1) - 1 + 1) : a[j] = q[1 + j - 1]
    BY <1>1, <1>2, <2>1, SubSeqProperties
  <2> QED
    BY <1>1, <1>2, <2>2
<1>4. /\ b \in Seq(S) /\ Len(b) = Len(q) - i
      /\ \A j \in 1..(Len(q) - i) : b[j] = q[j + i]
  <2>1. \A j \in (i + 1)..Len(q) : q[j] \in S
    BY <1>1, <1>2
  <2>2. /\ b \in Seq(S) /\ Len(b) = IF i + 1 <= Len(q) THEN Len(q) - (i + 1) + 1 ELSE 0
        /\ \A j \in 1..(Len(q) - (i + 1) + 1) : b[j] = q[(i + 1) + j - 1]
    BY <1>1, <1>2, <2>1, SubSeqProperties
  <2>3. (IF i + 1 <= Len(q) THEN Len(q) - (i + 1) + 1 ELSE 0) = Len(q) - i
    BY <1>1, <1>2
  <2>4. Len(q) - (i + 1) + 1 = Len(q) - i /\ \A j \in 1..(Len(q) - i) : (i + 1) + j - 1 = j + i
    BY <1>1, <1>2
  <2> HIDE DEF b
  <2>5. \A j \in 1..(Len(q) - i) : b[j] = q[j + i]
    BY <2>2, <2>4
  <2> QED
    BY <2>2, <2>3, <2>5
<1>5. RemoveAt(q, i) = a \o b
  BY DEF RemoveAt
<1> HIDE DEF a, b
<1>6. /\ a \o b \in Seq(S) /\ Len(a \o b) = Len(a) + Len(b)
      /\ \A j \in 1..(Len(a) + Len(b)) : (a \o b)[j] = IF j <= Len(a) THEN a[j] ELSE b[j - Len(a)]
  BY <1>3, <1>4, ConcatProperties
<1>7. Len(a \o b) = Len(q) - 1 /\ DOMAIN (a \o b) = 1..(Len(q) - 1)
  <2>1. (i - 1) + (Len(q) - i) = Len(q) - 1
    BY <1>1, <1>2
  <2>2. DOMAIN (a \o b) = 1..Len(a \o b)
    BY <1>6, LenProperties
  <2> QED
    BY <1>3, <1>4, <1>6, <2>1, <2>2
<1>8. ASSUME NEW j \in 1..(Len(q) - 1)
      PROVE  (a \o b)[j] = IF j < i THEN q[j] ELSE q[j + 1]
  <2>1. CASE j < i
    BY <1>1, <1>2, <1>3, <1>4, <1>6, <2>1
  <2>2. CASE ~(j < i)
    <3>1. j - Len(a) \in 1..(Len(q) - i) /\ ~(j <= Len(a))
      BY <1>1, <1>2, <1>3, <2>2
    <3>2. (a \o b)[j] = b[j - Len(a)]
      <4>1. j \in 1..(Len(a) + Len(b))
        BY <1>1, <1>2, <1>3, <1>4
      <4> QED
        BY <1>6, <3>1, <4>1
    <3>3. b[j - Len(a)] = q[(j - Len(a)) + i] /\ (j - Len(a)) + i = j + 1
      BY <1>1, <1>2, <1>3, <1>4, <3>1
    <3> QED
      BY <2>2, <3>2, <3>3
  <2> QED
    BY <2>1, <2>2
<1> QED
  BY <1>5, <1>6, <1>7, <1>8

(* From a sequence without repetitions it takes just that element away. *)
Once(q) == \A i, j \in DOMAIN q : q[i] = q[j] => i = j
Elements(q) == {q[i] : i \in DOMAIN q}

LEMMA RemovedOnce ==
  ASSUME NEW S, NEW q \in Seq(S), NEW i \in DOMAIN q, Once(q)
  PROVE  /\ Once(RemoveAt(q, i))
         /\ Elements(RemoveAt(q, i)) = Elements(q) \ {q[i]}
<1> PICK p : p = RemoveAt(q, i)
  OBVIOUS
<1>1. Len(q) \in Nat /\ DOMAIN q = 1..Len(q) /\ i \in 1..Len(q)
  BY LenProperties
<1>2. /\ p \in Seq(S) /\ Len(p) = Len(q) - 1 /\ DOMAIN p = 1..(Len(q) - 1)
      /\ \A j \in DOMAIN p : p[j] = IF j < i THEN q[j] ELSE q[j + 1]
  BY RemovedAt, LenProperties
<1>3. Once(p)
  <2> SUFFICES ASSUME NEW x \in DOMAIN p, NEW y \in DOMAIN p, p[x] = p[y]
               PROVE  x = y
    BY DEF Once
  <2> PICK u : u = IF x < i THEN x ELSE x + 1
    OBVIOUS
  <2> PICK v : v = IF y < i THEN y ELSE y + 1
    OBVIOUS
  <2>1. u \in DOMAIN q /\ v \in DOMAIN q /\ p[x] = q[u] /\ p[y] = q[v]
    BY <1>1, <1>2
  <2>2. u = v
    BY <2>1 DEF Once
  <2> QED
    BY <1>1, <1>2, <2>2
<1>4. Elements(p) \subseteq Elements(q) \ {q[i]}
  <2> SUFFICES ASSUME NEW x \in DOMAIN p
               PROVE  p[x] \in Elements(q) /\ p[x] # q[i]
    BY DEF Elements
  <2> PICK u : u = IF x < i THEN x ELSE x + 1
    OBVIOUS
  <2>1. u \in DOMAIN q /\ p[x] = q[u] /\ u # i
    BY <1>1, <1>2
  <2> QED
    BY <2>1 DEF Elements, Once
<1>5. Elements(q) \ {q[i]} \subseteq Elements(p)
  <2> SUFFICES ASSUME NEW u \in DOMAIN q, q[u] # q[i]
               PROVE  \E x \in DOMAIN p : p[x] = q[u]
    BY DEF Elements
  <2>1. CASE u < i
    <3>1. u \in DOMAIN p
      BY <1>1, <1>2, <2>1
    <3> QED
      BY <1>2, <2>1, <3>1
  <2>2. CASE ~(u < i)
    <3>1. u # i
      OBVIOUS
    <3>2. u - 1 \in DOMAIN p /\ ~(u - 1 < i) /\ (u - 1) + 1 = u
      BY <1>1, <1>2, <2>2, <3>1
    <3> QED
      BY <1>2, <3>2
  <2> QED
    BY <2>1, <2>2
<1> QED
  BY <1>3, <1>4, <1>5

(* What is left of a sequence without repetitions when its first n are taken. *)
Leading(q, n) == {q[i] : i \in 1..n}
Rest(q, n)  == SubSeq(q, n + 1, Len(q))

LEMMA TakenOff ==
  ASSUME NEW S, NEW q \in Seq(S), NEW n \in 0..Len(q), Once(q)
  PROVE  /\ Rest(q, n) \in Seq(S) /\ Len(Rest(q, n)) = Len(q) - n
         /\ Once(Rest(q, n)) /\ Elements(Rest(q, n)) = Elements(q) \ Leading(q, n)
         /\ Leading(q, n) \subseteq Elements(q)
<1> DEFINE p == SubSeq(q, n + 1, Len(q))
           t == {q[i] : i \in 1..n}
<1>1. Len(q) \in Nat /\ DOMAIN q = 1..Len(q) /\ \A j \in 1..Len(q) : q[j] \in S
  BY LenProperties, ElementOfSeq
<1>2. \A j \in (n + 1)..Len(q) : q[j] \in S
  BY <1>1
<1>3. /\ p \in Seq(S) /\ Len(p) = IF n + 1 <= Len(q) THEN Len(q) - (n + 1) + 1 ELSE 0
      /\ \A j \in 1..(Len(q) - (n + 1) + 1) : p[j] = q[(n + 1) + j - 1]
  BY <1>1, <1>2, SubSeqProperties
<1> HIDE DEF p
<1>4. Len(p) = Len(q) - n /\ DOMAIN p = 1..(Len(q) - n) /\ \A j \in DOMAIN p : p[j] = q[n + j]
  <2>1. Len(p) = Len(q) - n
    <3>1. n \in Nat /\ n <= Len(q)
      BY <1>1
    <3>2. CASE n + 1 <= Len(q)
      BY <1>1, <1>3, <3>1, <3>2
    <3>3. CASE ~(n + 1 <= Len(q))
      <4>1. Len(p) = 0
        BY <1>3, <3>3
      <4>2. n = Len(q)
        <5>1. PICK m \in Nat : m = Len(q)
          BY <1>1
        <5>2. n <= m /\ ~(n + 1 <= m)
          BY <3>1, <3>3, <5>1
        <5>3. n = m
          BY <3>1, <5>2
        <5> QED
          BY <5>1, <5>3
      <4> QED
        BY <3>1, <4>1, <4>2
    <3> QED
      BY <3>2, <3>3
  <2>2. DOMAIN p = 1..(Len(q) - n)
    BY <1>3, <2>1, LenProperties
  <2>3. \A j \in 1..(Len(q) - n) : (n + 1) + j - 1 = n + j /\ j \in 1..(Len(q) - (n + 1) + 1)
    BY <1>1
  <2> QED
    BY <1>3, <2>1, <2>2, <2>3
<1>5. Once(p)
  <2> SUFFICES ASSUME NEW x \in DOMAIN p, NEW y \in DOMAIN p, p[x] = p[y]
               PROVE  x = y
    BY DEF Once
  <2>1. n + x \in DOMAIN q /\ n + y \in DOMAIN q /\ q[n + x] = q[n + y]
    BY <1>1, <1>4
  <2>2. n + x = n + y
    BY <2>1 DEF Once
  <2> QED
    BY <1>1, <1>4, <2>2
<1>6. Elements(p) \subseteq Elements(q) \ t
  <2> SUFFICES ASSUME NEW x \in DOMAIN p
               PROVE  p[x] \in Elements(q) /\ \A i \in 1..n : p[x] # q[i]
    BY DEF Elements
  <2>1. n + x \in DOMAIN q /\ p[x] = q[n + x] /\ \A i \in 1..n : i # n + x /\ i \in DOMAIN q
    BY <1>1, <1>4
  <2> QED
    BY <2>1 DEF Elements, Once
<1>7. Elements(q) \ t \subseteq Elements(p)
  <2> SUFFICES ASSUME NEW u \in DOMAIN q, \A i \in 1..n : q[u] # q[i]
               PROVE  \E x \in DOMAIN p : p[x] = q[u]
    BY DEF Elements
  <2>1. u \notin 1..n /\ u \in 1..Len(q)
    BY <1>1
  <2>2. u - n \in DOMAIN p /\ n + (u - n) = u
    BY <1>1, <1>4, <2>1
  <2> QED
    BY <1>4, <2>2
<1>8. t \subseteq Elements(q)
  BY <1>1 DEF Elements
<1> QED
  BY <1>3, <1>4, <1>5, <1>6, <1>7, <1>8 DEF p, Rest, Leading

LEMMA Appended ==
  ASSUME NEW S, NEW q \in Seq(S), NEW x \in S
  PROVE  /\ Elements(Append(q, x)) = Elements(q) \cup {x}
         /\ Once(q) /\ x \notin Elements(q) => Once(Append(q, x))
<1> PICK p : p = Append(q, x)
  OBVIOUS
<1>1. Len(q) \in Nat /\ DOMAIN q = 1..Len(q)
  BY LenProperties
<1>2. /\ DOMAIN p = 1..(Len(q) + 1) /\ p[Len(q) + 1] = x
      /\ \A i \in 1..Len(q) : p[i] = q[i]
  BY AppendProperties, LenProperties
<1>3. Elements(p) = Elements(q) \cup {x}
  <2>1. Elements(p) \subseteq Elements(q) \cup {x}
    BY <1>1, <1>2 DEF Elements
  <2>2. Elements(q) \subseteq Elements(p)
    BY <1>1, <1>2 DEF Elements
  <2>3. x \in Elements(p)
    BY <1>1, <1>2 DEF Elements
  <2> QED
    BY <2>1, <2>2, <2>3
<1>4. ASSUME Once(q), x \notin Elements(q) PROVE Once(p)
  <2>1. \A i \in DOMAIN q : q[i] # x
    BY <1>4 DEF Elements
  <2>2. \A i \in DOMAIN p : i \in DOMAIN q \/ i = Len(q) + 1
    BY <1>1, <1>2
  <2> QED
    BY <1>1, <1>2, <1>4, <2>1, <2>2 DEF Once
<1> QED
  BY <1>3, <1>4

-----------------------------------------------------------------------------
(* Places and slots.                                                       *)

LEMMA Counted ==
  /\ IsFiniteSet(Clients) /\ Cardinality(Clients) \in Nat
  /\ IsFiniteSet(Slots) /\ Cardinality(Slots) = Concurrency + Cardinality(Clients)
  /\ \A T \in SUBSET Slots : IsFiniteSet(T) /\ Cardinality(T) \in Nat
<1>1. IsFiniteSet(Clients) /\ Cardinality(Clients) \in Nat
  BY QueryAssumption, FS_Union, FS_CardinalityType DEF Clients
<1>2. Concurrency + Cardinality(Clients) \in Nat \ {0}
  BY <1>1, QueryAssumption
<1>3. IsFiniteSet(Slots) /\ Cardinality(Slots) = Concurrency + Cardinality(Clients)
  BY <1>2, FS_Interval DEF Slots
<1>4. \A T \in SUBSET Slots : IsFiniteSet(T) /\ Cardinality(T) \in Nat
  BY <1>3, FS_Subset, FS_CardinalityType
<1> QED
  BY <1>1, <1>3, <1>4

(* What the type of a scheduler says of its parts. *)
LEMMA SchedTyped ==
  ASSUME NEW s \in Sched
  PROVE  /\ s.entry \in [Slots -> Entry \cup {None}] /\ s.pending \in [Keys -> Slots \cup {None}]
         /\ s.queue \in Seq(Slots) /\ s.cache \in Seq(Kept)
         /\ \A e \in Slots : s.entry[e] # None =>
               /\ s.entry[e] \in Entry /\ s.entry[e].key \in Keys
               /\ s.entry[e].running \in BOOLEAN /\ s.entry[e].aborted \in BOOLEAN
               /\ s.entry[e].subs \in SUBSET Clients /\ s.entry[e].data \in Versions \cup {None}
         /\ \A i \in DOMAIN s.cache : s.cache[i] \in Kept
<1>1. /\ s.entry \in [Slots -> Entry \cup {None}] /\ s.pending \in [Keys -> Slots \cup {None}]
      /\ s.queue \in Seq(Slots) /\ s.cache \in Seq(Kept)
  BY DEF Sched
<1>2. \A e \in Slots : s.entry[e] # None =>
               /\ s.entry[e] \in Entry /\ s.entry[e].key \in Keys
               /\ s.entry[e].running \in BOOLEAN /\ s.entry[e].aborted \in BOOLEAN
               /\ s.entry[e].subs \in SUBSET Clients /\ s.entry[e].data \in Versions \cup {None}
  BY <1>1 DEF Entry
<1>3. \A i \in DOMAIN s.cache : s.cache[i] \in Kept
  BY <1>1, ElementOfSeq, LenProperties
<1> QED
  BY <1>1, <1>2, <1>3

(* A client that holds no entry finds a free slot: the requests that run   *)
(* are at most Concurrency, and every other entry has a subscriber of its  *)
(* own.                                                                    *)
LEMMA FreeSlot ==
  ASSUME NEW s, Shaped(s), NEW c \in Clients, Held(s, c) = {}
  PROVE  Free(s) \in Slots /\ s.entry[Free(s)] = None
<1>1. SUFFICES ASSUME \A e \in Slots : s.entry[e] # None
               PROVE  FALSE
  BY DEF Free
<1> DEFINE R == Running(s)
           W == Slots \ Running(s)
           T == Clients \ {c}
           f == [e \in W |-> CHOOSE x \in T : x \in s.entry[e].subs]
<1>2. s \in Sched /\ \A e \in Slots : EntryShape(s.entry[e])
  BY DEF Shaped
<1>3. \A e \in W : \E x \in T : x \in s.entry[e].subs
  <2> SUFFICES ASSUME NEW e \in W
               PROVE  \E x \in T : x \in s.entry[e].subs
    OBVIOUS
  <2>1. e \in Slots /\ s.entry[e] # None /\ ~s.entry[e].running
    BY <1>1 DEF Running
  <2>2. s.entry[e].subs # {} /\ s.entry[e].subs \subseteq Clients
    BY <1>2, <2>1, SchedTyped DEF EntryShape
  <2>3. c \notin s.entry[e].subs
    BY <2>1 DEF Held
  <2> QED
    BY <2>2, <2>3
<1>4. \A e \in W : f[e] \in T /\ f[e] \in s.entry[e].subs
  BY <1>3
<1>5. f \in Injection(W, T)
  <2>1. f \in [W -> T]
    BY <1>4
  <2>2. ASSUME NEW x \in W, NEW y \in W, f[x] = f[y] PROVE x = y
    <3>1. f[x] \in Clients /\ x \in Held(s, f[x]) /\ y \in Held(s, f[x])
      BY <1>1, <1>4, <2>2 DEF Held
    <3> HIDE DEF f
    <3> QED
      BY <3>1 DEF Shaped
  <2> HIDE DEF f, W, T
  <2> QED
    BY <2>1, <2>2 DEF Injection, IsInjective
<1>6. Cardinality(W) <= Cardinality(T)
  <2>1. IsFiniteSet(T)
    BY Counted, FS_RemoveElement
  <2> HIDE DEF f, W, T
  <2> QED
    BY <1>5, <2>1, FS_Injection
<1>7. Cardinality(T) = Cardinality(Clients) - 1
  BY Counted, FS_RemoveElement
<1>8. Cardinality(W) = Cardinality(Slots) - Cardinality(R)
  <2>1. Slots \cap R = R
    BY DEF Running
  <2>2. IsFiniteSet(Slots)
    BY Counted
  <2> HIDE DEF R
  <2>3. Cardinality(Slots \ R) = Cardinality(Slots) - Cardinality(Slots \cap R)
    BY <2>2, FS_Difference
  <2> QED
    BY <2>1, <2>3 DEF R
<1>9. Cardinality(R) <= Concurrency /\ Cardinality(R) \in Nat
  <2>1. R \in SUBSET Slots
    BY DEF Running
  <2> QED
    BY <2>1, Counted DEF Shaped
<1> HIDE DEF R, W, T
<1> QED
  BY <1>6, <1>7, <1>8, <1>9, Counted, QueryAssumption

-----------------------------------------------------------------------------
(* One slot changes.                                                       *)

Put(s, t, e, v) == t.entry = [s.entry EXCEPT ![e] = v]

(* t is s after the slot e was given the content v: the entry, its place   *)
(* in the queue, and its listing under its key.                            *)
Slotted(s, t, e, v) ==
  /\ t \in Sched /\ Put(s, t, e, v)
  /\ Once(t.queue)
  /\ Elements(t.queue) = IF v # None /\ ~v.running THEN Elements(s.queue) \cup {e}
                         ELSE Elements(s.queue) \ {e}
  /\ \A k \in Keys : t.pending[k] = IF v # None /\ ~v.aborted /\ v.key = k THEN e
                                    ELSE IF s.pending[k] = e THEN None ELSE s.pending[k]

(* The content fits: it has the shape of an entry, no other entry of its   *)
(* key is pending, and its subscribers hold no other entry.                *)
Fits(s, e, v) ==
  /\ v \in Entry \cup {None} /\ EntryShape(v)
  /\ v # None /\ ~v.aborted => s.pending[v.key] \in {None, e}
  /\ v # None => \A c \in v.subs : Held(s, c) \subseteq {e}

LEMMA SlotEntries ==
  ASSUME NEW s \in Sched, NEW e \in Slots, NEW v, NEW t, Put(s, t, e, v)
  PROVE  t.entry[e] = v /\ \A f \in Slots \ {e} : t.entry[f] = s.entry[f]
BY SchedTyped DEF Put

LEMMA SlotQueue ==
  ASSUME NEW s, Shaped(s), NEW e \in Slots, NEW v \in Entry \cup {None}, NEW t, Slotted(s, t, e, v)
  PROVE  QueueShape(t)
<1>1. s \in Sched /\ QueueShape(s)
  BY DEF Shaped
<1>2. t.entry[e] = v /\ \A f \in Slots \ {e} : t.entry[f] = s.entry[f]
  BY <1>1, SlotEntries DEF Slotted
<1>3. Waiting(t) = Elements(t.queue) /\ Waiting(s) = Elements(s.queue)
  BY DEF Waiting, Elements
<1>4. \A f \in Slots : f \in Waiting(s) <=> s.entry[f] # None /\ ~s.entry[f].running
  BY <1>1 DEF QueueShape
<1>5. ASSUME NEW f \in Slots
      PROVE  f \in Waiting(t) <=> t.entry[f] # None /\ ~t.entry[f].running
  <2>1. CASE f = e
    BY <1>2, <1>3, <2>1 DEF Slotted
  <2>2. CASE f # e
    BY <1>2, <1>3, <1>4, <2>2 DEF Slotted
  <2> QED
    BY <2>1, <2>2
<1> QED
  BY <1>5 DEF QueueShape, Slotted, Once

LEMMA SlotPending ==
  ASSUME NEW s, Shaped(s), NEW e \in Slots, NEW v \in Entry \cup {None}, Fits(s, e, v),
         NEW t, Slotted(s, t, e, v)
  PROVE  PendingShape(t)
<1>1. s \in Sched /\ PendingShape(s)
  BY DEF Shaped
<1>2. t.entry[e] = v /\ \A f \in Slots \ {e} : t.entry[f] = s.entry[f]
  BY <1>1, SlotEntries DEF Slotted
<1>3. \A k \in Keys : s.pending[k] \in Slots \cup {None}
  BY <1>1, SchedTyped
<1>4. None \notin Slots
  BY NoneAssumption
<1>5. ASSUME NEW k \in Keys, t.pending[k] # None
      PROVE  /\ t.entry[t.pending[k]] # None
             /\ t.entry[t.pending[k]].key = k /\ ~t.entry[t.pending[k]].aborted
  <2>1. CASE v # None /\ ~v.aborted /\ v.key = k
    BY <1>2, <2>1 DEF Slotted
  <2>2. CASE ~(v # None /\ ~v.aborted /\ v.key = k)
    <3>1. t.pending[k] = s.pending[k] /\ s.pending[k] # e
      BY <1>5, <2>2 DEF Slotted
    <3>2. s.pending[k] \in Slots \ {e}
      BY <1>3, <1>5, <3>1
    <3> QED
      BY <1>1, <1>2, <1>5, <3>1, <3>2 DEF PendingShape
  <2> QED
    BY <2>1, <2>2
<1>6. ASSUME NEW f \in Slots, t.entry[f] # None, ~t.entry[f].aborted
      PROVE  t.pending[t.entry[f].key] = f
  <2>1. CASE f = e
    <3>1. v.key \in Keys
      BY <1>2, <1>6, <2>1 DEF Entry
    <3> QED
      BY <1>2, <1>6, <2>1, <3>1 DEF Slotted
  <2>2. CASE f # e
    <3>1. t.entry[f] = s.entry[f] /\ s.entry[f].key \in Keys
      BY <1>1, <1>2, <1>6, <2>2, SchedTyped
    <3>2. s.pending[s.entry[f].key] = f
      BY <1>1, <1>6, <3>1 DEF PendingShape
    <3>3. ~(v # None /\ ~v.aborted /\ v.key = s.entry[f].key)
      BY <1>4, <2>2, <3>2 DEF Fits
    <3> QED
      BY <2>2, <3>1, <3>2, <3>3 DEF Slotted
  <2> QED
    BY <2>1, <2>2
<1> QED
  BY <1>5, <1>6 DEF PendingShape

(* Whom the entries of t have as subscribers. *)
LEMMA SlotHeld ==
  ASSUME NEW s, Shaped(s), NEW e \in Slots, NEW v \in Entry \cup {None}, Fits(s, e, v),
         NEW t, Put(s, t, e, v), NEW c \in Clients
  PROVE  /\ Held(t, c) = IF v # None /\ c \in v.subs THEN {e} ELSE Held(s, c) \ {e}
         /\ \A f, g \in Held(t, c) : f = g
<1>1. s \in Sched /\ \A f, g \in Held(s, c) : f = g
  BY DEF Shaped
<1>2. t.entry[e] = v /\ \A f \in Slots \ {e} : t.entry[f] = s.entry[f]
  BY <1>1, SlotEntries
<1>3. \A f \in Slots \ {e} : f \in Held(t, c) <=> f \in Held(s, c)
  BY <1>2 DEF Held
<1>4. e \in Held(t, c) <=> v # None /\ c \in v.subs
  BY <1>2 DEF Held
<1>5. Held(t, c) \subseteq Slots /\ Held(s, c) \subseteq Slots
  BY DEF Held
<1>6. v # None /\ c \in v.subs => Held(s, c) \subseteq {e}
  BY DEF Fits
<1>7. Held(t, c) = IF v # None /\ c \in v.subs THEN {e} ELSE Held(s, c) \ {e}
  BY <1>3, <1>4, <1>5, <1>6
<1> QED
  BY <1>1, <1>7

LEMMA SlotRunning ==
  ASSUME NEW s \in Sched, NEW e \in Slots, NEW v, NEW t, Put(s, t, e, v)
  PROVE  Running(t) = IF v # None /\ v.running THEN Running(s) \cup {e} ELSE Running(s) \ {e}
<1>1. t.entry[e] = v /\ \A f \in Slots \ {e} : t.entry[f] = s.entry[f]
  BY SlotEntries
<1> QED
  BY <1>1 DEF Running

(* A slot changed by something that fits leaves the scheduler in shape,    *)
(* when the cache and the places are.                                      *)
LEMMA SlotShape ==
  ASSUME NEW s, Shaped(s), NEW e \in Slots, NEW v \in Entry \cup {None}, Fits(s, e, v),
         NEW t, Slotted(s, t, e, v),
         Len(t.cache) <= CacheSize, CacheShape(t), Cardinality(Running(t)) <= Concurrency
  PROVE  Shaped(t)
<1>1. t \in Sched /\ Put(s, t, e, v) /\ s \in Sched
  BY DEF Slotted, Shaped
<1>2. QueueShape(t) /\ PendingShape(t)
  BY SlotQueue, SlotPending
<1>3. \A f \in Slots : EntryShape(t.entry[f])
  <2>1. t.entry[e] = v /\ \A f \in Slots \ {e} : t.entry[f] = s.entry[f]
    BY <1>1, SlotEntries
  <2>2. EntryShape(v) /\ \A f \in Slots : EntryShape(s.entry[f])
    BY DEF Fits, Shaped
  <2> QED
    BY <2>1, <2>2
<1>4. \A c \in Clients : \A f, g \in Held(t, c) : f = g
  BY <1>1, SlotHeld
<1> QED
  BY <1>1, <1>2, <1>3, <1>4 DEF Shaped

-----------------------------------------------------------------------------
(* Starting what is queued.                                                *)

Full(s) == s.queue # <<>> => Cardinality(Running(s)) = Concurrency

(* An entry differs from another at most in whether it runs. *)
Alike(p, v) ==
  /\ (p = None) <=> (v = None)
  /\ p # None => v.key = p.key /\ v.aborted = p.aborted /\ v.subs = p.subs /\ v.data = p.data
Kin(s, t) == /\ t.pending = s.pending /\ t.cache = s.cache
             /\ \A e \in Slots : Alike(s.entry[e], t.entry[e])

(* The first n of a sequence without repetitions are n. *)
LEMMA FirstOnce ==
  ASSUME NEW S, NEW q \in Seq(S), NEW n \in 0..Len(q), Once(q)
  PROVE  IsFiniteSet({q[i] : i \in 1..n}) /\ Cardinality({q[i] : i \in 1..n}) = n
<1> DEFINE T == {q[i] : i \in 1..n}
           f == [i \in 1..n |-> q[i]]
<1>1. Len(q) \in Nat /\ DOMAIN q = 1..Len(q) /\ n \in Nat
  BY LenProperties
<1>2. \A i \in 1..n : i \in DOMAIN q
  BY <1>1
<1>3. f \in Injection(1..n, T)
  BY <1>2 DEF Injection, IsInjective, Once
<1>4. f \in Surjection(1..n, T)
  BY DEF Surjection
<1>5. ExistsBijection(1..n, T)
  BY <1>3, <1>4 DEF ExistsBijection, Bijection
<1> HIDE DEF T
<1>6. IsFiniteSet(T) /\ Cardinality(T) = n
  BY <1>1, <1>5, FS_CountingElements, FS_NatBijection
<1> QED
  BY <1>6 DEF T

(* How many start: as many as there is room for. *)
Room(s) == Concurrency - Cardinality(Running(s))
Take(s) == IF Len(s.queue) < Room(s) THEN Len(s.queue) ELSE Room(s)
First(s) == {s.queue[i] : i \in 1 .. Take(s)}

LEMMA TakeRange ==
  ASSUME NEW s, Shaped(s)
  PROVE  /\ Cardinality(Running(s)) \in Nat /\ Len(s.queue) \in Nat
         /\ Take(s) \in 0..Len(s.queue) /\ Cardinality(Running(s)) + Take(s) <= Concurrency
         /\ Take(s) # Len(s.queue) => Cardinality(Running(s)) + Take(s) = Concurrency
<1>1. Running(s) \in SUBSET Slots
  BY DEF Running
<1>2. Cardinality(Running(s)) \in Nat /\ Cardinality(Running(s)) <= Concurrency
  BY <1>1, Counted DEF Shaped
<1>3. Len(s.queue) \in Nat
  BY SchedTyped, LenProperties DEF Shaped
<1>4. PICK r \in Nat : r = Cardinality(Running(s))
  BY <1>2
<1>5. PICK m \in Nat : m = Len(s.queue)
  BY <1>3
<1>6. Concurrency \in Nat
  BY QueryAssumption
<1> QED
  BY <1>2, <1>4, <1>5, <1>6 DEF Take, Room

LEMMA DrainParts ==
  ASSUME NEW s, Shaped(s)
  PROVE  /\ Drain(s) \in Sched
         /\ Drain(s).pending = s.pending /\ Drain(s).cache = s.cache
         /\ Drain(s).queue = SubSeq(s.queue, Take(s) + 1, Len(s.queue))
         /\ \A e \in Slots : Drain(s).entry[e] =
               IF e \in First(s) THEN [s.entry[e] EXCEPT !.running = TRUE] ELSE s.entry[e]
<1> DEFINE q == SubSeq(s.queue, Take(s) + 1, Len(s.queue))
           f == [e \in Slots |-> IF e \in First(s) THEN [s.entry[e] EXCEPT !.running = TRUE]
                                 ELSE s.entry[e]]
<1>1. s \in Sched /\ QueueShape(s) /\ Once(s.queue) /\ s.queue \in Seq(Slots)
  BY SchedTyped DEF Shaped, QueueShape, Once
<1>2. Drain(s) = [s EXCEPT !.queue = q, !.entry = f]
  BY DEF Drain, Take, Room, First
<1>3. q \in Seq(Slots)
  BY <1>1, TakeRange, TakenOff DEF Rest
<1>4. \A e \in First(s) : s.entry[e] # None
  <2>1. First(s) \subseteq Elements(s.queue)
    BY <1>1, TakeRange, TakenOff DEF First, Leading
  <2>2. Elements(s.queue) = Waiting(s) /\ Elements(s.queue) \subseteq Slots
    BY <1>1, ElementOfSeq, LenProperties DEF Elements, Waiting
  <2> QED
    BY <1>1, <2>1, <2>2 DEF QueueShape
<1>5. f \in [Slots -> Entry \cup {None}]
  <2> SUFFICES ASSUME NEW e \in Slots PROVE f[e] \in Entry \cup {None}
    OBVIOUS
  <2>1. CASE e \in First(s)
    <3>1. s.entry[e] \in Entry
      BY <1>1, <1>4, <2>1, SchedTyped
    <3>2. [s.entry[e] EXCEPT !.running = TRUE] \in Entry
      BY <3>1 DEF Entry
    <3> QED
      BY <2>1, <3>2
  <2>2. CASE e \notin First(s)
    BY <1>1, <2>2, SchedTyped
  <2> QED
    BY <2>1, <2>2
<1> HIDE DEF q, f
<1>6. [s EXCEPT !.queue = q, !.entry = f] \in Sched
  BY <1>1, <1>3, <1>5 DEF Sched
<1>7. /\ [s EXCEPT !.queue = q, !.entry = f].pending = s.pending
      /\ [s EXCEPT !.queue = q, !.entry = f].cache = s.cache
      /\ [s EXCEPT !.queue = q, !.entry = f].queue = q
      /\ [s EXCEPT !.queue = q, !.entry = f].entry = f
  BY <1>1 DEF Sched
<1>8. \A e \in Slots : f[e] = IF e \in First(s) THEN [s.entry[e] EXCEPT !.running = TRUE] ELSE s.entry[e]
  BY DEF f
<1> QED
  BY <1>2, <1>6, <1>7, <1>8 DEF q

LEMMA DrainQueue ==
  ASSUME NEW s, Shaped(s)
  PROVE  /\ Drain(s).queue \in Seq(Slots) /\ Len(Drain(s).queue) = Len(s.queue) - Take(s)
         /\ First(s) \subseteq Elements(s.queue)
         /\ Once(Drain(s).queue) /\ Elements(Drain(s).queue) = Elements(s.queue) \ First(s)
<1>1. s.queue \in Seq(Slots) /\ Once(s.queue)
  BY SchedTyped DEF Shaped, QueueShape, Once
<1>2. First(s) = Leading(s.queue, Take(s)) /\ Drain(s).queue = Rest(s.queue, Take(s))
  BY DrainParts DEF First, Leading, Rest
<1>3. PICK n \in 0..Len(s.queue) : n = Take(s)
  BY TakeRange
<1>4. /\ Rest(s.queue, n) \in Seq(Slots) /\ Len(Rest(s.queue, n)) = Len(s.queue) - n
      /\ Once(Rest(s.queue, n))
      /\ Elements(Rest(s.queue, n)) = Elements(s.queue) \ Leading(s.queue, n)
      /\ Leading(s.queue, n) \subseteq Elements(s.queue)
  BY <1>1, TakenOff
<1> QED
  BY <1>2, <1>3, <1>4

(* What starts was in the queue, and what is left of the queue does not. *)
LEMMA DrainEntries ==
  ASSUME NEW s, Shaped(s)
  PROVE  /\ First(s) \subseteq Slots /\ First(s) \cap Running(s) = {}
         /\ \A e \in First(s) : s.entry[e] # None /\ Drain(s).entry[e] # None /\ Drain(s).entry[e].running
         /\ \A e \in Slots \ First(s) : Drain(s).entry[e] = s.entry[e]
         /\ \A e \in Slots : Alike(s.entry[e], Drain(s).entry[e])
         /\ Once(Drain(s).queue) /\ Elements(Drain(s).queue) = Elements(s.queue) \ First(s)
<1>1. s \in Sched /\ QueueShape(s) /\ Once(s.queue) /\ s.queue \in Seq(Slots)
  BY SchedTyped DEF Shaped, QueueShape, Once
<1>2. /\ First(s) \subseteq Elements(s.queue)
      /\ Once(Drain(s).queue) /\ Elements(Drain(s).queue) = Elements(s.queue) \ First(s)
  BY DrainQueue
<1>3. First(s) \subseteq Slots /\ First(s) \subseteq Waiting(s)
  BY <1>1, <1>2, ElementOfSeq, LenProperties DEF Elements, Waiting
<1>4. \A e \in First(s) : s.entry[e] # None /\ ~s.entry[e].running
  BY <1>1, <1>3 DEF QueueShape
<1>5. First(s) \cap Running(s) = {}
  BY <1>4 DEF Running
<1>6. ASSUME NEW e \in First(s)
      PROVE  /\ Drain(s).entry[e] # None /\ Drain(s).entry[e].running
             /\ Alike(s.entry[e], Drain(s).entry[e])
  <2>1. s.entry[e] \in Entry
    BY <1>1, <1>3, <1>4, SchedTyped
  <2>2. Drain(s).entry[e] = [s.entry[e] EXCEPT !.running = TRUE]
    BY <1>3, DrainParts
  <2> PICK p \in Entry : p = s.entry[e]
    BY <2>1
  <2>3. [p EXCEPT !.running = TRUE] \in Entry
    BY DEF Entry
  <2>4. /\ [p EXCEPT !.running = TRUE].running = TRUE
        /\ [p EXCEPT !.running = TRUE].key = p.key
        /\ [p EXCEPT !.running = TRUE].aborted = p.aborted
        /\ [p EXCEPT !.running = TRUE].subs = p.subs
        /\ [p EXCEPT !.running = TRUE].data = p.data
    BY DEF Entry
  <2> QED
    BY <2>2, <2>3, <2>4, NoneAssumption DEF Alike
<1>7. ASSUME NEW e \in Slots, e \notin First(s)
      PROVE  Drain(s).entry[e] = s.entry[e] /\ Alike(s.entry[e], Drain(s).entry[e])
  BY <1>7, DrainParts DEF Alike
<1> QED
  BY <1>2, <1>3, <1>4, <1>5, <1>6, <1>7

LEMMA DrainRunning ==
  ASSUME NEW s, Shaped(s)
  PROVE  /\ Cardinality(Running(Drain(s))) <= Concurrency
         /\ Full(Drain(s))
<1>1. s \in Sched /\ Once(s.queue) /\ s.queue \in Seq(Slots)
  BY SchedTyped DEF Shaped, QueueShape, Once
<1>2. Running(Drain(s)) = Running(s) \cup First(s)
  <2>1. \A e \in Slots : e \in Running(Drain(s)) <=> e \in Running(s) \/ e \in First(s)
    BY DrainEntries DEF Running
  <2>2. Running(Drain(s)) \subseteq Slots /\ Running(s) \subseteq Slots
    BY DEF Running
  <2> QED
    BY <2>1, <2>2, DrainEntries
<1>3. Cardinality(First(s)) = Take(s) /\ IsFiniteSet(First(s))
  BY <1>1, TakeRange, FirstOnce DEF First
<1>4. IsFiniteSet(Running(s))
  <2>1. Running(s) \in SUBSET Slots
    BY DEF Running
  <2> QED
    BY <2>1, Counted
<1>5. Cardinality(Running(s) \cup First(s))
         = Cardinality(Running(s)) + Cardinality(First(s)) - Cardinality(Running(s) \cap First(s))
  BY <1>3, <1>4, FS_Union
<1>6. Cardinality(Running(s) \cap First(s)) = 0
  <2>1. Running(s) \cap First(s) = {}
    BY DrainEntries
  <2> QED
    BY <2>1, FS_EmptySet
<1>7. Cardinality(Running(Drain(s))) = Cardinality(Running(s)) + Take(s)
  BY <1>2, <1>3, <1>5, <1>6, TakeRange
<1>8. ASSUME Drain(s).queue # <<>> PROVE Take(s) # Len(s.queue)
  <2>1. Len(Drain(s).queue) = Len(s.queue) - Take(s) /\ Drain(s).queue \in Seq(Slots)
    BY DrainQueue
  <2>2. Len(Drain(s).queue) # 0
    BY <1>8, <2>1, EmptySeq
  <2> QED
    BY <2>1, <2>2, TakeRange
<1> QED
  BY <1>7, <1>8, TakeRange DEF Full

LEMMA KinHeld ==
  ASSUME NEW s, NEW t, Kin(s, t)
  PROVE  \A c \in Clients : Held(t, c) = Held(s, c)
BY DEF Kin, Alike, Held

(* Draining the queue keeps the scheduler in shape and fills its places. *)
LEMMA DrainShape ==
  ASSUME NEW s, Shaped(s)
  PROVE  Shaped(Drain(s)) /\ Full(Drain(s)) /\ Kin(s, Drain(s))
<1> PICK t : t = Drain(s)
  OBVIOUS
<1>1. t \in Sched /\ t.pending = s.pending /\ t.cache = s.cache
  BY DrainParts
<1>2. \A e \in Slots : Alike(s.entry[e], t.entry[e])
  BY DrainEntries
<1>3. Kin(s, t)
  BY <1>1, <1>2 DEF Kin
<1>4. s \in Sched /\ Len(s.cache) <= CacheSize /\ QueueShape(s) /\ PendingShape(s) /\ CacheShape(s)
      /\ (\A e \in Slots : EntryShape(s.entry[e])) /\ \A c \in Clients : \A e, f \in Held(s, c) : e = f
  BY DEF Shaped
<1>5. QueueShape(t)
  <2>1. Once(t.queue) /\ Waiting(t) = Waiting(s) \ First(s)
    BY DrainEntries DEF Waiting, Elements
  <2>2. ASSUME NEW e \in Slots
        PROVE  e \in Waiting(t) <=> t.entry[e] # None /\ ~t.entry[e].running
    <3>1. CASE e \in First(s)
      BY <2>1, <3>1, DrainEntries
    <3>2. CASE e \notin First(s)
      BY <1>4, <2>1, <3>2, DrainEntries DEF QueueShape
    <3> QED
      BY <3>1, <3>2
  <2> QED
    BY <2>1, <2>2 DEF QueueShape, Once
<1>6. PendingShape(t)
  <2>1. ASSUME NEW k \in Keys, t.pending[k] # None
        PROVE  /\ t.entry[t.pending[k]] # None
               /\ t.entry[t.pending[k]].key = k /\ ~t.entry[t.pending[k]].aborted
    <3>1. s.pending[k] # None /\ s.pending[k] \in Slots /\ t.pending[k] = s.pending[k]
      BY <1>1, <1>4, <2>1, SchedTyped
    <3> PICK e \in Slots : e = s.pending[k]
      BY <3>1
    <3>2. s.entry[e] # None /\ s.entry[e].key = k /\ ~s.entry[e].aborted
      BY <1>4, <3>1 DEF PendingShape
    <3> QED
      BY <1>2, <3>1, <3>2 DEF Alike
  <2>2. ASSUME NEW e \in Slots, t.entry[e] # None, ~t.entry[e].aborted
        PROVE  t.pending[t.entry[e].key] = e
    <3>1. s.entry[e] # None /\ ~s.entry[e].aborted /\ t.entry[e].key = s.entry[e].key
      BY <1>2, <2>2 DEF Alike
    <3> QED
      BY <1>1, <1>4, <3>1 DEF PendingShape
  <2> QED
    BY <2>1, <2>2 DEF PendingShape
<1>7. CacheShape(t) /\ Len(t.cache) <= CacheSize
  BY <1>1, <1>4 DEF CacheShape
<1>8. \A e \in Slots : EntryShape(t.entry[e])
  <2> SUFFICES ASSUME NEW e \in Slots PROVE EntryShape(t.entry[e])
    OBVIOUS
  <2>1. CASE e \in First(s)
    BY <1>2, <1>4, <2>1, DrainEntries DEF Alike, EntryShape
  <2>2. CASE e \notin First(s)
    BY <1>4, <2>2, DrainEntries
  <2> QED
    BY <2>1, <2>2
<1>9. \A c \in Clients : \A e, f \in Held(t, c) : e = f
  BY <1>3, <1>4, KinHeld
<1>10. Cardinality(Running(t)) <= Concurrency /\ Full(t)
  BY DrainRunning
<1> QED
  BY <1>1, <1>3, <1>5, <1>6, <1>7, <1>8, <1>9, <1>10 DEF Shaped

-----------------------------------------------------------------------------
(* Leaving.                                                                *)

(* t holds no answer that s does not. *)
Fewer(s, t) ==
  /\ \A i \in DOMAIN t.cache : \E j \in DOMAIN s.cache :
        t.cache[i].key = s.cache[j].key /\ t.cache[i].data = s.cache[j].data
  /\ \A e \in Slots : t.entry[e] # None /\ t.entry[e].data # None =>
        /\ s.entry[e] # None /\ s.entry[e].data = t.entry[e].data /\ s.entry[e].key = t.entry[e].key
        /\ ~t.entry[e].aborted => ~s.entry[e].aborted

(* The subscriptions of a client are the same. *)
Same(s, t, c) == /\ Held(t, c) = Held(s, c)
                 /\ \A e \in Held(s, c) : t.entry[e].key = s.entry[e].key

LEMMA FewerFewer ==
  ASSUME NEW r, NEW s, NEW t, Fewer(r, s), Fewer(s, t)
  PROVE  Fewer(r, t)
<1>1. ASSUME NEW i \in DOMAIN t.cache
      PROVE  \E j \in DOMAIN r.cache :
                t.cache[i].key = r.cache[j].key /\ t.cache[i].data = r.cache[j].data
  <2>1. PICK j \in DOMAIN s.cache : t.cache[i].key = s.cache[j].key /\ t.cache[i].data = s.cache[j].data
    BY DEF Fewer
  <2>2. PICK l \in DOMAIN r.cache : s.cache[j].key = r.cache[l].key /\ s.cache[j].data = r.cache[l].data
    BY DEF Fewer
  <2> QED
    BY <2>1, <2>2
<1>2. ASSUME NEW e \in Slots, t.entry[e] # None, t.entry[e].data # None
      PROVE  /\ r.entry[e] # None /\ r.entry[e].data = t.entry[e].data /\ r.entry[e].key = t.entry[e].key
             /\ ~t.entry[e].aborted => ~r.entry[e].aborted
  BY <1>2 DEF Fewer
<1> QED
  BY <1>1, <1>2 DEF Fewer

LEMMA KinFewer ==
  ASSUME NEW s, NEW t, Kin(s, t)
  PROVE  Fewer(s, t) /\ \A c \in Clients : Same(s, t, c)
<1>1. \A c \in Clients : Same(s, t, c)
  BY KinHeld DEF Same, Kin, Alike, Held
<1> QED
  BY <1>1 DEF Kin, Alike, Fewer

LEMMA SlotFewer ==
  ASSUME NEW s \in Sched, NEW e \in Slots, NEW v, NEW t, Put(s, t, e, v), t.cache = s.cache,
         v # None /\ v.data # None => /\ s.entry[e] # None /\ s.entry[e].data = v.data
                                      /\ s.entry[e].key = v.key
                                      /\ ~v.aborted => ~s.entry[e].aborted
  PROVE  Fewer(s, t)
<1>1. t.entry[e] = v /\ \A f \in Slots \ {e} : t.entry[f] = s.entry[f]
  BY SlotEntries
<1> QED
  BY <1>1 DEF Fewer

LEMMA SlotSame ==
  ASSUME NEW s, Shaped(s), NEW e \in Slots, NEW v \in Entry \cup {None}, Fits(s, e, v),
         NEW t, Put(s, t, e, v), NEW d \in Clients, NEW p, p = s.entry[e],
         (v # None /\ d \in v.subs) <=> (p # None /\ d \in p.subs),
         v # None /\ p # None => v.key = p.key
  PROVE  Same(s, t, d)
<1>1. s \in Sched
  BY DEF Shaped
<1>2. t.entry[e] = v /\ \A f \in Slots \ {e} : t.entry[f] = s.entry[f]
  BY <1>1, SlotEntries
<1>3. Held(t, d) = Held(s, d)
  BY <1>2 DEF Held
<1>4. \A f \in Held(s, d) : t.entry[f].key = s.entry[f].key
  BY <1>2 DEF Held
<1> QED
  BY <1>3, <1>4 DEF Same

LEMMA UnqueuedParts ==
  ASSUME NEW s, Shaped(s), NEW e \in Slots
  PROVE  /\ Unqueued(s, e) \in Seq(Slots) /\ Once(Unqueued(s, e))
         /\ Elements(Unqueued(s, e)) = Elements(s.queue) \ {e}
<1>1. s.queue \in Seq(Slots) /\ Once(s.queue)
  BY SchedTyped DEF Shaped, QueueShape, Once
<1>2. CASE e \in Waiting(s)
  <2>1. PICK i \in DOMAIN s.queue : i = CHOOSE j \in DOMAIN s.queue : s.queue[j] = e
    BY <1>2 DEF Waiting
  <2>2. s.queue[i] = e /\ Unqueued(s, e) = RemoveAt(s.queue, i)
    BY <1>2, <2>1 DEF Waiting, Unqueued
  <2> QED
    BY <1>1, <2>2, RemovedAt, RemovedOnce
<1>3. CASE e \notin Waiting(s)
  BY <1>1, <1>3 DEF Waiting, Unqueued, Elements
<1> QED
  BY <1>2, <1>3

(* What becomes of an entry that nobody waits for, and of one that others do. *)
Dropped(p)       == IF p.running THEN [p EXCEPT !.subs = {}, !.aborted = TRUE] ELSE None
WithSubs(p, sub) == [p EXCEPT !.subs = sub]

LEMMA DroppedParts ==
  ASSUME NEW p \in Entry
  PROVE  /\ Dropped(p) \in Entry \cup {None}
         /\ p.running => /\ Dropped(p) # None /\ Dropped(p).running
                         /\ Dropped(p).subs = {} /\ Dropped(p).aborted
                         /\ Dropped(p).key = p.key /\ Dropped(p).data = p.data
         /\ ~p.running => Dropped(p) = None
<1>1. CASE p.running
  <2>1. Dropped(p) = [p EXCEPT !.subs = {}, !.aborted = TRUE]
    BY <1>1 DEF Dropped
  <2>2. Dropped(p) \in Entry
    BY <2>1 DEF Entry
  <2>3. /\ Dropped(p).running = p.running /\ Dropped(p).subs = {} /\ Dropped(p).aborted = TRUE
        /\ Dropped(p).key = p.key /\ Dropped(p).data = p.data
    BY <2>1 DEF Entry
  <2> QED
    BY <1>1, <2>2, <2>3, NoneAssumption
<1>2. CASE ~p.running
  BY <1>2 DEF Dropped
<1> QED
  BY <1>1, <1>2

LEMMA WithSubsParts ==
  ASSUME NEW p \in Entry, NEW sub \in SUBSET Clients
  PROVE  /\ WithSubs(p, sub) \in Entry /\ WithSubs(p, sub) # None
         /\ WithSubs(p, sub).running = p.running /\ WithSubs(p, sub).subs = sub
         /\ WithSubs(p, sub).aborted = p.aborted
         /\ WithSubs(p, sub).key = p.key /\ WithSubs(p, sub).data = p.data
<1>1. WithSubs(p, sub) \in Entry
  BY DEF Entry, WithSubs
<1>2. /\ WithSubs(p, sub).running = p.running /\ WithSubs(p, sub).subs = sub
      /\ WithSubs(p, sub).aborted = p.aborted
      /\ WithSubs(p, sub).key = p.key /\ WithSubs(p, sub).data = p.data
  BY DEF Entry, WithSubs
<1> QED
  BY <1>1, <1>2, NoneAssumption

LEMMA UnlistedParts ==
  ASSUME NEW s \in Sched, NEW e \in Slots
  PROVE  /\ Unlisted(s, e) \in [Keys -> Slots \cup {None}]
         /\ \A k \in Keys : Unlisted(s, e)[k] = IF s.pending[k] = e THEN None ELSE s.pending[k]
BY SchedTyped DEF Unlisted

LEMMA AbandonedParts ==
  ASSUME NEW s, Shaped(s), NEW e \in Slots, s.entry[e] # None
  PROVE  /\ Slotted(s, Abandoned(s, e), e, Dropped(s.entry[e]))
         /\ Abandoned(s, e).cache = s.cache
         /\ Abandoned(s, e).pending = Unlisted(s, e)
<1> PICK v : v = Dropped(s.entry[e])
  OBVIOUS
<1> PICK p : p = Unlisted(s, e)
  OBVIOUS
<1> PICK q : q = Unqueued(s, e)
  OBVIOUS
<1> PICK f : f = [s.entry EXCEPT ![e] = v]
  OBVIOUS
<1>1. s \in Sched /\ s.entry[e] \in Entry
  BY SchedTyped DEF Shaped
<1>2. /\ v \in Entry \cup {None} /\ s.entry[e].running \in BOOLEAN
      /\ v # None => v.aborted /\ v.running
  BY <1>1, DroppedParts, SchedTyped
<1>3. p \in [Keys -> Slots \cup {None}]
  BY <1>1, UnlistedParts
<1>4. q \in Seq(Slots) /\ Once(q) /\ Elements(q) = Elements(s.queue) \ {e}
  BY UnqueuedParts
<1>5. f \in [Slots -> Entry \cup {None}]
  BY <1>1, <1>2, SchedTyped
<1>6. Abandoned(s, e) = [s EXCEPT !.entry = f, !.pending = p, !.queue = q]
  BY <1>1 DEF Abandoned, Dropped, Sched
<1> PICK t : t = [s EXCEPT !.entry = f, !.pending = p, !.queue = q]
  OBVIOUS
<1>7. t \in Sched
  BY <1>1, <1>3, <1>4, <1>5 DEF Sched
<1>8. t.entry = f /\ t.pending = p /\ t.queue = q /\ t.cache = s.cache
  BY <1>1 DEF Sched
<1>9. Slotted(s, t, e, v)
  <2>1. Put(s, t, e, v)
    BY <1>8 DEF Put
  <2>2. \A k \in Keys : t.pending[k] = IF s.pending[k] = e THEN None ELSE s.pending[k]
    BY <1>1, <1>8, UnlistedParts
  <2> QED
    BY <1>2, <1>4, <1>7, <1>8, <2>1, <2>2 DEF Slotted
<1> QED
  BY <1>6, <1>8, <1>9

(* What a scheduler keeps when clients in C are not concerned. *)
Undisturbed(s, t, C) == /\ Shaped(t) /\ Full(t) /\ Fewer(s, t)
                  /\ \A d \in C : Same(s, t, d)

LEMMA SlotFull ==
  ASSUME NEW s, Shaped(s), Full(s), NEW e \in Slots, NEW v \in Entry \cup {None}, NEW t,
         Slotted(s, t, e, v), s.entry[e] # None,
         v = None => ~s.entry[e].running,
         v # None => v.running = s.entry[e].running
  PROVE  Running(t) = Running(s) /\ Full(t)
<1>1. s \in Sched /\ t \in Sched /\ Put(s, t, e, v)
  BY DEF Shaped, Slotted
<1>2. Running(t) = IF v # None /\ v.running THEN Running(s) \cup {e} ELSE Running(s) \ {e}
  BY <1>1, SlotRunning
<1>3. e \in Running(s) <=> s.entry[e].running
  BY DEF Running
<1>4. Running(t) = Running(s)
  BY <1>2, <1>3
<1>5. ASSUME t.queue # <<>> PROVE s.queue # <<>>
  <2>1. t.queue \in Seq(Slots) /\ s.queue \in Seq(Slots)
    BY <1>1, SchedTyped
  <2>2. 1 \in DOMAIN t.queue
    BY <1>5, <2>1, EmptySeq, LenProperties
  <2>3. \E f \in Slots : f \in Elements(s.queue)
    <3>1. t.queue[1] \in Elements(t.queue) /\ t.queue[1] \in Slots
      BY <2>1, <2>2, ElementOfSeq, LenProperties DEF Elements
    <3>2. CASE t.queue[1] # e
      BY <3>1, <3>2 DEF Slotted
    <3>3. CASE t.queue[1] = e
      <4>1. v # None /\ ~v.running
        BY <3>1, <3>3 DEF Slotted
      <4>2. e \in Waiting(s)
        BY <4>1 DEF Shaped, QueueShape
      <4> QED
        BY <4>2 DEF Waiting, Elements
    <3> QED
      BY <3>2, <3>3
  <2> QED
    BY <2>3 DEF Elements
<1> QED
  BY <1>4, <1>5 DEF Full

(* One subscriber of several leaves. *)
Left(s, c, e) == [s EXCEPT !.entry[e] = [s.entry[e] EXCEPT !.subs = s.entry[e].subs \ {c}]]

LEMMA LeaveOthers ==
  ASSUME NEW s, Shaped(s), Full(s), NEW c \in Clients, NEW e \in Held(s, c),
         s.entry[e].subs \ {c} # {},
         NEW t, t = Left(s, c, e)
  PROVE  Undisturbed(s, t, Clients \ {c}) /\ Held(t, c) = {} /\ t.cache = s.cache
<1> PICK p : p = s.entry[e]
  OBVIOUS
<1> PICK sub : sub = p.subs \ {c}
  OBVIOUS
<1> PICK v : v = WithSubs(p, sub)
  OBVIOUS
<1> PICK f : f = [s.entry EXCEPT ![e] = v]
  OBVIOUS
<1>1. s \in Sched /\ e \in Slots /\ p # None /\ c \in p.subs /\ p \in Entry /\ sub \in SUBSET Clients
  BY SchedTyped DEF Shaped, Held
<1>2. /\ v \in Entry /\ v # None /\ v.running = p.running /\ v.subs = sub
      /\ v.aborted = p.aborted /\ v.key = p.key /\ v.data = p.data
  BY <1>1, WithSubsParts
<1>3. f \in [Slots -> Entry \cup {None}]
  BY <1>1, <1>2, SchedTyped
<1>4. t = [s EXCEPT !.entry = f]
  BY <1>1 DEF Left, WithSubs, Sched
<1>5. t \in Sched
  BY <1>1, <1>3, <1>4 DEF Sched
<1>6. t.entry = f /\ t.pending = s.pending /\ t.queue = s.queue /\ t.cache = s.cache
  BY <1>1, <1>4 DEF Sched
<1>7. ~p.aborted /\ EntryShape(p) /\ p.key \in Keys
  BY <1>1, SchedTyped DEF Shaped, EntryShape
<1>8. s.pending[p.key] = e
  BY <1>1, <1>7 DEF Shaped, PendingShape
<1>9. Put(s, t, e, v)
  BY <1>6 DEF Put
<1>10. Slotted(s, t, e, v)
  <2>1. Once(t.queue)
    BY <1>6 DEF Shaped, QueueShape, Once
  <2>2. e \in Elements(s.queue) <=> ~p.running
    BY <1>1 DEF Shaped, QueueShape, Waiting, Elements
  <2>3. Elements(t.queue) = IF v # None /\ ~v.running THEN Elements(s.queue) \cup {e}
                            ELSE Elements(s.queue) \ {e}
    BY <1>2, <1>6, <2>2
  <2>4. ASSUME NEW k \in Keys
        PROVE  t.pending[k] = IF v # None /\ ~v.aborted /\ v.key = k THEN e
                              ELSE IF s.pending[k] = e THEN None ELSE s.pending[k]
    <3>1. s.pending[k] = e => k = p.key
      BY <1>1, NoneAssumption DEF Shaped, PendingShape
    <3> QED
      BY <1>2, <1>6, <1>7, <1>8, <3>1
  <2> QED
    BY <1>5, <1>9, <2>1, <2>3, <2>4 DEF Slotted
<1>11. Fits(s, e, v)
  <2>1. EntryShape(v)
    BY <1>1, <1>2, <1>7 DEF EntryShape
  <2>2. ASSUME NEW d \in v.subs PROVE Held(s, d) \subseteq {e}
    <3>1. d \in Clients /\ e \in Held(s, d)
      BY <1>1, <1>2 DEF Held
    <3> QED
      BY <3>1 DEF Shaped
  <2> QED
    BY <1>2, <1>8, <2>1, <2>2 DEF Fits
<1>12. Running(t) = Running(s) /\ Full(t)
  BY <1>1, <1>2, <1>10, SlotFull
<1>13. Shaped(t)
  <2>1. CacheShape(t) /\ Len(t.cache) <= CacheSize
    BY <1>6 DEF Shaped, CacheShape
  <2>2. Cardinality(Running(t)) <= Concurrency
    BY <1>12 DEF Shaped
  <2> QED
    BY <1>1, <1>2, <1>10, <1>11, <2>1, <2>2, SlotShape
<1>14. Fewer(s, t)
  BY <1>1, <1>2, <1>6, <1>9, SlotFewer
<1>15. ASSUME NEW d \in Clients \ {c} PROVE Same(s, t, d)
  BY <1>1, <1>2, <1>9, <1>11, SlotSame
<1>16. Held(t, c) = {}
  <2>1. t.entry[e] = v /\ \A g \in Slots \ {e} : t.entry[g] = s.entry[g]
    BY <1>1, <1>6, SchedTyped
  <2>2. c \notin v.subs
    BY <1>2
  <2>3. \A g \in Held(s, c) : g = e
    BY DEF Shaped
  <2> QED
    BY <2>1, <2>2, <2>3 DEF Held
<1> QED
  BY <1>6, <1>12, <1>13, <1>14, <1>15, <1>16 DEF Undisturbed

(* The last subscriber leaves. *)
LEMMA LeaveLast ==
  ASSUME NEW s, Shaped(s), Full(s), NEW c \in Clients, NEW e \in Held(s, c),
         s.entry[e].subs \ {c} = {}
  PROVE  /\ Undisturbed(s, Abandoned(s, e), Clients \ {c}) /\ Held(Abandoned(s, e), c) = {}
         /\ Abandoned(s, e).cache = s.cache
<1> PICK t : t = Abandoned(s, e)
  OBVIOUS
<1> PICK p : p = s.entry[e]
  OBVIOUS
<1> PICK v : v = Dropped(p)
  OBVIOUS
<1>1. s \in Sched /\ e \in Slots /\ p # None /\ p.subs = {c} /\ p \in Entry /\ p.running \in BOOLEAN
  BY SchedTyped DEF Shaped, Held
<1>2. /\ v \in Entry \cup {None}
      /\ v = None <=> ~p.running
      /\ v # None => v.running /\ v.subs = {} /\ v.aborted /\ v.key = p.key /\ v.data = p.data
  BY <1>1, DroppedParts
<1>3. Slotted(s, t, e, v) /\ t.cache = s.cache /\ t.pending = Unlisted(s, e)
  BY <1>1, AbandonedParts
<1>4. Put(s, t, e, v) /\ t \in Sched
  BY <1>3 DEF Slotted
<1>5. EntryShape(p) /\ ~p.aborted
  BY <1>1 DEF Shaped, EntryShape
<1>6. Fits(s, e, v)
  BY <1>2 DEF Fits, EntryShape
<1>7. Running(t) = Running(s) /\ Full(t)
  <2>1. v # None => v.running = p.running
    <3>1. v # None => v.running \in BOOLEAN
      BY <1>2 DEF Entry
    <3> QED
      BY <1>1, <1>2, <3>1
  <2>2. v = None => ~p.running
    BY <1>2
  <2> QED
    BY <1>1, <1>2, <1>3, <2>1, <2>2, SlotFull
<1>8. Shaped(t)
  <2>1. CacheShape(t) /\ Len(t.cache) <= CacheSize
    <3>1. \A i \in DOMAIN s.cache : s.cache[i].key \in Keys
      BY <1>1, SchedTyped DEF Kept
    <3>2. \A k \in Keys : s.pending[k] = None => t.pending[k] = None
      BY <1>1, <1>3, UnlistedParts
    <3> QED
      BY <1>3, <3>1, <3>2 DEF Shaped, CacheShape
  <2>2. Cardinality(Running(t)) <= Concurrency
    BY <1>7 DEF Shaped
  <2> QED
    BY <1>1, <1>2, <1>3, <1>6, <2>1, <2>2, SlotShape
<1>9. Fewer(s, t)
  BY <1>1, <1>2, <1>3, <1>4, SlotFewer
<1>10. ASSUME NEW d \in Clients \ {c} PROVE Same(s, t, d)
  BY <1>1, <1>2, <1>4, <1>6, SlotSame
<1>11. Held(t, c) = {}
  <2>1. Held(t, c) = Held(s, c) \ {e}
    BY <1>1, <1>2, <1>4, <1>6, SlotHeld
  <2> QED
    BY <2>1 DEF Shaped
<1> QED
  BY <1>3, <1>7, <1>8, <1>9, <1>10, <1>11 DEF Undisturbed

(* A subscriber that leaves takes nothing from the others: they keep their *)
(* entries, the scheduler its shape and its places.                        *)
LEMMA DetachShape ==
  ASSUME NEW s, Shaped(s), Full(s), NEW c \in Clients
  PROVE  /\ Undisturbed(s, Detach(s, c), Clients \ {c}) /\ Held(Detach(s, c), c) = {}
         /\ Detach(s, c).cache = s.cache
<1>1. CASE Held(s, c) = {}
  <2>1. Detach(s, c) = s
    BY <1>1 DEF Detach
  <2>2. Fewer(s, s) /\ \A d \in Clients : Same(s, s, d)
    BY DEF Fewer, Same
  <2> QED
    BY <1>1, <2>1, <2>2 DEF Undisturbed
<1>2. CASE Held(s, c) # {}
  <2>1. PICK e \in Held(s, c) : e = CHOOSE x \in Held(s, c) : TRUE
    BY <1>2
  <2>2. CASE s.entry[e].subs \ {c} # {}
    <3>1. Detach(s, c) = Left(s, c, e)
      BY <1>2, <2>1, <2>2 DEF Detach, Left
    <3> QED
      BY <2>2, <3>1, LeaveOthers
  <2>3. CASE s.entry[e].subs \ {c} = {}
    <3>1. Detach(s, c) = Abandoned(s, e)
      BY <1>2, <2>1, <2>3 DEF Detach
    <3> QED
      BY <2>3, <3>1, LeaveLast
  <2> QED
    BY <2>2, <2>3
<1> QED
  BY <1>1, <1>2

-----------------------------------------------------------------------------
(* The cache.                                                              *)

Distinct(a)  == \A x, y \in Elements(a) : x.key = y.key => x = y
Clear(a, p)  == \A x \in Elements(a) : p[x.key] = None

LEMMA CacheAs ==
  ASSUME NEW s
  PROVE  CacheShape(s) <=> Once(s.cache) /\ Distinct(s.cache) /\ Clear(s.cache, s.pending)
<1> PICK a : a = s.cache
  OBVIOUS
<1>1. ASSUME CacheShape(s) PROVE Once(a) /\ Distinct(a) /\ Clear(a, s.pending)
  BY <1>1 DEF CacheShape, Once, Distinct, Clear, Elements
<1>2. ASSUME Once(a), Distinct(a), Clear(a, s.pending) PROVE CacheShape(s)
  <2>1. ASSUME NEW i \in DOMAIN a, NEW j \in DOMAIN a, a[i].key = a[j].key PROVE i = j
    <3>1. a[i] \in Elements(a) /\ a[j] \in Elements(a)
      BY DEF Elements
    <3>2. a[i] = a[j]
      BY <1>2, <2>1, <3>1 DEF Distinct
    <3> QED
      BY <1>2, <3>2 DEF Once
  <2>2. \A i \in DOMAIN a : s.pending[a[i].key] = None
    BY <1>2 DEF Clear, Elements
  <2> QED
    BY <2>1, <2>2 DEF CacheShape
<1> QED
  BY <1>1, <1>2

LEMMA CacheTyped ==
  ASSUME NEW s, Shaped(s)
  PROVE  /\ s \in Sched /\ s.cache \in Seq(Kept) /\ Len(s.cache) \in Nat /\ Len(s.cache) <= CacheSize
         /\ Once(s.cache) /\ Distinct(s.cache) /\ Clear(s.cache, s.pending)
         /\ \A x \in Elements(s.cache) : x \in Kept /\ x.key \in Keys /\ x.data \in Versions
         /\ CacheSize \in Nat
<1>1. s \in Sched /\ s.cache \in Seq(Kept) /\ Len(s.cache) <= CacheSize
  BY SchedTyped DEF Shaped
<1>2. Once(s.cache) /\ Distinct(s.cache) /\ Clear(s.cache, s.pending)
  BY CacheAs DEF Shaped
<1>3. \A x \in Elements(s.cache) : x \in Kept
  BY <1>1, SchedTyped DEF Elements
<1>4. \A x \in Kept : x.key \in Keys /\ x.data \in Versions
  BY DEF Kept
<1> QED
  BY <1>1, <1>2, <1>3, <1>4, LenProperties, QueryAssumption

LEMMA CachedParts ==
  ASSUME NEW s, Shaped(s), NEW k \in Keys, \E i \in DOMAIN s.cache : s.cache[i].key = k
  PROVE  /\ CacheAt(s, k) \in DOMAIN s.cache /\ Cached(s, k) = s.cache[CacheAt(s, k)]
         /\ Cached(s, k).key = k /\ Cached(s, k) \in Elements(s.cache) /\ Cached(s, k) \in Kept
<1>1. CacheAt(s, k) \in DOMAIN s.cache /\ s.cache[CacheAt(s, k)].key = k
  BY DEF CacheAt
<1>2. Cached(s, k) = s.cache[CacheAt(s, k)]
  BY DEF Cached
<1>3. Cached(s, k) \in Elements(s.cache)
  BY <1>1, <1>2 DEF Elements
<1> QED
  BY <1>1, <1>2, <1>3, CacheTyped

LEMMA UncachedParts ==
  ASSUME NEW s, Shaped(s), NEW k \in Keys
  PROVE  /\ Uncached(s, k) \in Seq(Kept) /\ Once(Uncached(s, k))
         /\ Elements(Uncached(s, k)) = {x \in Elements(s.cache) : x.key # k}
         /\ Len(Uncached(s, k)) \in Nat
         /\ IF \E i \in DOMAIN s.cache : s.cache[i].key = k
            THEN Len(Uncached(s, k)) = Len(s.cache) - 1 ELSE Len(Uncached(s, k)) = Len(s.cache)
<1> PICK a : a = s.cache
  OBVIOUS
<1>1. a \in Seq(Kept) /\ Once(a) /\ Distinct(a) /\ Len(a) \in Nat
  BY CacheTyped
<1>2. CASE \E i \in DOMAIN s.cache : s.cache[i].key = k
  <2>1. PICK i \in DOMAIN a : i = CacheAt(s, k)
    BY <1>2, CachedParts
  <2>2. a[i].key = k /\ Uncached(s, k) = RemoveAt(a, i)
    BY <1>2, <2>1, CachedParts DEF Uncached
  <2>3. /\ RemoveAt(a, i) \in Seq(Kept) /\ Once(RemoveAt(a, i)) /\ Len(RemoveAt(a, i)) = Len(a) - 1
        /\ Elements(RemoveAt(a, i)) = Elements(a) \ {a[i]}
    BY <1>1, RemovedAt, RemovedOnce
  <2>4. Elements(a) \ {a[i]} = {x \in Elements(a) : x.key # k}
    <3>1. a[i] \in Elements(a)
      BY DEF Elements
    <3>2. \A x \in Elements(a) : x.key = k => x = a[i]
      BY <1>1, <2>2, <3>1 DEF Distinct
    <3> QED
      BY <2>2, <3>2
  <2> QED
    BY <1>2, <2>2, <2>3, <2>4, LenProperties
<1>3. CASE ~\E i \in DOMAIN s.cache : s.cache[i].key = k
  <2>1. Uncached(s, k) = a
    BY <1>3 DEF Uncached
  <2>2. Elements(a) = {x \in Elements(a) : x.key # k}
    BY <1>3 DEF Elements
  <2> QED
    BY <1>1, <1>3, <2>1, <2>2
<1> QED
  BY <1>2, <1>3

(* The cache with the answer x for the key k at its newest position. *)
LEMMA Renewed ==
  ASSUME NEW s, Shaped(s), NEW x \in Kept
  PROVE  /\ Append(Uncached(s, x.key), x) \in Seq(Kept) /\ Once(Append(Uncached(s, x.key), x))
         /\ Elements(Append(Uncached(s, x.key), x)) = {y \in Elements(s.cache) : y.key # x.key} \cup {x}
         /\ Distinct(Append(Uncached(s, x.key), x))
         /\ Len(Append(Uncached(s, x.key), x)) = Len(Uncached(s, x.key)) + 1
<1>1. x.key \in Keys
  BY DEF Kept
<1> PICK u : u = Uncached(s, x.key)
  OBVIOUS
<1>2. u \in Seq(Kept) /\ Once(u) /\ Elements(u) = {y \in Elements(s.cache) : y.key # x.key}
  BY <1>1, UncachedParts
<1>3. x \notin Elements(u)
  BY <1>2
<1>4. /\ Append(u, x) \in Seq(Kept) /\ Once(Append(u, x)) /\ Elements(Append(u, x)) = Elements(u) \cup {x}
      /\ Len(Append(u, x)) = Len(u) + 1
  BY <1>2, <1>3, Appended, AppendProperties
<1>5. Distinct(Append(u, x))
  BY <1>2, <1>4, CacheTyped DEF Distinct
<1> QED
  BY <1>2, <1>4, <1>5

WithCache(s, a) == [s EXCEPT !.cache = a]

CacheFor(s, a)  == /\ a \in Seq(Kept) /\ Once(a) /\ Distinct(a) /\ Clear(a, s.pending)
                   /\ Len(a) <= CacheSize

LEMMA NewCache ==
  ASSUME NEW s, Shaped(s), Full(s), NEW a, CacheFor(s, a)
  PROVE  /\ Shaped(WithCache(s, a)) /\ Full(WithCache(s, a))
         /\ WithCache(s, a).cache = a /\ WithCache(s, a).entry = s.entry
         /\ \A c \in Clients : Same(s, WithCache(s, a), c)
<1> USE DEF CacheFor
<1> PICK t : t = WithCache(s, a)
  OBVIOUS
<1>1. s \in Sched
  BY DEF Shaped
<1>2. t \in Sched
  BY <1>1 DEF Sched, WithCache
<1>3. t.cache = a /\ t.entry = s.entry /\ t.pending = s.pending /\ t.queue = s.queue
  BY <1>1 DEF Sched, WithCache
<1>4. CacheShape(t)
  BY <1>3, CacheAs
<1>5. /\ Running(t) = Running(s) /\ Waiting(t) = Waiting(s)
      /\ \A c \in Clients : Held(t, c) = Held(s, c)
  BY <1>3 DEF Running, Waiting, Held
<1>6. QueueShape(t) /\ PendingShape(t)
  BY <1>3, <1>5 DEF Shaped, QueueShape, PendingShape
<1>7. Shaped(t)
  BY <1>2, <1>3, <1>4, <1>5, <1>6 DEF Shaped
<1> QED
  BY <1>3, <1>5, <1>7 DEF Full, Same

LEMMA ElementsFewer ==
  ASSUME NEW s, NEW t, t.entry = s.entry,
         \A x \in Elements(t.cache) : \E y \in Elements(s.cache) : x.key = y.key /\ x.data = y.data
  PROVE  Fewer(s, t)
BY DEF Elements, Fewer

(* A hit leaves the answers as they are. *)
LEMMA TouchShape ==
  ASSUME NEW s, Shaped(s), Full(s), NEW k \in Keys, CacheHit(s, k)
  PROVE  Undisturbed(s, Touch(s, k), Clients)
<1>1. \E i \in DOMAIN s.cache : s.cache[i].key = k
  BY DEF CacheHit
<1> PICK x : x = Cached(s, k)
  OBVIOUS
<1>2. x \in Kept /\ x.key = k /\ x \in Elements(s.cache)
  BY <1>1, CachedParts
<1> PICK a : a = Append(Uncached(s, k), x)
  OBVIOUS
<1>3. /\ a \in Seq(Kept) /\ Once(a) /\ Distinct(a) /\ Len(a) = Len(Uncached(s, k)) + 1
      /\ Elements(a) = {y \in Elements(s.cache) : y.key # k} \cup {x}
  BY <1>2, Renewed
<1>4. Elements(a) \subseteq Elements(s.cache)
  BY <1>2, <1>3
<1>5. Clear(a, s.pending)
  BY <1>4, CacheTyped DEF Clear
<1>6. Len(a) <= CacheSize
  <2>1. Len(Uncached(s, k)) = Len(s.cache) - 1
    BY <1>1, UncachedParts
  <2> QED
    BY <1>3, <2>1, CacheTyped
<1>7. Touch(s, k) = WithCache(s, a)
  BY DEF Touch, WithCache
<1> PICK t : t = Touch(s, k)
  OBVIOUS
<1>8. /\ Shaped(t) /\ Full(t) /\ t.cache = a /\ t.entry = s.entry
      /\ \A c \in Clients : Same(s, t, c)
  <2>1. CacheFor(s, a)
    BY <1>3, <1>5, <1>6 DEF CacheFor
  <2>2. t = WithCache(s, a)
    BY <1>7
  <2>3. Shaped(t) /\ Full(t)
    BY <2>1, <2>2, NewCache
  <2>4. t.cache = a /\ t.entry = s.entry
    BY <2>2, CacheTyped DEF WithCache, Sched
  <2>5. \A c \in Clients : Same(s, t, c)
    BY <2>1, <2>2, NewCache
  <2> QED
    BY <2>3, <2>4, <2>5
<1>9. Fewer(s, t)
  BY <1>4, <1>8, ElementsFewer
<1> QED
  BY <1>8, <1>9 DEF Undisturbed

-----------------------------------------------------------------------------
(* Subscribing.                                                            *)

LEMMA SlotFewerCached ==
  ASSUME NEW s \in Sched, NEW e \in Slots, NEW v, NEW t, Put(s, t, e, v),
         Elements(t.cache) \subseteq Elements(s.cache),
         v # None /\ v.data # None => /\ s.entry[e] # None /\ s.entry[e].data = v.data
                                      /\ s.entry[e].key = v.key
                                      /\ ~v.aborted => ~s.entry[e].aborted
  PROVE  Fewer(s, t)
<1>1. t.entry[e] = v /\ \A f \in Slots \ {e} : t.entry[f] = s.entry[f]
  BY SlotEntries
<1>2. ASSUME NEW i \in DOMAIN t.cache
      PROVE  \E j \in DOMAIN s.cache : t.cache[i] = s.cache[j]
  BY DEF Elements
<1> QED
  BY <1>1, <1>2 DEF Fewer

(* The client c joins or makes an entry for k, and the cache no longer     *)
(* answers for k.                                                          *)
Enters(s, t, c, k) ==
  /\ Shaped(t) /\ Fewer(s, t) /\ \A d \in Clients \ {c} : Same(s, t, d)
  /\ Held(t, c) # {} /\ \A e \in Held(t, c) : t.entry[e].key = k

Entering(s, t, c, k, e, v) ==
  /\ v \in Entry /\ Fits(s, e, v) /\ v.key = k /\ ~v.aborted
  /\ Slotted(s, t, e, v) /\ t.cache = Uncached(s, k) /\ Running(t) = Running(s)
  /\ v.data # None => s.entry[e] # None /\ s.entry[e].data = v.data /\ ~s.entry[e].aborted
  /\ s.entry[e] # None => v.subs = s.entry[e].subs \cup {c} /\ s.entry[e].key = k
  /\ s.entry[e] = None => v.subs = {c}

LEMMA EnterShape ==
  ASSUME NEW s, Shaped(s), NEW c \in Clients, Held(s, c) = {}, NEW k \in Keys,
         NEW e \in Slots, NEW v, NEW t, Entering(s, t, c, k, e, v)
  PROVE  Enters(s, t, c, k)
<1> USE DEF Entering
<1>1. s \in Sched /\ t \in Sched /\ Put(s, t, e, v) /\ v # None
  BY NoneAssumption DEF Shaped, Slotted
<1>2. /\ t.cache \in Seq(Kept) /\ Once(t.cache)
      /\ Elements(t.cache) = {x \in Elements(s.cache) : x.key # k}
      /\ Len(t.cache) <= Len(s.cache)
  BY UncachedParts, CacheTyped
<1>3. CacheShape(t) /\ Len(t.cache) <= CacheSize
  <2>1. Distinct(t.cache)
    BY <1>2, CacheTyped DEF Distinct
  <2>2. Clear(t.cache, t.pending)
    <3> SUFFICES ASSUME NEW x \in Elements(t.cache) PROVE t.pending[x.key] = None
      BY DEF Clear
    <3>1. x \in Elements(s.cache) /\ x.key # k /\ x.key \in Keys /\ s.pending[x.key] = None
      BY <1>2, CacheTyped DEF Clear
    <3> QED
      BY <3>1, NoneAssumption DEF Slotted
  <2>3. Len(t.cache) <= CacheSize
    <3>1. Len(t.cache) \in Nat
      BY <1>2, LenProperties
    <3> QED
      BY <1>2, <3>1, CacheTyped
  <2> QED
    BY <1>2, <2>1, <2>2, <2>3, CacheAs
<1>4. Shaped(t)
  <2>1. Cardinality(Running(t)) <= Concurrency
    BY DEF Shaped
  <2> QED
    BY <1>1, <1>3, <2>1, SlotShape
<1>5. Fewer(s, t)
  BY <1>1, <1>2, SlotFewerCached
<1>6. ASSUME NEW d \in Clients \ {c} PROVE Same(s, t, d)
  <2> PICK p : p = s.entry[e]
    OBVIOUS
  <2>1. (v # None /\ d \in v.subs) <=> (p # None /\ d \in p.subs)
    BY <1>1
  <2>2. v # None /\ p # None => v.key = p.key
    OBVIOUS
  <2> QED
    BY <1>1, <2>1, <2>2, SlotSame
<1>7. Held(t, c) = {e}
  BY <1>1, SlotHeld
<1>8. t.entry[e] = v
  BY <1>1, SlotEntries
<1> QED
  BY <1>4, <1>5, <1>6, <1>7, <1>8 DEF Enters

(* The key is being asked for: one entry, one more subscriber. *)
LEMMA JoinShape ==
  ASSUME NEW s, Shaped(s), NEW c \in Clients, Held(s, c) = {}, NEW k \in Keys, s.pending[k] # None
  PROVE  Enters(s, Joined(s, c, k), c, k)
<1>1. s \in Sched
  BY DEF Shaped
<1>2. PICK e \in Slots : e = s.pending[k]
  BY <1>1, SchedTyped
<1> PICK p : p = s.entry[e]
  OBVIOUS
<1>3. p # None /\ p \in Entry /\ p.key = k /\ ~p.aborted /\ p.subs \in SUBSET Clients /\ EntryShape(p)
  BY <1>1, <1>2, SchedTyped DEF Shaped, PendingShape
<1> PICK v : v = WithSubs(p, p.subs \cup {c})
  OBVIOUS
<1>f. PICK f : f = [s.entry EXCEPT ![e] = v]
  OBVIOUS
<1> PICK a : a = Uncached(s, k)
  OBVIOUS
<1>4. /\ v \in Entry /\ v # None /\ v.running = p.running /\ v.subs = p.subs \cup {c}
      /\ v.aborted = p.aborted /\ v.key = p.key /\ v.data = p.data
  BY <1>3, WithSubsParts
<1>5. f \in [Slots -> Entry \cup {None}] /\ a \in Seq(Kept)
  BY <1>1, <1>4, <1>f, SchedTyped, UncachedParts
<1>6. Joined(s, c, k) = [s EXCEPT !.cache = a, !.entry = f]
  BY <1>1, <1>2, <1>f DEF Joined, WithSubs, Sched
<1>t. PICK t : t = [s EXCEPT !.cache = a, !.entry = f]
  OBVIOUS
<1>7. t \in Sched
  BY <1>1, <1>5, <1>t DEF Sched
<1>8. t.entry = f /\ t.pending = s.pending /\ t.queue = s.queue /\ t.cache = a
  BY <1>1, <1>t DEF Sched
<1>9. Put(s, t, e, v)
  BY <1>8, <1>f DEF Put
<1>10. Slotted(s, t, e, v)
  <2>1. Once(t.queue)
    BY <1>8 DEF Shaped, QueueShape, Once
  <2>2. e \in Elements(s.queue) <=> ~p.running
    BY <1>3 DEF Shaped, QueueShape, Waiting, Elements
  <2>3. Elements(t.queue) = IF v # None /\ ~v.running THEN Elements(s.queue) \cup {e}
                            ELSE Elements(s.queue) \ {e}
    BY <1>4, <1>8, <2>2
  <2>4. ASSUME NEW j \in Keys
        PROVE  t.pending[j] = IF v # None /\ ~v.aborted /\ v.key = j THEN e
                              ELSE IF s.pending[j] = e THEN None ELSE s.pending[j]
    <3>1. s.pending[j] = e => j = p.key
      BY <1>3, NoneAssumption DEF Shaped, PendingShape
    <3>2. CASE j = k
      BY <1>2, <1>3, <1>4, <1>8, <3>2
    <3>3. CASE j # k
      <4>1. v.key # j /\ s.pending[j] # e /\ t.pending[j] = s.pending[j]
        BY <1>3, <1>4, <1>8, <3>1, <3>3
      <4> QED
        BY <4>1
    <3> QED
      BY <3>2, <3>3
  <2> QED
    BY <1>7, <1>9, <2>1, <2>3, <2>4 DEF Slotted
<1>11. Fits(s, e, v)
  <2>1. EntryShape(v)
    BY <1>3, <1>4 DEF EntryShape
  <2>2. ASSUME NEW d \in v.subs PROVE Held(s, d) \subseteq {e}
    <3>1. CASE d = c
      BY <3>1
    <3>2. CASE d # c
      <4>1. d \in Clients /\ e \in Held(s, d)
        BY <1>3, <1>4, <3>2 DEF Held
      <4> QED
        BY <4>1 DEF Shaped
    <3> QED
      BY <3>1, <3>2
  <2> QED
    BY <1>2, <1>3, <1>4, <2>1, <2>2 DEF Fits
<1>12. Running(t) = Running(s)
  <2>1. Running(t) = IF v # None /\ v.running THEN Running(s) \cup {e} ELSE Running(s) \ {e}
    BY <1>1, <1>9, SlotRunning
  <2>2. e \in Running(s) <=> p.running
    BY <1>3 DEF Running
  <2> QED
    BY <1>4, <2>1, <2>2
<1>13. Entering(s, t, c, k, e, v)
  BY <1>3, <1>4, <1>8, <1>10, <1>11, <1>12 DEF Entering
<1>14. Enters(s, t, c, k)
  BY <1>13, EnterShape
<1> QED
  BY <1>6, <1>14, <1>t

(* Nobody asks for the key: a new entry at the end of the queue. *)
NewEntry(c, k) == [key |-> k, running |-> FALSE, aborted |-> FALSE, subs |-> {c}, data |-> None]

LEMMA NewEntryParts ==
  ASSUME NEW c \in Clients, NEW k \in Keys
  PROVE  /\ NewEntry(c, k) \in Entry /\ NewEntry(c, k) # None /\ EntryShape(NewEntry(c, k))
         /\ NewEntry(c, k).key = k /\ ~NewEntry(c, k).running /\ ~NewEntry(c, k).aborted
         /\ NewEntry(c, k).subs = {c} /\ NewEntry(c, k).data = None
<1>1. NewEntry(c, k) \in Entry
  BY DEF NewEntry, Entry
<1>2. /\ NewEntry(c, k).key = k /\ ~NewEntry(c, k).running /\ ~NewEntry(c, k).aborted
      /\ NewEntry(c, k).subs = {c} /\ NewEntry(c, k).data = None
  BY DEF NewEntry
<1> QED
  BY <1>1, <1>2, NoneAssumption DEF EntryShape

LEMMA MakeShape ==
  ASSUME NEW s, Shaped(s), NEW c \in Clients, Held(s, c) = {}, NEW k \in Keys, s.pending[k] = None
  PROVE  Enters(s, Joined(s, c, k), c, k)
<1>1. s \in Sched
  BY DEF Shaped
<1>2. PICK e \in Slots : e = Free(s) /\ s.entry[e] = None
  BY FreeSlot
<1> PICK v : v = NewEntry(c, k)
  OBVIOUS
<1> PICK f : f = [s.entry EXCEPT ![e] = v]
  OBVIOUS
<1> PICK a : a = Uncached(s, k)
  OBVIOUS
<1> PICK p : p = [s.pending EXCEPT ![k] = e]
  OBVIOUS
<1> PICK q : q = Append(s.queue, e)
  OBVIOUS
<1>3. /\ v \in Entry /\ v # None /\ EntryShape(v) /\ v.key = k /\ ~v.running /\ ~v.aborted
      /\ v.subs = {c} /\ v.data = None
  BY NewEntryParts
<1>4. /\ f \in [Slots -> Entry \cup {None}] /\ a \in Seq(Kept)
      /\ p \in [Keys -> Slots \cup {None}]
  BY <1>1, <1>3, SchedTyped, UncachedParts
<1>5. q \in Seq(Slots) /\ Once(q) /\ Elements(q) = Elements(s.queue) \cup {e}
  <2>1. s.queue \in Seq(Slots) /\ Once(s.queue)
    BY <1>1, SchedTyped DEF Shaped, QueueShape, Once
  <2>2. e \notin Elements(s.queue)
    BY <1>2 DEF Shaped, QueueShape, Waiting, Elements
  <2> QED
    BY <2>1, <2>2, Appended, AppendProperties
<1>6. Joined(s, c, k) = [s EXCEPT !.cache = a, !.entry = f, !.pending = p, !.queue = q]
  BY <1>1, <1>2 DEF Joined, NewEntry, Sched
<1> PICK t : t = [s EXCEPT !.cache = a, !.entry = f, !.pending = p, !.queue = q]
  OBVIOUS
<1>7. t \in Sched
  BY <1>1, <1>4, <1>5 DEF Sched
<1>8. t.entry = f /\ t.pending = p /\ t.queue = q /\ t.cache = a
  BY <1>1 DEF Sched
<1>9. Put(s, t, e, v)
  BY <1>8 DEF Put
<1>10. \A j \in Keys : s.pending[j] # e
  BY <1>2, NoneAssumption DEF Shaped, PendingShape
<1>11. Slotted(s, t, e, v)
  <2>1. ASSUME NEW j \in Keys
        PROVE  t.pending[j] = IF v # None /\ ~v.aborted /\ v.key = j THEN e
                              ELSE IF s.pending[j] = e THEN None ELSE s.pending[j]
    <3>1. p[j] = IF j = k THEN e ELSE s.pending[j]
      BY <1>1, SchedTyped
    <3> QED
      BY <1>3, <1>8, <1>10, <3>1
  <2>2. Once(t.queue) /\ Elements(t.queue) = Elements(s.queue) \cup {e}
    BY <1>5, <1>8
  <2> QED
    BY <1>3, <1>7, <1>9, <2>1, <2>2 DEF Slotted
<1>12. Fits(s, e, v)
  BY <1>3 DEF Fits
<1>13. Running(t) = Running(s)
  <2>1. Running(t) = Running(s) \ {e}
    BY <1>1, <1>3, <1>9, SlotRunning
  <2>2. e \notin Running(s)
    BY <1>2 DEF Running
  <2> QED
    BY <2>1, <2>2
<1>14. Entering(s, t, c, k, e, v)
  BY <1>2, <1>3, <1>8, <1>11, <1>12, <1>13 DEF Entering
<1>15. Enters(s, t, c, k)
  BY <1>14, EnterShape
<1> QED
  BY <1>6, <1>15

LEMMA SameSame ==
  ASSUME NEW r, NEW s, NEW t, NEW c, Same(r, s, c), Same(s, t, c)
  PROVE  Same(r, t, c)
BY DEF Same

(* A client that subscribes gets an entry for its key, and takes nothing   *)
(* from the others.                                                        *)
LEMMA SubscribeShape ==
  ASSUME NEW s, Shaped(s), NEW c \in Clients, Held(s, c) = {}, NEW k \in Keys
  PROVE  /\ Undisturbed(s, Subscribe(s, c, k), Clients \ {c})
         /\ Held(Subscribe(s, c, k), c) # {}
         /\ \A e \in Held(Subscribe(s, c, k), c) : Subscribe(s, c, k).entry[e].key = k
<1> PICK r : r = Joined(s, c, k)
  OBVIOUS
<1>1. Enters(s, r, c, k)
  BY JoinShape, MakeShape
<1>2. Shaped(r)
  BY <1>1 DEF Enters
<1> PICK t : t = Drain(r)
  OBVIOUS
<1>3. Shaped(t) /\ Full(t) /\ Kin(r, t)
  BY <1>2, DrainShape
<1>4. Fewer(r, t) /\ \A d \in Clients : Same(r, t, d)
  BY <1>3, KinFewer
<1>5. Fewer(s, t)
  BY <1>1, <1>4, FewerFewer DEF Enters
<1>6. \A d \in Clients \ {c} : Same(s, t, d)
  <2> SUFFICES ASSUME NEW d \in Clients \ {c} PROVE Same(s, t, d)
    OBVIOUS
  <2>1. Same(s, r, d) /\ Same(r, t, d)
    BY <1>1, <1>4 DEF Enters
  <2> QED
    BY <2>1, SameSame
<1>7. Held(t, c) # {} /\ \A e \in Held(t, c) : t.entry[e].key = k
  BY <1>1, <1>4 DEF Enters, Same
<1>8. Subscribe(s, c, k) = t
  BY DEF Subscribe
<1> QED
  BY <1>3, <1>5, <1>6, <1>7, <1>8 DEF Undisturbed

-----------------------------------------------------------------------------
(* A request ends.                                                         *)

(* What a cache has after the request of p: what it had, and p's answer if *)
(* somebody waited for it.                                                 *)
From(s, p, y) == \/ y \in Elements(s.cache)
                 \/ ~p.aborted /\ y.key = p.key /\ y.data = p.data

LEMMA StoreParts ==
  ASSUME NEW s, Shaped(s), NEW e \in Slots, s.entry[e] # None, s.entry[e].data # None
  PROVE  /\ Store(s, e) \in Seq(Kept) /\ Once(Store(s, e)) /\ Distinct(Store(s, e))
         /\ Len(Store(s, e)) <= CacheSize
         /\ \A y \in Elements(Store(s, e)) : From(s, s.entry[e], y)
<1> PICK p : p = s.entry[e]
  OBVIOUS
<1>1. p \in Entry /\ p.key \in Keys /\ p.data \in Versions /\ p.aborted \in BOOLEAN
  BY SchedTyped DEF Shaped
<1>2. PICK x \in Kept : x = [key |-> p.key, data |-> p.data, fresh |-> TRUE]
  BY <1>1 DEF Kept
<1>3. x.key = p.key /\ x.data = p.data
  BY <1>2
<1>4. PICK all : all = Append(Uncached(s, p.key), x)
  OBVIOUS
<1>5. /\ all \in Seq(Kept) /\ Once(all) /\ Distinct(all)
      /\ Elements(all) = {y \in Elements(s.cache) : y.key # p.key} \cup {x}
  <2>1. all = Append(Uncached(s, x.key), x)
    BY <1>3, <1>4
  <2>2. Elements(all) = {y \in Elements(s.cache) : y.key # x.key} \cup {x}
    BY <2>1, Renewed
  <2>3. all \in Seq(Kept) /\ Once(all) /\ Distinct(all)
    BY <2>1, Renewed
  <2> QED
    BY <1>3, <2>2, <2>3
<1>6. PICK n : n = IF Len(all) > CacheSize THEN Len(all) - CacheSize ELSE 0
  OBVIOUS
<1>7. CASE p.aborted \/ p.subs = {} \/ CacheSize = 0
  <2>1. Store(s, e) = s.cache
    BY <1>7 DEF Store
  <2> QED
    BY <2>1, CacheTyped DEF From
<1>8. CASE ~(p.aborted \/ p.subs = {} \/ CacheSize = 0)
  <2>1. Len(all) \in Nat /\ CacheSize \in Nat
    BY <1>5, LenProperties, CacheTyped
  <2>2. n \in 0..Len(all) /\ Len(all) - n <= CacheSize /\ 1 + n = n + 1
    BY <1>6, <2>1
  <2>3. Store(s, e) = SubSeq(all, 1 + n, Len(all))
    BY <1>2, <1>4, <1>6, <1>8 DEF Store
  <2>4. Store(s, e) = Rest(all, n)
    BY <2>2, <2>3 DEF Rest
  <2>5. /\ Rest(all, n) \in Seq(Kept) /\ Len(Rest(all, n)) = Len(all) - n
        /\ Once(Rest(all, n)) /\ Elements(Rest(all, n)) \subseteq Elements(all)
    BY <1>5, <2>2, TakenOff
  <2>6. Distinct(Rest(all, n))
    BY <1>5, <2>5 DEF Distinct
  <2>7. \A y \in Elements(Rest(all, n)) : From(s, p, y)
    BY <1>3, <1>5, <1>8, <2>5 DEF From
  <2> QED
    BY <2>2, <2>4, <2>5, <2>6, <2>7
<1> QED
  BY <1>7, <1>8

(* The scheduler after the entry e, whose content was p, ended. *)
Ends(s, t, p, e) ==
  /\ Shaped(t) /\ Full(t)
  /\ \A c \in Clients : IF c \in p.subs THEN Held(t, c) = {} ELSE Same(s, t, c)
  /\ \A y \in Elements(t.cache) : From(s, p, y)
  /\ \A f \in Slots : t.entry[f] # None => f # e /\ Alike(s.entry[f], t.entry[f])

Ended(s, e, a) == [s EXCEPT !.entry[e] = None, !.pending = Unlisted(s, e), !.cache = a]
Answers(s, e, a) == /\ a \in Seq(Kept) /\ Once(a) /\ Distinct(a) /\ Len(a) <= CacheSize
                    /\ \A y \in Elements(a) : From(s, s.entry[e], y)

LEMMA EndedParts ==
  ASSUME NEW s, Shaped(s), NEW e \in Running(s), NEW a, Answers(s, e, a)
  PROVE  /\ Slotted(s, Ended(s, e, a), e, None)
         /\ Ended(s, e, a).pending = Unlisted(s, e) /\ Ended(s, e, a).cache = a
<1>1. s \in Sched /\ e \in Slots /\ s.entry[e] # None /\ s.entry[e].running
  BY DEF Shaped, Running
<1> PICK f : f = [s.entry EXCEPT ![e] = None]
  OBVIOUS
<1> PICK p : p = Unlisted(s, e)
  OBVIOUS
<1>2. /\ f \in [Slots -> Entry \cup {None}] /\ p \in [Keys -> Slots \cup {None}]
      /\ a \in Seq(Kept)
  BY <1>1, SchedTyped, UnlistedParts DEF Answers
<1> PICK t : t = [s EXCEPT !.entry = f, !.pending = p, !.cache = a]
  OBVIOUS
<1>3. Ended(s, e, a) = t
  BY <1>1 DEF Ended, Sched
<1>4. t \in Sched
  BY <1>1, <1>2 DEF Sched
<1>5. t.entry = f /\ t.pending = p /\ t.queue = s.queue /\ t.cache = a
  BY <1>1 DEF Sched
<1>6. Once(t.queue) /\ Elements(t.queue) = Elements(s.queue) \ {e}
  <2>1. e \notin Waiting(s)
    BY <1>1 DEF Shaped, QueueShape
  <2> QED
    BY <1>5, <2>1 DEF Shaped, QueueShape, Once, Waiting, Elements
<1>7. Slotted(s, t, e, None)
  <2>1. Put(s, t, e, None)
    BY <1>5 DEF Put
  <2>2. \A k \in Keys : t.pending[k] = IF s.pending[k] = e THEN None ELSE s.pending[k]
    BY <1>1, <1>5, UnlistedParts
  <2> QED
    BY <1>4, <1>6, <2>1, <2>2 DEF Slotted
<1> QED
  BY <1>3, <1>5, <1>7

LEMMA EndShape ==
  ASSUME NEW s, Shaped(s), NEW e \in Running(s), NEW a, Answers(s, e, a)
  PROVE  Ends(s, Release(Ended(s, e, a)), s.entry[e], e)
<1> PICK r : r = Ended(s, e, a)
  OBVIOUS
<1> PICK p : p = s.entry[e]
  OBVIOUS
<1>1. s \in Sched /\ e \in Slots /\ p # None /\ p \in Entry /\ p.key \in Keys
  BY SchedTyped DEF Shaped, Running
<1>2. Slotted(s, r, e, None) /\ r.pending = Unlisted(s, e) /\ r.cache = a
  BY EndedParts
<1>3. Put(s, r, e, None) /\ r \in Sched
  BY <1>2 DEF Slotted
<1>4. Fits(s, e, None)
  BY DEF Fits, EntryShape
<1>5. CacheShape(r) /\ Len(r.cache) <= CacheSize
  <2>1. Clear(a, r.pending)
    <3> SUFFICES ASSUME NEW y \in Elements(a) PROVE r.pending[y.key] = None
      BY DEF Clear
    <3>1. From(s, p, y)
      BY DEF Answers
    <3>2. CASE y \in Elements(s.cache)
      <4>1. y.key \in Keys /\ s.pending[y.key] = None
        BY <3>2, CacheTyped DEF Clear
      <4> QED
        BY <1>1, <1>2, <4>1, UnlistedParts
    <3>3. CASE ~p.aborted /\ y.key = p.key
      <4>1. s.pending[p.key] = e
        BY <1>1, <3>3 DEF Shaped, PendingShape
      <4> QED
        BY <1>1, <1>2, <3>3, <4>1, UnlistedParts
    <3> QED
      BY <3>1, <3>2, <3>3 DEF From
  <2> QED
    BY <1>2, <2>1, CacheAs DEF Answers
<1>6. Cardinality(Running(r)) <= Concurrency
  <2>1. Running(r) = Running(s) \ {e}
    BY <1>1, <1>3, SlotRunning
  <2>2. Running(s) \in SUBSET Slots
    BY DEF Running
  <2>3. IsFiniteSet(Running(s)) /\ Cardinality(Running(s)) \in Nat /\ Cardinality(Running(s)) <= Concurrency
    BY <2>2, Counted DEF Shaped
  <2>4. Cardinality(Running(s) \ {e}) = Cardinality(Running(s)) - 1
    BY <2>3, FS_RemoveElement
  <2> QED
    BY <2>1, <2>3, <2>4, QueryAssumption
<1>7. Shaped(r)
  BY <1>1, <1>2, <1>4, <1>5, <1>6, SlotShape
<1>8. \A c \in Clients : IF c \in p.subs THEN Held(r, c) = {} ELSE Same(s, r, c)
  <2> SUFFICES ASSUME NEW c \in Clients PROVE IF c \in p.subs THEN Held(r, c) = {} ELSE Same(s, r, c)
    OBVIOUS
  <2>1. CASE c \in p.subs
    <3>1. Held(r, c) = Held(s, c) \ {e}
      BY <1>1, <1>3, <1>4, SlotHeld
    <3>2. e \in Held(s, c)
      BY <1>1, <2>1 DEF Held
    <3>3. Held(r, c) = {}
      BY <3>1, <3>2 DEF Shaped
    <3> QED
      BY <2>1, <3>3
  <2>2. CASE c \notin p.subs
    <3>1. Same(s, r, c)
      BY <1>1, <1>3, <1>4, <2>2, SlotSame
    <3> QED
      BY <2>2, <3>1
  <2> QED
    BY <2>1, <2>2
<1>9. r.entry[e] = None /\ \A f \in Slots \ {e} : r.entry[f] = s.entry[f]
  BY <1>1, <1>3, SlotEntries
<1> PICK t : t = Drain(r)
  OBVIOUS
<1>10. Shaped(t) /\ Full(t) /\ Kin(r, t)
  BY <1>7, DrainShape
<1>11. \A c \in Clients : IF c \in p.subs THEN Held(t, c) = {} ELSE Same(s, t, c)
  <2> SUFFICES ASSUME NEW c \in Clients PROVE IF c \in p.subs THEN Held(t, c) = {} ELSE Same(s, t, c)
    OBVIOUS
  <2>1. Same(r, t, c)
    BY <1>10, KinFewer
  <2>2. CASE c \in p.subs
    BY <1>8, <2>1, <2>2 DEF Same
  <2>3. CASE c \notin p.subs
    BY <1>8, <2>1, <2>3, SameSame
  <2> QED
    BY <2>2, <2>3
<1>12. \A y \in Elements(t.cache) : From(s, p, y)
  BY <1>2, <1>10 DEF Kin, Answers
<1>13. ASSUME NEW f \in Slots, t.entry[f] # None
       PROVE  f # e /\ Alike(s.entry[f], t.entry[f])
  BY <1>9, <1>10, <1>13 DEF Kin, Alike
<1>14. Release(Ended(s, e, a)) = t
  BY DEF Release
<1>15. Ends(s, t, p, e)
  BY <1>10, <1>11, <1>12, <1>13 DEF Ends
<1> QED
  BY <1>14, <1>15

-----------------------------------------------------------------------------
(* One client and one scheduler.                                           *)

WaitsOf(s, c, a, ph) ==
  /\ ph = "request" => Held(s, c) # {}
  /\ \A e \in Held(s, c) : ph \in {"request", "wake"} /\ s.entry[e].key = a.key
AnswerOf(a, ph, st) ==
  /\ st.data # None => st.data.key.query = st.key.query
  /\ ph = "debounce" => st.loading
  /\ ph = "gone" => st.data = None
  /\ ph \in {"idle", "timer"} /\ a.enabled /\ ~st.loading /\ st.key = a.key /\ st.data # None
        => st.data.key = a.key
NoNewer(d, s, n) ==
  d # None =>
    /\ d.version <= n
    /\ \A i \in DOMAIN s.cache : s.cache[i].key = d.key => d.version <= s.cache[i].data
    /\ \A e \in Slots : s.entry[e] # None /\ ~s.entry[e].aborted /\ s.entry[e].data # None
                        /\ s.entry[e].key = d.key => d.version <= s.entry[e].data
NoneLater(s, n) ==
  /\ \A i \in DOMAIN s.cache : s.cache[i].data <= n
  /\ \A e \in Slots : s.entry[e] # None /\ s.entry[e].data # None => s.entry[e].data <= n

ClientOK(s, n, c, a, ph, st) ==
  WaitsOf(s, c, a, ph) /\ AnswerOf(a, ph, st) /\ NoNewer(st.data, s, n)
RetainedOK(s, n, r) ==
  r # None => NoNewer(r.data, s, n) /\ (r.data # None => r.data.key.query = r.query)

Phases == {"gone", "start", "debounce", "wake", "idle", "timer", "request"}

(* The inductive invariant, in two parts: what the scheduler, the clients  *)
(* and the canvas hold, and the types of the rest.                         *)
Main ==
  /\ Shaped(sched) /\ Full(sched) /\ NoneLater(sched, now)
  /\ phase \in [Clients -> Phases] /\ state \in [Clients -> Outcomes]
  /\ retained \in [Widgets -> Retained \cup {None}]
  /\ \A c \in Clients : ClientOK(sched, now, c, ask[c], phase[c], state[c])
  /\ \A w \in Widgets : RetainedOK(sched, now, retained[w])
Others ==
  /\ ask \in [Clients -> Props] /\ prev \in [Widgets -> Keys \cup {None}]
  /\ hidden \in BOOLEAN /\ now \in Versions
  /\ changes \in 0 .. MaxChanges /\ trouble \in 0 .. MaxTrouble

LEMMA FewerNewer ==
  ASSUME NEW s, NEW t, Fewer(s, t), NEW n, NEW d, NoNewer(d, s, n)
  PROVE  NoNewer(d, t, n)
<1> SUFFICES ASSUME d # None
             PROVE  /\ d.version <= n
                    /\ \A i \in DOMAIN t.cache : t.cache[i].key = d.key => d.version <= t.cache[i].data
                    /\ \A e \in Slots : t.entry[e] # None /\ ~t.entry[e].aborted /\ t.entry[e].data # None
                                        /\ t.entry[e].key = d.key => d.version <= t.entry[e].data
  BY DEF NoNewer
<1>1. d.version <= n
  BY DEF NoNewer
<1>2. ASSUME NEW i \in DOMAIN t.cache, t.cache[i].key = d.key PROVE d.version <= t.cache[i].data
  <2>1. PICK j \in DOMAIN s.cache : t.cache[i].key = s.cache[j].key /\ t.cache[i].data = s.cache[j].data
    BY DEF Fewer
  <2> QED
    BY <1>2, <2>1 DEF NoNewer
<1>3. ASSUME NEW e \in Slots, t.entry[e] # None, ~t.entry[e].aborted, t.entry[e].data # None,
             t.entry[e].key = d.key
      PROVE  d.version <= t.entry[e].data
  BY <1>3 DEF Fewer, NoNewer
<1> QED
  BY <1>1, <1>2, <1>3

LEMMA FewerLater ==
  ASSUME NEW s, NEW t, Fewer(s, t), NEW n, NoneLater(s, n)
  PROVE  NoneLater(t, n)
<1>1. ASSUME NEW i \in DOMAIN t.cache PROVE t.cache[i].data <= n
  <2>1. PICK j \in DOMAIN s.cache : t.cache[i].data = s.cache[j].data
    BY DEF Fewer
  <2> QED
    BY <2>1 DEF NoneLater
<1>2. ASSUME NEW e \in Slots, t.entry[e] # None, t.entry[e].data # None PROVE t.entry[e].data <= n
  BY <1>2 DEF Fewer, NoneLater
<1> QED
  BY <1>1, <1>2 DEF NoneLater

LEMMA SameWaits ==
  ASSUME NEW s, NEW t, NEW c, Same(s, t, c), NEW a, NEW ph, WaitsOf(s, c, a, ph)
  PROVE  WaitsOf(t, c, a, ph)
BY DEF Same, WaitsOf

(* A step of client c alone: what there is to show of it. *)
LEMMA ClientStep ==
  ASSUME Main, NEW c \in Clients, now' = now,
         Undisturbed(sched, sched', Clients \ {c}),
         phase' \in [Clients -> Phases], state' \in [Clients -> Outcomes],
         retained' \in [Widgets -> Retained \cup {None}],
         \A d \in Clients \ {c} : ask'[d] = ask[d] /\ phase'[d] = phase[d] /\ state'[d] = state[d],
         ClientOK(sched', now, c, ask'[c], phase'[c], state'[c]),
         \A w \in Widgets : retained'[w] = retained[w] \/ RetainedOK(sched', now, retained'[w])
  PROVE  Main'
<1>1. Shaped(sched') /\ Full(sched') /\ Fewer(sched, sched') /\ \A d \in Clients \ {c} : Same(sched, sched', d)
  BY DEF Undisturbed
<1>2. NoneLater(sched', now)
  BY <1>1, FewerLater DEF Main
<1>3. ASSUME NEW d \in Clients
      PROVE  ClientOK(sched', now, d, ask'[d], phase'[d], state'[d])
  <2>1. CASE d = c
    BY <2>1
  <2>2. CASE d # c
    <3>1. ClientOK(sched, now, d, ask[d], phase[d], state[d]) /\ Same(sched, sched', d)
      BY <1>1, <2>2 DEF Main
    <3>2. WaitsOf(sched', d, ask[d], phase[d])
      BY <3>1, SameWaits DEF ClientOK
    <3>3. NoNewer(state[d].data, sched', now)
      BY <1>1, <3>1, FewerNewer DEF ClientOK
    <3> QED
      BY <2>2, <3>1, <3>2, <3>3 DEF ClientOK
  <2> QED
    BY <2>1, <2>2
<1>4. ASSUME NEW w \in Widgets PROVE RetainedOK(sched', now, retained'[w])
  <2>1. CASE retained'[w] = retained[w]
    <3>1. RetainedOK(sched, now, retained[w])
      BY DEF Main
    <3>2. retained[w] # None => NoNewer(retained[w].data, sched', now)
      BY <1>1, <3>1, FewerNewer DEF RetainedOK
    <3> QED
      BY <2>1, <3>1, <3>2 DEF RetainedOK
  <2> QED
    BY <2>1
<1> QED
  BY <1>1, <1>2, <1>3, <1>4 DEF Main

-----------------------------------------------------------------------------
(* A client calls the scheduler.                                           *)

LEMMA UndisturbedTwice ==
  ASSUME NEW r, NEW s, NEW t, NEW C, Undisturbed(r, s, C), Undisturbed(s, t, C)
  PROVE  Undisturbed(r, t, C)
<1>1. Fewer(r, t)
  BY FewerFewer DEF Undisturbed
<1>2. \A d \in C : Same(r, t, d)
  BY SameSame DEF Undisturbed
<1> QED
  BY <1>1, <1>2 DEF Undisturbed

(* The cached answer is as new as any. *)
CachedAnswer(s, k) == [key |-> k, version |-> Cached(s, k).data]

LEMMA CachedNewest ==
  ASSUME NEW s, Shaped(s), NEW n, NoneLater(s, n), NEW k \in Keys, CacheHit(s, k)
  PROVE  /\ CachedAnswer(s, k) \in Data /\ CachedAnswer(s, k).key = k
         /\ NoNewer(CachedAnswer(s, k), s, n)
<1>1. \E i \in DOMAIN s.cache : s.cache[i].key = k
  BY DEF CacheHit
<1>2. PICK i \in DOMAIN s.cache : i = CacheAt(s, k)
  BY <1>1, CachedParts
<1> PICK x : x = Cached(s, k)
  OBVIOUS
<1>3. x = s.cache[i] /\ x.key = k /\ x \in Kept
  BY <1>1, <1>2, CachedParts
<1>4. x.data \in Versions
  BY <1>3 DEF Kept
<1> PICK d : d = CachedAnswer(s, k)
  OBVIOUS
<1>5. d \in Data /\ d.key = k /\ d.version = x.data
  BY <1>4 DEF CachedAnswer, Data
<1>6. d.version <= n
  BY <1>3, <1>5 DEF NoneLater
<1>7. ASSUME NEW j \in DOMAIN s.cache, s.cache[j].key = d.key PROVE d.version <= s.cache[j].data
  <2>1. j = i
    BY <1>3, <1>5, <1>7 DEF Shaped, CacheShape
  <2>2. d.version = s.cache[j].data
    BY <1>3, <1>5, <2>1
  <2> QED
    BY <1>4, <1>5, <2>2, QueryAssumption DEF Versions
<1>8. ASSUME NEW e \in Slots, s.entry[e] # None, ~s.entry[e].aborted, s.entry[e].key = d.key
      PROVE  FALSE
  <2>1. s.pending[k] = e
    BY <1>5, <1>8 DEF Shaped, PendingShape
  <2>2. s.pending[k] = None
    BY <1>3 DEF Shaped, CacheShape
  <2> QED
    BY <2>1, <2>2, NoneAssumption
<1>9. NoNewer(d, s, n)
  BY <1>6, <1>7, <1>8 DEF NoNewer
<1> QED
  BY <1>5, <1>9

(* A state that may be shown while the next answer is awaited. *)
Before(b) == /\ b \in Outcomes /\ NoNewer(b.data, sched, now)
             /\ b.data # None => b.data.key.query = b.key.query

LEMMA OutcomeTyped ==
  ASSUME NEW k \in Keys, NEW d \in Data \cup {None}, NEW x \in BOOLEAN
  PROVE  /\ Outcome(k, d, x) \in Outcomes /\ Outcome(k, d, x).key = k
         /\ Outcome(k, d, x).data = d /\ ~Outcome(k, d, x).loading
<1>1. Outcome(k, d, x) \in Outcomes
  BY DEF Outcome, Outcomes
<1>2. Outcome(k, d, x).key = k /\ Outcome(k, d, x).data = d /\ ~Outcome(k, d, x).loading
  BY DEF Outcome
<1> QED
  BY <1>1, <1>2

KeptFor(r, k, d) == \A w \in Widgets : r[w] = retained[w] \/ (r[w].query = k.query /\ r[w].data = d)

LEMMA KeepTyped ==
  ASSUME retained \in [Widgets -> Retained \cup {None}], NEW c \in Clients,
         NEW k \in Keys, NEW d \in Data \cup {None}, NEW x \in BOOLEAN
  PROVE  /\ Keep(c, k, d, x) \in [Widgets -> Retained \cup {None}]
         /\ KeptFor(Keep(c, k, d, x), k, d)
<1> PICK r : r = [query |-> k.query, data |-> d, error |-> x]
  OBVIOUS
<1>1. r \in Retained /\ r.query = k.query /\ r.data = d
  BY DEF Retained
<1>2. Keep(c, k, d, x) = IF c \in Widgets THEN [retained EXCEPT ![c] = r] ELSE retained
  BY DEF Keep
<1> QED
  BY <1>1, <1>2 DEF KeptFor

LEMMA HitStep ==
  ASSUME Main, Others, NEW c \in Clients, NEW s, Undisturbed(sched, s, Clients \ {c}), Held(s, c) = {},
         ask' = ask, now' = now,
         NEW k, k = ask[c].key, CacheHit(s, k),
         sched' = Touch(s, k),
         state' = [state EXCEPT ![c] = Outcome(k, CachedAnswer(s, k), FALSE)],
         retained' = Keep(c, k, CachedAnswer(s, k), FALSE),
         phase' = [phase EXCEPT ![c] = AfterOutcome(c)]
  PROVE  Main'
<1> PICK d : d = CachedAnswer(s, k)
  OBVIOUS
<1>1. k \in Keys
  BY DEF Others, Props
<1>2. Shaped(s) /\ Full(s) /\ Fewer(sched, s)
  BY DEF Undisturbed
<1>3. NoneLater(s, now)
  BY <1>2, FewerLater DEF Main
<1>4. d \in Data /\ d.key = k /\ NoNewer(d, s, now) /\ d # None
  BY <1>1, <1>2, <1>3, CachedNewest, NoneAssumption
<1>5. Undisturbed(s, sched', Clients)
  BY <1>1, <1>2, TouchShape
<1>6. Undisturbed(sched, sched', Clients \ {c})
  <2>1. Undisturbed(s, sched', Clients \ {c})
    BY <1>5 DEF Undisturbed
  <2> QED
    BY <2>1, UndisturbedTwice
<1>7. Held(sched', c) = {}
  BY <1>5 DEF Undisturbed, Same
<1>8. NoNewer(d, sched', now)
  BY <1>4, <1>5, FewerNewer DEF Undisturbed
<1> PICK st : st = Outcome(k, d, FALSE)
  OBVIOUS
<1>9. st \in Outcomes /\ st.key = k /\ st.data = d /\ ~st.loading
  BY <1>1, <1>4, OutcomeTyped
<1>10. state' \in [Clients -> Outcomes] /\ state'[c] = st /\ \A x \in Clients \ {c} : state'[x] = state[x]
  BY <1>9 DEF Main
<1>11. AfterOutcome(c) \in {"idle", "timer"}
  BY DEF AfterOutcome
<1>12. /\ phase' \in [Clients -> Phases] /\ phase'[c] \in {"idle", "timer"}
       /\ \A x \in Clients \ {c} : phase'[x] = phase[x]
  BY <1>11 DEF Main, Phases
<1>13. retained' \in [Widgets -> Retained \cup {None}]
  BY <1>1, <1>4, KeepTyped DEF Main
<1>14. ASSUME NEW w \in Widgets PROVE retained'[w] = retained[w] \/ RetainedOK(sched', now, retained'[w])
  <2> SUFFICES ASSUME retained'[w] # retained[w] PROVE RetainedOK(sched', now, retained'[w])
    OBVIOUS
  <2>1. KeptFor(retained', k, d)
    <3>1. retained \in [Widgets -> Retained \cup {None}] /\ d \in Data \cup {None}
      BY <1>4 DEF Main
    <3> QED
      BY <1>1, <3>1, KeepTyped
  <2> QED
    BY <1>4, <1>8, <2>1 DEF RetainedOK, KeptFor
<1>15. ClientOK(sched', now, c, ask'[c], phase'[c], state'[c])
  <2>1. WaitsOf(sched', c, ask'[c], phase'[c])
    BY <1>7, <1>12 DEF WaitsOf
  <2>2. AnswerOf(ask'[c], phase'[c], state'[c])
    <3> PICK ph : ph = phase'[c]
      OBVIOUS
    <3> PICK a : a = ask[c]
      OBVIOUS
    <3>1. ph \notin {"debounce", "gone"} /\ a.key = k
      BY <1>12
    <3>2. AnswerOf(a, ph, st)
      BY <1>4, <1>9, <3>1 DEF AnswerOf
    <3> QED
      BY <1>10, <3>2
  <2> QED
    BY <1>8, <1>9, <1>10, <2>1, <2>2 DEF ClientOK
<1> QED
  BY <1>6, <1>10, <1>12, <1>13, <1>14, <1>15, ClientStep

Awaiting(b, manual) == [b EXCEPT !.loading = TRUE, !.error = ~manual /\ b.error]

LEMMA AwaitingTyped ==
  ASSUME NEW b \in Outcomes, NEW manual \in BOOLEAN
  PROVE  /\ Awaiting(b, manual) \in Outcomes
         /\ Awaiting(b, manual).key = b.key /\ Awaiting(b, manual).data = b.data
<1>1. (~manual /\ b.error) \in BOOLEAN
  OBVIOUS
<1> PICK x \in BOOLEAN : x = (~manual /\ b.error)
  BY <1>1
<1>2. Awaiting(b, manual) = [b EXCEPT !.loading = TRUE, !.error = x]
  BY DEF Awaiting
<1>3. [b EXCEPT !.loading = TRUE, !.error = x] \in Outcomes
  BY DEF Outcomes
<1>4. /\ [b EXCEPT !.loading = TRUE, !.error = x].key = b.key
      /\ [b EXCEPT !.loading = TRUE, !.error = x].data = b.data
  BY DEF Outcomes
<1> QED
  BY <1>2, <1>3, <1>4

LEMMA MissStep ==
  ASSUME Main, Others, NEW c \in Clients, NEW s, Undisturbed(sched, s, Clients \ {c}), Held(s, c) = {},
         ask' = ask, now' = now,
         NEW st \in Outcomes, Before(st),
         sched' = Subscribe(s, c, ask[c].key),
         state' = [state EXCEPT ![c] = st],
         phase' = [phase EXCEPT ![c] = "request"],
         retained' = retained
  PROVE  Main'
<1> PICK k : k = ask[c].key
  OBVIOUS
<1>1. k \in Keys
  BY DEF Others, Props
<1>2. Shaped(s) /\ Fewer(sched, s)
  BY DEF Undisturbed
<1>3. /\ Undisturbed(s, sched', Clients \ {c})
      /\ Held(sched', c) # {} /\ \A e \in Held(sched', c) : sched'.entry[e].key = k
  BY <1>1, <1>2, SubscribeShape
<1>4. Undisturbed(sched, sched', Clients \ {c})
  BY <1>3, UndisturbedTwice
<1>5. NoNewer(st.data, sched', now)
  BY <1>4, FewerNewer DEF Undisturbed, Before
<1>6. state' \in [Clients -> Outcomes] /\ state'[c] = st /\ \A x \in Clients \ {c} : state'[x] = state[x]
  BY DEF Main
<1>7. /\ phase' \in [Clients -> Phases] /\ phase'[c] = "request"
      /\ \A x \in Clients \ {c} : phase'[x] = phase[x]
  BY DEF Main, Phases
<1>8. ClientOK(sched', now, c, ask'[c], phase'[c], state'[c])
  <2>1. WaitsOf(sched', c, ask'[c], phase'[c])
    BY <1>3, <1>7 DEF WaitsOf
  <2>2. AnswerOf(ask'[c], phase'[c], state'[c])
    BY <1>6, <1>7 DEF AnswerOf, Before
  <2> QED
    BY <1>5, <1>6, <2>1, <2>2 DEF ClientOK
<1>9. retained' \in [Widgets -> Retained \cup {None}] /\ \A w \in Widgets : retained'[w] = retained[w]
  BY DEF Main
<1> QED
  BY <1>4, <1>6, <1>7, <1>8, <1>9, ClientStep

LEMMA CallStep ==
  ASSUME Main, Others, NEW c \in Clients, NEW s, Undisturbed(sched, s, Clients \ {c}), Held(s, c) = {},
         ask' = ask, now' = now, NEW b, Before(b), NEW manual \in BOOLEAN,
         Call(c, s, b, manual)
  PROVE  Main'
<1> PICK k : k = ask[c].key
  OBVIOUS
<1>1. CASE CacheHit(s, k)
  <2>1. /\ sched' = Touch(s, k)
        /\ state' = [state EXCEPT ![c] = Outcome(k, CachedAnswer(s, k), FALSE)]
        /\ retained' = Keep(c, k, CachedAnswer(s, k), FALSE)
        /\ phase' = [phase EXCEPT ![c] = AfterOutcome(c)]
    BY <1>1 DEF Call, CachedAnswer
  <2> QED
    BY <1>1, <2>1, HitStep
<1>2. CASE ~CacheHit(s, k)
  <2> PICK st : st = Awaiting(b, manual)
    OBVIOUS
  <2>1. /\ sched' = Subscribe(s, c, k)
        /\ state' = [state EXCEPT ![c] = st]
        /\ phase' = [phase EXCEPT ![c] = "request"]
        /\ retained' = retained
    BY <1>2 DEF Call, Awaiting
  <2>2. st \in Outcomes /\ Before(st)
    BY AwaitingTyped DEF Before
  <2> QED
    BY <2>1, <2>2, MissStep
<1> QED
  BY <1>1, <1>2

(* What a client shows may be shown while it asks again. *)
LEMMA ShownBefore ==
  ASSUME Main, NEW c \in Clients
  PROVE  Before(state[c])
<1>1. ClientOK(sched, now, c, ask[c], phase[c], state[c]) /\ state[c] \in Outcomes
  BY DEF Main
<1> QED
  BY <1>1 DEF ClientOK, AnswerOf, Before

(* A step that leaves client c without a subscription and shows st. *)
LEMMA RestStep ==
  ASSUME Main, NEW c \in Clients, NEW s, Undisturbed(sched, s, Clients \ {c}), Held(s, c) = {},
         now' = now, sched' = s,
         \A d \in Clients \ {c} : ask'[d] = ask[d],
         NEW st, Before(st), NEW ph \in Phases \ {"request"}, AnswerOf(ask'[c], ph, st),
         state' = [state EXCEPT ![c] = st], phase' = [phase EXCEPT ![c] = ph], retained' = retained
  PROVE  Main'
<1>1. st \in Outcomes /\ NoNewer(st.data, sched', now)
  BY FewerNewer DEF Before, Undisturbed
<1>2. state' \in [Clients -> Outcomes] /\ state'[c] = st /\ \A x \in Clients \ {c} : state'[x] = state[x]
  BY <1>1 DEF Main
<1>3. /\ phase' \in [Clients -> Phases] /\ phase'[c] = ph
      /\ \A x \in Clients \ {c} : phase'[x] = phase[x]
  BY DEF Main
<1>4. ClientOK(sched', now, c, ask'[c], phase'[c], state'[c])
  <2>1. WaitsOf(sched', c, ask'[c], phase'[c])
    BY <1>3 DEF WaitsOf
  <2> QED
    BY <1>1, <1>2, <1>3, <2>1 DEF ClientOK
<1>5. retained' \in [Widgets -> Retained \cup {None}] /\ \A w \in Widgets : retained'[w] = retained[w]
  BY DEF Main
<1> QED
  BY <1>1, <1>2, <1>3, <1>4, <1>5, ClientStep

NotLoading(b) == [b EXCEPT !.loading = FALSE]

LEMMA RunStep ==
  ASSUME Main, Others, NEW w \in Widgets, ask' = ask, now' = now,
         NEW b, Before(b), NEW manual \in BOOLEAN, Run(w, b, manual)
  PROVE  Main'
<1>1. w \in Clients
  BY DEF Clients
<1> PICK s : s = Detach(sched, w)
  OBVIOUS
<1>2. Undisturbed(sched, s, Clients \ {w}) /\ Held(s, w) = {}
  BY <1>1, DetachShape DEF Main
<1>3. ask[w] \in Props /\ ask[w].key \in Keys
  BY <1>1 DEF Others, Props
<1>4. CASE ask[w].key.query = Blank
  <2> PICK st : st = Outcome(ask[w].key, None, FALSE)
    OBVIOUS
  <2>1. sched' = s /\ state' = [state EXCEPT ![w] = st] /\ phase' = [phase EXCEPT ![w] = "idle"]
        /\ retained' = retained
    BY <1>4 DEF Run
  <2>2. st \in Outcomes /\ st.data = None
    BY <1>3, OutcomeTyped
  <2>3. Before(st) /\ AnswerOf(ask'[w], "idle", st)
    BY <2>2 DEF Before, NoNewer, AnswerOf
  <2>4. "idle" \in Phases \ {"request"}
    BY DEF Phases
  <2> QED
    BY <1>1, <1>2, <2>1, <2>3, <2>4, RestStep
<1>5. CASE ask[w].key.query # Blank /\ ~ask[w].enabled
  <2> PICK st : st = NotLoading(b)
    OBVIOUS
  <2>1. sched' = s /\ state' = [state EXCEPT ![w] = st] /\ phase' = [phase EXCEPT ![w] = "idle"]
        /\ retained' = retained
    BY <1>5 DEF Run, NotLoading
  <2>2. st \in Outcomes /\ st.data = b.data /\ st.key = b.key
    BY DEF NotLoading, Outcomes, Before
  <2>3. Before(st) /\ AnswerOf(ask'[w], "idle", st)
    BY <1>5, <2>2 DEF Before, AnswerOf
  <2>4. "idle" \in Phases \ {"request"}
    BY DEF Phases
  <2> QED
    BY <1>1, <1>2, <2>1, <2>3, <2>4, RestStep
<1>6. CASE ask[w].key.query # Blank /\ ask[w].enabled
  <2>1. Call(w, s, b, manual)
    BY <1>6 DEF Run
  <2> QED
    BY <1>1, <1>2, <2>1, CallStep
<1> QED
  BY <1>4, <1>5, <1>6

-----------------------------------------------------------------------------
(* The steps of the clients.                                               *)

LEMMA ChangeOthers ==
  ASSUME Others, Change
  PROVE  changes' \in 0 .. MaxChanges
BY QueryAssumption DEF Others, Change

LEMMA RenderParts ==
  ASSUME Main, Others, NEW c \in Clients, NEW p \in Props, Render(c, p)
  PROVE  /\ ask' \in [Clients -> Props] /\ ask'[c] = p /\ \A d \in Clients \ {c} : ask'[d] = ask[d]
         /\ sched' = Detach(sched, c)
         /\ Undisturbed(sched, Detach(sched, c), Clients \ {c}) /\ Held(Detach(sched, c), c) = {}
         /\ phase' = [phase EXCEPT ![c] = "start"] /\ "start" \in Phases \ {"request"}
         /\ hidden' = hidden /\ now' = now /\ trouble' = trouble
<1>1. Undisturbed(sched, Detach(sched, c), Clients \ {c}) /\ Held(Detach(sched, c), c) = {}
  BY DetachShape DEF Main
<1> QED
  BY <1>1 DEF Render, Others, Phases

(* A client that renders another request keeps what it shows. *)
LEMMA RenderStep ==
  ASSUME Main, Others, NEW c \in Clients, NEW p \in Props, Render(c, p), Change,
         state' = state, retained' = retained, prev' = prev
  PROVE  Main' /\ Others'
<1> PICK st : st = state[c]
  OBVIOUS
<1>1. Before(st)
  BY ShownBefore
<1>2. AnswerOf(ask'[c], "start", st)
  BY <1>1 DEF AnswerOf, Before
<1>3. state' = [state EXCEPT ![c] = st]
  BY DEF Main
<1> PICK s : s = Detach(sched, c)
  OBVIOUS
<1>4. /\ Undisturbed(sched, s, Clients \ {c}) /\ Held(s, c) = {} /\ now' = now /\ sched' = s
      /\ \A d \in Clients \ {c} : ask'[d] = ask[d]
      /\ phase' = [phase EXCEPT ![c] = "start"] /\ "start" \in Phases \ {"request"}
  BY RenderParts
<1>5. Main'
  BY <1>1, <1>2, <1>3, <1>4, RestStep
<1>6. Others'
  BY RenderParts, ChangeOthers DEF Others
<1> QED
  BY <1>5, <1>6

LEMMA MountStep ==
  ASSUME Main, Others, NEW w \in Widgets, Mount(w)
  PROVE  Main' /\ Others'
<1>1. w \in Clients
  BY DEF Clients
<1>2. PICK k \in Keys : Render(w, [key |-> k, enabled |-> TRUE])
  BY DEF Mount
<1>3. PICK p \in Props : p = [key |-> k, enabled |-> TRUE]
  BY DEF Props
<1>4. Render(w, p) /\ p.key = k
  BY <1>2, <1>3
<1> PICK s : s = Detach(sched, w)
  OBVIOUS
<1>5. /\ Undisturbed(sched, s, Clients \ {w}) /\ Held(s, w) = {} /\ now' = now /\ sched' = s
      /\ \A d \in Clients \ {w} : ask'[d] = ask[d]
      /\ phase' = [phase EXCEPT ![w] = "start"] /\ "start" \in Phases \ {"request"}
      /\ ask'[w] = p
  BY <1>1, <1>4, RenderParts
<1> DEFINE kept == retained[w] # None /\ retained[w].query = k.query
           st == [key     |-> k,
                  data    |-> IF kept THEN retained[w].data ELSE None,
                  error   |-> kept /\ retained[w].error,
                  loading |-> TRUE]
<1>6. state' = [state EXCEPT ![w] = st] /\ retained' = retained
  BY <1>4, <1>5 DEF Mount
<1>7. RetainedOK(sched, now, retained[w]) /\ retained[w] \in Retained \cup {None}
  BY DEF Main
<1>8. retained[w] # None => retained[w].data \in Data \cup {None} /\ retained[w].error \in BOOLEAN
  BY <1>7 DEF Retained
<1>9. kept \in BOOLEAN
  OBVIOUS
<1>10. st.key = k /\ st.data = (IF kept THEN retained[w].data ELSE None)
  OBVIOUS
<1>11. st \in Outcomes
  <2>1. (IF kept THEN retained[w].data ELSE None) \in Data \cup {None}
    BY <1>8
  <2>2. (kept /\ retained[w].error) \in BOOLEAN
    OBVIOUS
  <2> HIDE DEF kept
  <2> QED
    BY <2>1, <2>2 DEF Outcomes
<1>12. NoNewer(st.data, sched, now) /\ (st.data # None => st.data.key.query = st.key.query)
  <2>1. CASE kept
    BY <1>7, <1>10, <2>1 DEF RetainedOK
  <2>2. CASE ~kept
    BY <1>10, <2>2 DEF NoNewer
  <2> QED
    BY <2>1, <2>2
<1> HIDE DEF st, kept
<1>13. Before(st)
  BY <1>11, <1>12 DEF Before
<1>14. AnswerOf(ask'[w], "start", st)
  BY <1>12 DEF AnswerOf
<1>15. Main'
  BY <1>1, <1>5, <1>6, <1>13, <1>14, RestStep
<1>16. Others'
  <2>1. prev' \in [Widgets -> Keys \cup {None}] /\ Change
    BY DEF Mount, Others
  <2> QED
    BY <1>1, <1>4, <2>1, RenderParts, ChangeOthers DEF Others
<1> QED
  BY <1>15, <1>16

LEMMA ChangeRequestStep ==
  ASSUME Main, Others, NEW w \in Widgets, ChangeRequest(w)
  PROVE  Main' /\ Others'
<1>1. w \in Clients
  BY DEF Clients
<1>2. PICK p \in Props : Render(w, p)
  BY DEF ChangeRequest
<1>3. Change /\ state' = state /\ retained' = retained /\ prev' = prev
  BY DEF ChangeRequest
<1> QED
  BY <1>1, <1>2, <1>3, RenderStep

LEMMA PointStep ==
  ASSUME Main, Others, NEW t \in Tips, Point(t)
  PROVE  Main' /\ Others'
<1>1. t \in Clients
  BY DEF Clients
<1>2. PICK k \in Keys : Render(t, [key |-> k, enabled |-> TRUE])
  BY DEF Point
<1>3. PICK p \in Props : p = [key |-> k, enabled |-> TRUE]
  BY DEF Props
<1>4. Render(t, p)
  BY <1>2, <1>3
<1>5. Change /\ state' = state /\ retained' = retained /\ prev' = prev
  BY DEF Point
<1> QED
  BY <1>1, <1>4, <1>5, RenderStep

LEMMA UnmountStep ==
  ASSUME Main, Others, NEW c \in Clients, Unmount(c)
  PROVE  Main' /\ Others'
<1> PICK s : s = Detach(sched, c)
  OBVIOUS
<1>1. Undisturbed(sched, s, Clients \ {c}) /\ Held(s, c) = {}
  BY DetachShape DEF Main
<1>2. FirstKey \in Keys
  BY QueryAssumption
<1> PICK st : st = NoOutcome
  OBVIOUS
<1>3. st \in Outcomes /\ st.data = None
  BY <1>2, OutcomeTyped DEF NoOutcome
<1>4. Before(st) /\ AnswerOf(ask'[c], "gone", st)
  BY <1>3 DEF Before, NoNewer, AnswerOf
<1>5. FirstProps \in Props
  BY <1>2 DEF FirstProps, Props
<1>6. /\ now' = now /\ sched' = s /\ \A d \in Clients \ {c} : ask'[d] = ask[d]
      /\ state' = [state EXCEPT ![c] = st] /\ phase' = [phase EXCEPT ![c] = "gone"] /\ retained' = retained
      /\ "gone" \in Phases \ {"request"}
  BY DEF Unmount, Others, Phases
<1>7. Main'
  BY <1>1, <1>4, <1>6, RestStep
<1>8. Others'
  BY <1>5, ChangeOthers DEF Others, Unmount
<1> QED
  BY <1>7, <1>8

(* A series that is asked again keeps its answer, another starts empty. *)
LEMMA ReloadingBefore ==
  ASSUME Main, Others, NEW w \in Widgets
  PROVE  Before(Reloading(w)) /\ Reloading(w).loading = ask[w].enabled
<1>1. w \in Clients
  BY DEF Clients
<1>2. ask[w].key \in Keys /\ ask[w].enabled \in BOOLEAN
  BY <1>1 DEF Others, Props
<1> PICK o \in Outcomes : o = state[w]
  BY <1>1 DEF Main
<1>3. o.data \in Data \cup {None} /\ o.error \in BOOLEAN
  BY DEF Outcomes
<1>4. NoNewer(o.data, sched, now) /\ (o.data # None => o.data.key.query = o.key.query)
  BY <1>1, ShownBefore DEF Before
<1> DEFINE same == o.key.query = ask[w].key.query
           st == [key |-> ask[w].key, data |-> IF same THEN o.data ELSE None,
                  error |-> same /\ o.error, loading |-> ask[w].enabled]
<1>5. Reloading(w) = st
  BY DEF Reloading
<1>6. /\ st.key = ask[w].key /\ st.data = (IF same THEN o.data ELSE None)
      /\ st.loading = ask[w].enabled
  OBVIOUS
<1>7. st \in Outcomes
  <2>1. (IF same THEN o.data ELSE None) \in Data \cup {None}
    BY <1>3
  <2>2. (same /\ o.error) \in BOOLEAN
    OBVIOUS
  <2> HIDE DEF same
  <2> QED
    BY <1>2, <2>1, <2>2 DEF Outcomes
<1>8. NoNewer(st.data, sched, now) /\ (st.data # None => st.data.key.query = st.key.query)
  <2>1. CASE same
    BY <1>4, <1>6, <2>1
  <2>2. CASE ~same
    BY <1>6, <2>2 DEF NoNewer
  <2> QED
    BY <2>1, <2>2
<1> HIDE DEF st, same
<1> QED
  BY <1>5, <1>6, <1>7, <1>8 DEF Before

LEMMA StartStep ==
  ASSUME Main, Others, NEW w \in Widgets, Start(w)
  PROVE  Main' /\ Others'
<1>1. w \in Clients
  BY DEF Clients
<1>2. ask' = ask /\ now' = now
  BY DEF Start
<1>3. Others'
  <2>1. ask[w].key \in Keys
    BY <1>1 DEF Others, Props
  <2>2. prev' \in [Widgets -> Keys \cup {None}]
    BY <2>1 DEF Start, Others
  <2> QED
    BY <2>2 DEF Start, Others
<1> PICK b : b = IF prev[w] # ask[w].key THEN Reloading(w) ELSE state[w]
  OBVIOUS
<1>4. Before(b)
  BY <1>1, ReloadingBefore, ShownBefore
<1>5. CASE prev[w] # ask[w].key /\ w \in Debounced /\ ask[w].enabled
  <2>1. /\ state' = [state EXCEPT ![w] = b] /\ phase' = [phase EXCEPT ![w] = "debounce"]
        /\ sched' = sched /\ retained' = retained /\ phase[w] = "start"
    BY <1>5 DEF Start
  <2>2. Held(sched, w) = {}
    BY <1>1, <2>1 DEF Main, ClientOK, WaitsOf
  <2>3. Undisturbed(sched, sched, Clients \ {w})
    BY DEF Undisturbed, Fewer, Same, Main
  <2>4. b.loading
    BY <1>5, ReloadingBefore
  <2>5. AnswerOf(ask'[w], "debounce", b)
    BY <1>4, <2>4 DEF AnswerOf, Before
  <2>6. "debounce" \in Phases \ {"request"} /\ \A d \in Clients \ {w} : ask'[d] = ask[d]
    BY <1>2 DEF Phases
  <2>7. Main'
    BY <1>1, <1>2, <1>4, <2>1, <2>2, <2>3, <2>5, <2>6, RestStep
  <2> QED
    BY <1>3, <2>7
<1>6. CASE ~(prev[w] # ask[w].key /\ w \in Debounced /\ ask[w].enabled)
  <2>1. Run(w, b, FALSE)
    BY <1>6 DEF Start
  <2>2. Main'
    BY <1>2, <1>4, <2>1, RunStep
  <2> QED
    BY <1>3, <2>2
<1> QED
  BY <1>5, <1>6

(* A timer, a button or the page's return runs the widget's request again. *)
LEMMA AgainStep ==
  ASSUME Main, Others, NEW w \in Widgets,
         DebounceFires(w) \/ RefreshFires(w) \/ Refresh(w) \/ Wake(w)
  PROVE  Main' /\ Others'
<1>1. w \in Clients
  BY DEF Clients
<1>2. Before(state[w])
  BY <1>1, ShownBefore
<1>3. /\ ask' = ask /\ now' = now /\ prev' = prev /\ hidden' = hidden /\ trouble' = trouble
      /\ changes' = changes \/ Change
  BY DEF DebounceFires, RefreshFires, Refresh, Wake
<1>4. \E manual \in BOOLEAN : Run(w, state[w], manual)
  BY DEF DebounceFires, RefreshFires, Refresh, Wake
<1>5. Main'
  BY <1>2, <1>3, <1>4, RunStep
<1>6. Others'
  BY <1>3, ChangeOthers DEF Others
<1> QED
  BY <1>5, <1>6

LEMMA StartTipStep ==
  ASSUME Main, Others, NEW t \in Tips, StartTip(t)
  PROVE  Main' /\ Others'
<1>1. t \in Clients
  BY DEF Clients
<1>2. phase[t] = "start" /\ ask' = ask /\ now' = now
  BY DEF StartTip
<1>3. Held(sched, t) = {}
  BY <1>1, <1>2 DEF Main, ClientOK, WaitsOf
<1>4. Undisturbed(sched, sched, Clients \ {t})
  BY DEF Undisturbed, Fewer, Same, Main
<1> PICK b : b = Outcome(ask[t].key, None, FALSE)
  OBVIOUS
<1>5. Before(b)
  <2>1. ask[t].key \in Keys
    BY <1>1 DEF Others, Props
  <2>2. b \in Outcomes /\ b.data = None
    BY <2>1, OutcomeTyped
  <2> QED
    BY <2>2 DEF Before, NoNewer
<1>6. Call(t, sched, b, FALSE)
  BY DEF StartTip
<1>7. Main'
  BY <1>1, <1>2, <1>3, <1>4, <1>5, <1>6, CallStep
<1>8. Others'
  BY DEF StartTip, Others
<1> QED
  BY <1>7, <1>8

-----------------------------------------------------------------------------
(* The steps of the page and of the provider.                              *)

LEMMA VisibilityStep ==
  ASSUME Main, Others, VisibilityChange
  PROVE  Main' /\ Others'
<1>1. /\ sched' = sched /\ ask' = ask /\ state' = state /\ retained' = retained /\ now' = now
      /\ prev' = prev /\ trouble' = trouble /\ hidden' \in BOOLEAN /\ Change
  BY DEF VisibilityChange, Others
<1>2. ASSUME NEW c \in Clients
      PROVE  /\ phase'[c] \in Phases
             /\ ClientOK(sched, now, c, ask[c], phase'[c], state[c])
  <2>1. ClientOK(sched, now, c, ask[c], phase[c], state[c]) /\ phase[c] \in Phases
    BY DEF Main
  <2>2. \/ phase'[c] = "wake" /\ phase[c] # "gone"
        \/ phase'[c] = "idle" /\ phase[c] \in {"debounce", "timer"}
        \/ phase'[c] = phase[c]
    BY DEF VisibilityChange
  <2>3. CASE phase'[c] = phase[c]
    BY <2>1, <2>3
  <2>4. CASE phase'[c] = "wake"
    BY <2>1, <2>4 DEF ClientOK, WaitsOf, AnswerOf, Phases
  <2>5. CASE phase'[c] = "idle" /\ phase[c] \in {"debounce", "timer"}
    BY <2>1, <2>5 DEF ClientOK, WaitsOf, AnswerOf, Phases
  <2> QED
    BY <2>2, <2>3, <2>4, <2>5
<1>3. phase' \in [Clients -> Phases]
  <2>1. phase' = [c \in Clients |-> phase'[c]]
    BY DEF VisibilityChange
  <2> QED
    BY <1>2, <2>1
<1>4. Main'
  BY <1>1, <1>2, <1>3 DEF Main
<1>5. Others'
  BY <1>1, ChangeOthers DEF Others
<1> QED
  BY <1>4, <1>5

LEMMA NewSchedulerShape ==
  /\ Shaped(NewScheduler) /\ Full(NewScheduler)
  /\ \A c \in Clients : Held(NewScheduler, c) = {}
  /\ NewScheduler.cache = <<>> /\ \A e \in Slots : NewScheduler.entry[e] = None
<1> PICK s : s = NewScheduler
  OBVIOUS
<1>1. /\ s.entry = [e \in Slots |-> None] /\ s.pending = [k \in Keys |-> None]
      /\ s.queue = <<>> /\ s.cache = <<>>
  BY DEF NewScheduler
<1>2. s \in Sched
  <2>1. <<>> \in Seq(Slots) /\ <<>> \in Seq(Kept)
    BY EmptySeq
  <2> QED
    BY <2>1 DEF NewScheduler, Sched
<1>3. Running(s) = {} /\ Waiting(s) = {} /\ \A c \in Clients : Held(s, c) = {}
  BY <1>1 DEF Running, Waiting, Held
<1>4. Cardinality(Running(s)) <= Concurrency
  BY <1>3, FS_EmptySet, QueryAssumption
<1>5. QueueShape(s) /\ PendingShape(s) /\ CacheShape(s)
  BY <1>1, <1>3 DEF QueueShape, PendingShape, CacheShape
<1>6. Len(s.cache) <= CacheSize
  BY <1>1, EmptySeq, QueryAssumption
<1>7. \A e \in Slots : EntryShape(s.entry[e])
  BY <1>1 DEF EntryShape
<1>8. Shaped(s)
  BY <1>2, <1>3, <1>4, <1>5, <1>6, <1>7 DEF Shaped
<1> QED
  BY <1>1, <1>3, <1>8 DEF Full

LEMMA NewFewer ==
  ASSUME NEW s
  PROVE  Fewer(s, NewScheduler)
BY NewSchedulerShape DEF Fewer

LEMMA InvalidateStep ==
  ASSUME Main, Others, Invalidate
  PROVE  Main' /\ Others'
<1>1. /\ sched' = NewScheduler /\ ask' = ask /\ state' = state /\ retained' = retained /\ now' = now
      /\ hidden' = hidden /\ trouble' = trouble /\ Change
  BY DEF Invalidate
<1>2. Fewer(sched, sched')
  BY <1>1, NewFewer
<1>3. NoneLater(sched', now)
  BY <1>2, FewerLater DEF Main
<1>4. ASSUME NEW c \in Clients
      PROVE  /\ phase'[c] \in Phases
             /\ ClientOK(sched', now, c, ask[c], phase'[c], state[c])
  <2>1. ClientOK(sched, now, c, ask[c], phase[c], state[c])
    BY DEF Main
  <2>2. phase'[c] = IF phase[c] = "gone" THEN "gone" ELSE "start"
    BY DEF Invalidate
  <2>3. WaitsOf(sched', c, ask[c], phase'[c])
    BY <1>1, <2>2, NewSchedulerShape DEF WaitsOf
  <2>4. NoNewer(state[c].data, sched', now)
    BY <1>2, <2>1, FewerNewer DEF ClientOK
  <2>5. AnswerOf(ask[c], phase'[c], state[c])
    BY <2>1, <2>2 DEF ClientOK, AnswerOf
  <2> QED
    BY <2>2, <2>3, <2>4, <2>5 DEF ClientOK, Phases
<1>5. phase' \in [Clients -> Phases]
  <2>1. phase' = [c \in Clients |-> phase'[c]]
    BY DEF Invalidate
  <2> QED
    BY <1>4, <2>1
<1>6. ASSUME NEW w \in Widgets PROVE RetainedOK(sched', now, retained[w])
  <2>1. RetainedOK(sched, now, retained[w])
    BY DEF Main
  <2> QED
    BY <1>2, <2>1, FewerNewer DEF RetainedOK
<1>7. Shaped(sched') /\ Full(sched')
  BY <1>1, NewSchedulerShape
<1>8. Main'
  BY <1>1, <1>3, <1>4, <1>5, <1>6, <1>7 DEF Main
<1>9. Others'
  BY <1>1, ChangeOthers DEF Others, Invalidate
<1> QED
  BY <1>8, <1>9

(* Time passes at the provider. *)
LEMMA ObserveStep ==
  ASSUME Main, Others, Observe
  PROVE  Main' /\ Others'
<1>1. /\ sched' = sched /\ ask' = ask /\ phase' = phase /\ prev' = prev /\ state' = state
      /\ retained' = retained /\ hidden' = hidden /\ changes' = changes /\ trouble' = trouble
  BY DEF Observe
<1>2. now \in Versions /\ now' \in Versions /\ \A x \in Versions : x <= now => x <= now'
  BY QueryAssumption DEF Observe, Others, Versions
<1>3. ASSUME NEW d \in Data \cup {None}, NoNewer(d, sched, now) PROVE NoNewer(d, sched, now')
  <2>1. CASE d = None
    BY <2>1 DEF NoNewer
  <2>2. CASE d # None
    <3>1. d.version \in Versions
      BY <2>2 DEF Data
    <3> QED
      BY <1>2, <1>3, <3>1 DEF NoNewer
  <2> QED
    BY <2>1, <2>2
<1>4. NoneLater(sched, now')
  <2>1. \A i \in DOMAIN sched.cache : sched.cache[i].data \in Versions
    BY CacheTyped DEF Main, Elements
  <2>2. \A e \in Slots : sched.entry[e] # None /\ sched.entry[e].data # None
                         => sched.entry[e].data \in Versions
    BY SchedTyped DEF Main, Shaped
  <2> QED
    BY <1>2, <2>1, <2>2 DEF Main, NoneLater
<1>5. ASSUME NEW c \in Clients PROVE ClientOK(sched, now', c, ask[c], phase[c], state[c])
  <2>1. ClientOK(sched, now, c, ask[c], phase[c], state[c]) /\ state[c] \in Outcomes
    BY DEF Main
  <2>2. state[c].data \in Data \cup {None}
    BY <2>1 DEF Outcomes
  <2> QED
    BY <1>3, <2>1, <2>2 DEF ClientOK
<1>6. ASSUME NEW w \in Widgets PROVE RetainedOK(sched, now', retained[w])
  <2>1. RetainedOK(sched, now, retained[w]) /\ retained[w] \in Retained \cup {None}
    BY DEF Main
  <2>2. retained[w] # None => retained[w].data \in Data \cup {None}
    BY <2>1 DEF Retained
  <2> QED
    BY <1>3, <2>1, <2>2 DEF RetainedOK
<1>7. Main'
  BY <1>1, <1>4, <1>5, <1>6 DEF Main
<1>8. Others'
  BY <1>1, <1>2 DEF Others
<1> QED
  BY <1>7, <1>8

(* A step of the scheduler alone that adds no answer. *)
LEMMA FewerStep ==
  ASSUME Main, Others, Undisturbed(sched, sched', Clients),
         ask' = ask, phase' = phase, prev' = prev, state' = state, retained' = retained,
         hidden' = hidden, now' = now, changes' = changes, trouble' = trouble
  PROVE  Main' /\ Others'
<1>1. Shaped(sched') /\ Full(sched') /\ Fewer(sched, sched') /\ \A c \in Clients : Same(sched, sched', c)
  BY DEF Undisturbed
<1>2. NoneLater(sched', now)
  BY <1>1, FewerLater DEF Main
<1>3. ASSUME NEW c \in Clients PROVE ClientOK(sched', now, c, ask[c], phase[c], state[c])
  <2>1. ClientOK(sched, now, c, ask[c], phase[c], state[c])
    BY DEF Main
  <2> QED
    BY <1>1, <2>1, SameWaits, FewerNewer DEF ClientOK
<1>4. ASSUME NEW w \in Widgets PROVE RetainedOK(sched', now, retained[w])
  <2>1. RetainedOK(sched, now, retained[w])
    BY DEF Main
  <2> QED
    BY <1>1, <2>1, FewerNewer DEF RetainedOK
<1>5. Main'
  BY <1>1, <1>2, <1>3, <1>4 DEF Main
<1>6. Others'
  BY DEF Others
<1> QED
  BY <1>5, <1>6

SameKeys(a, b) == DOMAIN a = DOMAIN b /\ \A j \in DOMAIN a : a[j].key = b[j].key

LEMMA SameKeysShape ==
  ASSUME NEW s, CacheShape(s), NEW a, SameKeys(a, s.cache)
  PROVE  Once(a) /\ Distinct(a) /\ Clear(a, s.pending)
<1> PICK b : b = s.cache
  OBVIOUS
<1>1. /\ \A i, j \in DOMAIN a : a[i].key = a[j].key => i = j
      /\ \A i \in DOMAIN a : s.pending[a[i].key] = None
  BY DEF CacheShape, SameKeys
<1> QED
  BY <1>1 DEF Once, Distinct, Clear, Elements

LEMMA ExpireStep ==
  ASSUME Main, Others, Expire
  PROVE  Main' /\ Others'
<1>1. PICK i \in DOMAIN sched.cache : sched' = [sched EXCEPT !.cache[i].fresh = FALSE]
  BY DEF Expire
<1> PICK s : s = sched
  OBVIOUS
<1>2. Shaped(s) /\ Full(s) /\ s \in Sched /\ s.cache \in Seq(Kept)
  BY CacheTyped DEF Main
<1> PICK x : x = [s.cache[i] EXCEPT !.fresh = FALSE]
  OBVIOUS
<1> PICK a : a = [s.cache EXCEPT ![i] = x]
  OBVIOUS
<1>3. s.cache[i] \in Kept
  BY <1>1, <1>2, SchedTyped
<1>4. x \in Kept
  BY <1>3 DEF Kept
<1>5. x.key = s.cache[i].key /\ x.data = s.cache[i].data
  BY <1>3 DEF Kept
<1>6. a \in Seq(Kept) /\ Len(a) = Len(s.cache) /\ DOMAIN a = DOMAIN s.cache
  <2>1. DOMAIN s.cache = 1..Len(s.cache) /\ i \in 1..Len(s.cache)
    BY <1>1, <1>2, LenProperties
  <2> QED
    BY <1>2, <1>4, <2>1, ExceptSeq
<1>7. \A j \in DOMAIN a : a[j] = IF j = i THEN x ELSE s.cache[j]
  BY <1>2, LenProperties
<1>8. \A j \in DOMAIN a : a[j].key = s.cache[j].key /\ a[j].data = s.cache[j].data
  BY <1>5, <1>7
<1>9. CacheFor(s, a)
  <2>1. CacheShape(s) /\ Len(a) <= CacheSize
    BY <1>2, <1>6 DEF Shaped
  <2>2. SameKeys(a, s.cache)
    BY <1>6, <1>8 DEF SameKeys
  <2>3. Once(a) /\ Distinct(a) /\ Clear(a, s.pending)
    BY <2>1, <2>2, SameKeysShape
  <2> QED
    BY <1>6, <2>1, <2>3 DEF CacheFor
<1>10. sched' = WithCache(s, a)
  BY <1>1, <1>2 DEF WithCache, Sched
<1>11. Shaped(sched') /\ Full(sched') /\ \A c \in Clients : Same(sched, sched', c)
  BY <1>2, <1>9, <1>10, NewCache
<1>12. Fewer(sched, sched')
  <2>1. sched'.cache = a /\ sched'.entry = s.entry
    BY <1>2, <1>10 DEF WithCache, Sched
  <2> QED
    BY <1>6, <1>8, <2>1 DEF Fewer
<1>13. Undisturbed(sched, sched', Clients)
  BY <1>11, <1>12 DEF Undisturbed
<1>14. /\ ask' = ask /\ phase' = phase /\ prev' = prev /\ state' = state /\ retained' = retained
       /\ hidden' = hidden /\ now' = now /\ changes' = changes /\ trouble' = trouble
  BY DEF Expire
<1> QED
  BY <1>13, <1>14, FewerStep

(* The provider reads: nothing on screen is newer than what it reads. *)
LEMMA ServeStep ==
  ASSUME Main, Others, NEW e \in Slots, Serve(e)
  PROVE  Main' /\ Others'
<1> PICK s : s = sched
  OBVIOUS
<1> PICK p : p = s.entry[e]
  OBVIOUS
<1>1. Shaped(s) /\ Full(s) /\ s \in Sched /\ now \in Versions
  BY DEF Main, Shaped, Others
<1>2. /\ e \in Running(s) /\ p.data = None /\ sched' = [s EXCEPT !.entry[e].data = now]
      /\ ask' = ask /\ phase' = phase /\ prev' = prev /\ state' = state /\ retained' = retained
      /\ hidden' = hidden /\ now' = now /\ changes' = changes /\ trouble' = trouble
  BY DEF Serve
<1>3. p # None /\ p.running /\ p \in Entry /\ EntryShape(p) /\ p.key \in Keys /\ p.subs \subseteq Clients
  BY <1>1, <1>2, SchedTyped DEF Running, Shaped
<1> PICK v : v = [p EXCEPT !.data = now]
  OBVIOUS
<1>4. v \in Entry
  BY <1>1, <1>3 DEF Entry
<1>5. /\ v.key = p.key /\ v.running = p.running /\ v.aborted = p.aborted /\ v.subs = p.subs
      /\ v.data = now
  BY <1>3 DEF Entry
<1> PICK f : f = [s.entry EXCEPT ![e] = v]
  OBVIOUS
<1>6. f \in [Slots -> Entry \cup {None}]
  BY <1>1, <1>4, SchedTyped
<1> PICK t : t = [s EXCEPT !.entry = f]
  OBVIOUS
<1>7. sched' = t
  BY <1>1, <1>2 DEF Sched
<1>8. t \in Sched
  BY <1>1, <1>6 DEF Sched
<1>9. t.entry = f /\ t.pending = s.pending /\ t.queue = s.queue /\ t.cache = s.cache
  BY <1>1 DEF Sched
<1>10. Put(s, t, e, v) /\ v # None
  BY <1>4, <1>9, NoneAssumption DEF Put
<1>11. Slotted(s, t, e, v)
  <2>1. Once(t.queue)
    BY <1>1, <1>9 DEF Shaped, QueueShape, Once
  <2>2. e \notin Elements(s.queue)
    BY <1>1, <1>3 DEF Shaped, QueueShape, Waiting, Elements
  <2>3. Elements(t.queue) = Elements(s.queue) \ {e} /\ v.running
    BY <1>3, <1>5, <1>9, <2>2
  <2>4. ASSUME NEW k \in Keys
        PROVE  t.pending[k] = IF v # None /\ ~v.aborted /\ v.key = k THEN e
                              ELSE IF s.pending[k] = e THEN None ELSE s.pending[k]
    <3>1. s.pending[k] = e => k = p.key /\ ~p.aborted
      BY <1>1, <1>3, NoneAssumption DEF Shaped, PendingShape
    <3>2. ~p.aborted => s.pending[p.key] = e
      BY <1>1, <1>3 DEF Shaped, PendingShape
    <3> QED
      BY <1>5, <1>9, <1>10, <3>1, <3>2
  <2> QED
    BY <1>8, <1>10, <2>1, <2>3, <2>4 DEF Slotted
<1>12. Fits(s, e, v)
  <2>1. EntryShape(v)
    BY <1>3, <1>5 DEF EntryShape
  <2>2. ASSUME NEW d \in v.subs PROVE Held(s, d) \subseteq {e}
    <3>1. d \in Clients /\ e \in Held(s, d)
      BY <1>3, <1>5 DEF Held
    <3> QED
      BY <1>1, <3>1 DEF Shaped
  <2>3. ~v.aborted => s.pending[v.key] = e
    BY <1>1, <1>3, <1>5 DEF Shaped, PendingShape
  <2> QED
    BY <1>4, <2>1, <2>2, <2>3 DEF Fits
<1>13. Running(t) = Running(s) /\ Full(t)
  <2>1. t.entry[e] = v /\ \A g \in Slots \ {e} : t.entry[g] = s.entry[g]
    BY <1>1, <1>9, SchedTyped
  <2>2. Running(t) = Running(s)
    BY <1>3, <1>5, <1>10, <2>1 DEF Running
  <2> QED
    BY <1>1, <1>9, <2>2 DEF Full
<1>14. Shaped(t)
  <2>1. CacheShape(t) /\ Len(t.cache) <= CacheSize
    BY <1>1, <1>9 DEF Shaped, CacheShape
  <2>2. Cardinality(Running(t)) <= Concurrency
    BY <1>1, <1>13 DEF Shaped
  <2> QED
    BY <1>1, <1>4, <1>11, <1>12, <2>1, <2>2, SlotShape
<1>15. t.entry[e] = v /\ \A g \in Slots \ {e} : t.entry[g] = s.entry[g]
  BY <1>1, <1>9, SchedTyped
<1>16. \A c \in Clients : Same(s, t, c)
  BY <1>3, <1>5, <1>10, <1>15 DEF Same, Held
<1>17. ASSUME NEW d, NoNewer(d, s, now) PROVE NoNewer(d, t, now)
  BY <1>5, <1>9, <1>15, <1>17 DEF NoNewer
<1>18. NoneLater(t, now)
  <2>1. NoneLater(s, now) /\ now <= now
    BY <1>1, QueryAssumption DEF Main, Versions
  <2> QED
    BY <1>5, <1>9, <1>15, <2>1 DEF NoneLater
<1>19. ASSUME NEW c \in Clients PROVE ClientOK(t, now, c, ask[c], phase[c], state[c])
  <2>1. ClientOK(s, now, c, ask[c], phase[c], state[c])
    BY DEF Main
  <2> QED
    BY <1>16, <1>17, <2>1, SameWaits DEF ClientOK
<1>20. ASSUME NEW w \in Widgets PROVE RetainedOK(t, now, retained[w])
  <2>1. RetainedOK(s, now, retained[w])
    BY DEF Main
  <2> QED
    BY <1>17, <2>1 DEF RetainedOK
<1>21. Main'
  <2>1. /\ Shaped(sched') /\ Full(sched') /\ NoneLater(sched', now')
        /\ \A c \in Clients : ClientOK(sched', now', c, ask'[c], phase'[c], state'[c])
        /\ \A w \in Widgets : RetainedOK(sched', now', retained'[w])
    BY <1>2, <1>7, <1>13, <1>14, <1>18, <1>19, <1>20
  <2>2. /\ phase' \in [Clients -> Phases] /\ state' \in [Clients -> Outcomes]
        /\ retained' \in [Widgets -> Retained \cup {None}]
    BY <1>2 DEF Main
  <2> QED
    BY <2>1, <2>2 DEF Main
<1>22. Others'
  BY <1>2 DEF Others
<1> QED
  BY <1>21, <1>22

(* What is on screen is no newer than what an ended request left behind.   *)
LEMMA EndNewer ==
  ASSUME NEW s, Shaped(s), NEW e \in Slots, NEW p, p = s.entry[e], p # None, NEW t, Ends(s, t, p, e),
         NEW n, NEW d, NoNewer(d, s, n)
  PROVE  NoNewer(d, t, n)
<1> SUFFICES ASSUME d # None
             PROVE  /\ d.version <= n
                    /\ \A i \in DOMAIN t.cache : t.cache[i].key = d.key => d.version <= t.cache[i].data
                    /\ \A f \in Slots : t.entry[f] # None /\ ~t.entry[f].aborted /\ t.entry[f].data # None
                                        /\ t.entry[f].key = d.key => d.version <= t.entry[f].data
  BY DEF NoNewer
<1>1. d.version <= n
  BY DEF NoNewer
<1>2. ASSUME NEW i \in DOMAIN t.cache, t.cache[i].key = d.key PROVE d.version <= t.cache[i].data
  <2> PICK y : y = t.cache[i]
    OBVIOUS
  <2>1. y \in Elements(t.cache)
    BY DEF Elements
  <2>2. From(s, p, y) /\ Shaped(t)
    BY <2>1 DEF Ends
  <2>3. y.data \in Versions
    BY <2>1, <2>2, CacheTyped
  <2>4. CASE y \in Elements(s.cache)
    BY <1>2, <2>4 DEF NoNewer, Elements
  <2>5. CASE ~p.aborted /\ y.key = p.key /\ y.data = p.data
    BY <1>2, <2>3, <2>5, NoneAssumption DEF NoNewer
  <2> QED
    BY <2>2, <2>4, <2>5 DEF From
<1>3. ASSUME NEW f \in Slots, t.entry[f] # None, ~t.entry[f].aborted, t.entry[f].data # None,
             t.entry[f].key = d.key
      PROVE  d.version <= t.entry[f].data
  <2>1. Alike(s.entry[f], t.entry[f])
    BY <1>3 DEF Ends
  <2> QED
    BY <1>3, <2>1 DEF Alike, NoNewer
<1> QED
  BY <1>1, <1>2, <1>3

LEMMA EndLater ==
  ASSUME NEW s, Shaped(s), NEW e \in Slots, NEW p, p = s.entry[e], p # None, NEW t, Ends(s, t, p, e),
         NEW n, NoneLater(s, n)
  PROVE  NoneLater(t, n)
<1>1. ASSUME NEW i \in DOMAIN t.cache PROVE t.cache[i].data <= n
  <2> PICK y : y = t.cache[i]
    OBVIOUS
  <2>1. y \in Elements(t.cache)
    BY DEF Elements
  <2>2. From(s, p, y) /\ Shaped(t)
    BY <2>1 DEF Ends
  <2>3. y.data \in Versions
    BY <2>1, <2>2, CacheTyped
  <2>4. CASE y \in Elements(s.cache)
    BY <2>4 DEF NoneLater, Elements
  <2>5. CASE ~p.aborted /\ y.key = p.key /\ y.data = p.data
    BY <2>3, <2>5, NoneAssumption DEF NoneLater
  <2> QED
    BY <2>2, <2>4, <2>5 DEF From
<1>2. ASSUME NEW f \in Slots, t.entry[f] # None, t.entry[f].data # None PROVE t.entry[f].data <= n
  <2>1. Alike(s.entry[f], t.entry[f])
    BY <1>2 DEF Ends
  <2> QED
    BY <1>2, <2>1 DEF Alike, NoneLater
<1> QED
  BY <1>1, <1>2 DEF NoneLater

(* The answer of a request that somebody waits for is as new as any: its   *)
(* key was not in the cache, and no other request for it is pending.       *)
LEMMA EndNewest ==
  ASSUME NEW s, Shaped(s), NEW e \in Slots, NEW p, p = s.entry[e], p # None, ~p.aborted, p.data # None,
         NEW t, Ends(s, t, p, e), NEW n, NoneLater(s, n), NEW d, d.key = p.key, d.version = p.data
  PROVE  NoNewer(d, t, n)
<1>1. p.data <= n /\ p.data \in Versions /\ s.pending[p.key] = e
  BY SchedTyped DEF NoneLater, Shaped, PendingShape
<1>2. ASSUME NEW i \in DOMAIN t.cache, t.cache[i].key = d.key PROVE d.version <= t.cache[i].data
  <2> PICK y : y = t.cache[i]
    OBVIOUS
  <2>1. y \in Elements(t.cache)
    BY DEF Elements
  <2>2. From(s, p, y)
    BY <2>1 DEF Ends
  <2>3. y \notin Elements(s.cache)
    BY <1>1, <1>2, CacheTyped, NoneAssumption DEF Clear
  <2>4. y.data = p.data
    BY <2>2, <2>3 DEF From
  <2> QED
    BY <1>1, <2>4, QueryAssumption DEF Versions
<1>3. ASSUME NEW f \in Slots, t.entry[f] # None, ~t.entry[f].aborted, t.entry[f].key = d.key
      PROVE  FALSE
  <2>1. Alike(s.entry[f], t.entry[f]) /\ f # e
    BY <1>3 DEF Ends
  <2>2. s.entry[f] # None /\ ~s.entry[f].aborted /\ s.entry[f].key = p.key
    BY <1>3, <2>1 DEF Alike
  <2>3. s.pending[p.key] = f
    BY <2>2 DEF Shaped, PendingShape
  <2> QED
    BY <1>1, <2>1, <2>3
<1> QED
  BY <1>1, <1>2, <1>3 DEF NoNewer

LEMMA SettleStep ==
  ASSUME Main, Others, NEW e \in Running(sched), NEW ok \in BOOLEAN,
         ok => sched.entry[e].data # None, Settle(e, ok)
  PROVE  Main'
<1> PICK p : p = sched.entry[e]
  OBVIOUS
<1>1. Shaped(sched) /\ NoneLater(sched, now) /\ e \in Slots /\ p # None
  BY DEF Main, Running
<1>2. p \in Entry /\ p.key \in Keys /\ p.data \in Versions \cup {None} /\ EntryShape(p)
  BY <1>1, SchedTyped DEF Shaped
<1>3. ask' = ask /\ now' = now
  BY DEF Settle
<1> PICK a : a = IF ok THEN Store(sched, e) ELSE sched.cache
  OBVIOUS
<1>4. Answers(sched, e, a)
  <2>1. CASE ok
    BY <1>1, <2>1, StoreParts DEF Answers
  <2>2. CASE ~ok
    BY <1>1, <2>2, CacheTyped DEF Answers, From
  <2> QED
    BY <2>1, <2>2
<1>5. sched' = Release(Ended(sched, e, a))
  BY DEF Settle, Ended
<1>6. Ends(sched, sched', p, e)
  BY <1>1, <1>4, <1>5, EndShape
<1> PICK d : d = IF ok THEN [key |-> p.key, version |-> p.data] ELSE None
  OBVIOUS
<1>7. d \in Data \cup {None}
  BY <1>2 DEF Data
<1>8. d # None => d.key = p.key /\ d.version = p.data /\ p.data # None
  OBVIOUS
<1>9. p.subs # {} => NoNewer(d, sched', now)
  <2> SUFFICES ASSUME p.subs # {}, d # None PROVE NoNewer(d, sched', now)
    BY DEF NoNewer
  <2>1. ~p.aborted
    BY <1>1, <1>2 DEF EntryShape
  <2> QED
    BY <1>1, <1>6, <1>8, <2>1, EndNewest
<1> PICK o : o = Outcome(p.key, d, ~ok)
  OBVIOUS
<1>10. o \in Outcomes /\ o.key = p.key /\ o.data = d /\ ~o.loading
  <2>1. o \in Outcomes
    BY <1>2, <1>7 DEF Outcome, Outcomes
  <2>2. o.key = p.key /\ o.data = d /\ ~o.loading
    BY DEF Outcome
  <2> QED
    BY <2>1, <2>2
<1>11. /\ state' = [c \in Clients |-> IF c \in p.subs THEN o ELSE state[c]]
       /\ phase' = [c \in Clients |-> IF c \in p.subs THEN AfterOutcome(c) ELSE phase[c]]
  BY DEF Settle
<1>12. ASSUME NEW c \in Clients
       PROVE  /\ phase'[c] \in Phases /\ state'[c] \in Outcomes
              /\ ClientOK(sched', now, c, ask[c], phase'[c], state'[c])
  <2>1. CASE c \in p.subs
    <3>1. Held(sched', c) = {}
      BY <1>6, <2>1 DEF Ends
    <3>3. ask[c].key = p.key
      <4>1. e \in Held(sched, c)
        BY <1>1, <2>1 DEF Held
      <4> QED
        BY <4>1 DEF Main, ClientOK, WaitsOf
    <3>4. phase'[c] \in {"idle", "timer"} /\ state'[c] = o
      BY <1>11, <2>1 DEF AfterOutcome
    <3>5. WaitsOf(sched', c, ask[c], phase'[c])
      BY <3>1, <3>4 DEF WaitsOf
    <3>6. AnswerOf(ask[c], phase'[c], state'[c])
      BY <1>8, <1>10, <3>3, <3>4 DEF AnswerOf
    <3>7. NoNewer(state'[c].data, sched', now)
      BY <1>9, <1>10, <2>1, <3>4
    <3> QED
      BY <1>10, <3>4, <3>5, <3>6, <3>7 DEF ClientOK, Phases
  <2>2. CASE c \notin p.subs
    <3>1. Same(sched, sched', c)
      BY <1>6, <2>2 DEF Ends
    <3>2. phase'[c] = phase[c] /\ state'[c] = state[c]
      BY <1>11, <2>2
    <3>3. ClientOK(sched, now, c, ask[c], phase[c], state[c]) /\ phase[c] \in Phases /\ state[c] \in Outcomes
      BY DEF Main
    <3>4. WaitsOf(sched', c, ask[c], phase[c])
      BY <3>1, <3>3, SameWaits DEF ClientOK
    <3>5. NoNewer(state[c].data, sched', now)
      BY <1>1, <1>6, <3>3, EndNewer DEF ClientOK
    <3> QED
      BY <3>2, <3>3, <3>4, <3>5 DEF ClientOK
  <2> QED
    BY <2>1, <2>2
<1>13. phase' \in [Clients -> Phases] /\ state' \in [Clients -> Outcomes]
  <2>1. phase' = [c \in Clients |-> phase'[c]] /\ state' = [c \in Clients |-> state'[c]]
    BY <1>11
  <2> QED
    BY <1>12, <2>1
<1> PICK r : r = [query |-> p.key.query, data |-> d, error |-> ~ok]
  OBVIOUS
<1>14. retained' = [w \in Widgets |-> IF w \in p.subs THEN r ELSE retained[w]]
  BY DEF Settle
<1>15. r \in Retained
  BY <1>2, <1>7 DEF Retained
<1>16. r.query = p.key.query /\ r.data = d
  OBVIOUS
<1>17. retained' \in [Widgets -> Retained \cup {None}]
  BY <1>14, <1>15 DEF Main
<1>18. ASSUME NEW w \in Widgets PROVE RetainedOK(sched', now, retained'[w])
  <2>1. CASE w \in p.subs
    <3>1. NoNewer(d, sched', now)
      BY <1>9, <2>1
    <3> QED
      BY <1>8, <1>14, <1>16, <2>1, <3>1 DEF RetainedOK
  <2>2. CASE w \notin p.subs
    <3>1. RetainedOK(sched, now, retained[w]) /\ retained'[w] = retained[w]
      BY <1>14, <2>2 DEF Main
    <3>2. retained[w] # None => NoNewer(retained[w].data, sched', now)
      BY <1>1, <1>6, <3>1, EndNewer DEF RetainedOK
    <3> QED
      BY <3>1, <3>2 DEF RetainedOK
  <2> QED
    BY <2>1, <2>2
<1>19. NoneLater(sched', now)
  BY <1>1, <1>6, EndLater
<1> QED
  BY <1>3, <1>6, <1>12, <1>13, <1>17, <1>18, <1>19 DEF Main, Ends

LEMMA AnswerStep ==
  ASSUME Main, Others, NEW e \in Slots, Answer(e) \/ Fail(e)
  PROVE  Main' /\ Others'
<1>1. CASE Answer(e)
  <2>1. e \in Running(sched) /\ sched.entry[e].data # None /\ Settle(e, TRUE) /\ trouble' = trouble
    BY <1>1 DEF Answer
  <2>2. Main'
    BY <2>1, SettleStep
  <2>3. Others'
    BY <2>1 DEF Others, Settle
  <2> QED
    BY <2>2, <2>3
<1>2. CASE Fail(e)
  <2>1. e \in Running(sched) /\ Settle(e, FALSE)
    BY <1>2 DEF Fail
  <2>2. trouble' \in 0 .. MaxTrouble
    BY <1>2, QueryAssumption DEF Fail, Others
  <2>3. Main'
    BY <2>1, SettleStep
  <2>4. Others'
    BY <2>1, <2>2 DEF Others, Settle
  <2> QED
    BY <2>3, <2>4
<1> QED
  BY <1>1, <1>2

-----------------------------------------------------------------------------
(* The inductive invariant.                                                *)

LEMMA InitInv == Init => Main /\ Others
<1> SUFFICES ASSUME Init PROVE Main /\ Others
  OBVIOUS
<1>1. FirstKey \in Keys /\ MaxData \in Nat \ {0}
  BY QueryAssumption
<1>2. Others
  <2>1. FirstProps \in Props
    BY <1>1 DEF FirstProps, Props
  <2>2. 1 \in Versions /\ 0 \in 0 .. MaxChanges /\ 0 \in 0 .. MaxTrouble
    BY <1>1, QueryAssumption DEF Versions
  <2> QED
    BY <2>1, <2>2 DEF Init, Others
<1> PICK o : o = NoOutcome
  OBVIOUS
<1>3. o \in Outcomes /\ o.data = None
  BY <1>1, OutcomeTyped DEF NoOutcome
<1>4. ASSUME NEW c \in Clients
      PROVE  state[c] \in Outcomes /\ state[c].data = None
  <2> DEFINE x == c \in Widgets
  <2>1. state[c] = [o EXCEPT !.loading = x] /\ x \in BOOLEAN
    BY DEF Init
  <2> HIDE DEF x
  <2>2. [o EXCEPT !.loading = x] \in Outcomes
    BY <1>3, <2>1 DEF Outcomes
  <2>3. [o EXCEPT !.loading = x].data = o.data
    BY <1>3 DEF Outcomes
  <2> QED
    BY <1>3, <2>1, <2>2, <2>3
<1>5. state \in [Clients -> Outcomes]
  <2>1. state = [c \in Clients |-> state[c]]
    BY DEF Init
  <2> QED
    BY <1>4, <2>1
<1>6. phase \in [Clients -> Phases] /\ \A c \in Clients : phase[c] \in {"start", "gone"}
  BY DEF Init, Phases
<1>7. retained \in [Widgets -> Retained \cup {None}] /\ \A w \in Widgets : retained[w] = None
  BY DEF Init
<1>8. Shaped(sched) /\ Full(sched) /\ NoneLater(sched, now) /\ \A c \in Clients : Held(sched, c) = {}
  BY NewSchedulerShape DEF Init, NoneLater
<1>9. \A c \in Clients : ClientOK(sched, now, c, ask[c], phase[c], state[c])
  BY <1>4, <1>6, <1>8 DEF ClientOK, WaitsOf, AnswerOf, NoNewer
<1>10. \A w \in Widgets : RetainedOK(sched, now, retained[w])
  BY <1>7 DEF RetainedOK
<1> QED
  BY <1>2, <1>5, <1>6, <1>7, <1>8, <1>9, <1>10 DEF Main

LEMMA NextInv == Main /\ Others /\ [Next]_vars => (Main /\ Others)'
<1> SUFFICES ASSUME Main, Others, [Next]_vars PROVE (Main /\ Others)'
  OBVIOUS
<1>1. CASE \E w \in Widgets : Mount(w)
  BY <1>1, MountStep
<1>2. CASE \E w \in Widgets : ChangeRequest(w)
  BY <1>2, ChangeRequestStep
<1>3. CASE \E w \in Widgets : Start(w)
  BY <1>3, StartStep
<1>4. CASE \E w \in Widgets : DebounceFires(w) \/ RefreshFires(w) \/ Refresh(w) \/ Wake(w)
  BY <1>4, AgainStep
<1>5. CASE \E t \in Tips : Point(t)
  BY <1>5, PointStep
<1>6. CASE \E t \in Tips : StartTip(t)
  BY <1>6, StartTipStep
<1>7. CASE \E c \in Clients : Unmount(c)
  BY <1>7, UnmountStep
<1>8. CASE \E e \in Slots : Serve(e)
  BY <1>8, ServeStep
<1>9. CASE \E e \in Slots : Answer(e) \/ Fail(e)
  BY <1>9, AnswerStep
<1>10. CASE VisibilityChange
  BY <1>10, VisibilityStep
<1>11. CASE Invalidate
  BY <1>11, InvalidateStep
<1>12. CASE Observe
  BY <1>12, ObserveStep
<1>13. CASE Expire
  BY <1>13, ExpireStep
<1>14. CASE UNCHANGED vars
  <2>1. /\ sched' = sched /\ ask' = ask /\ phase' = phase /\ prev' = prev /\ state' = state
        /\ retained' = retained /\ hidden' = hidden /\ now' = now /\ changes' = changes /\ trouble' = trouble
    BY <1>14 DEF vars
  <2>2. Main'
    BY <2>1 DEF Main
  <2>3. Others'
    BY <2>1 DEF Others
  <2> QED
    BY <2>2, <2>3
<1> QED
  BY <1>1, <1>2, <1>3, <1>4, <1>5, <1>6, <1>7, <1>8, <1>9, <1>10, <1>11, <1>12, <1>13, <1>14 DEF Next

(* A client that waits has its one live entry, queued or running. *)
LEMMA MainAttached ==
  ASSUME Main
  PROVE  Attached
<1> SUFFICES ASSUME NEW c \in Clients
             PROVE  IF phase[c] = "request"
                    THEN \E e \in Slots : /\ Held(sched, c) = {e}
                                          /\ sched.entry[e].key = ask[c].key /\ ~sched.entry[e].aborted
                                          /\ sched.entry[e].running \/ e \in Waiting(sched)
                    ELSE phase[c] # "wake" => Held(sched, c) = {}
  BY DEF Attached
<1>1. WaitsOf(sched, c, ask[c], phase[c]) /\ Shaped(sched)
  BY DEF Main, ClientOK
<1>2. CASE phase[c] = "request"
  <2>1. PICK e : e \in Held(sched, c)
    BY <1>1, <1>2 DEF WaitsOf
  <2>2. Held(sched, c) = {e}
    BY <1>1, <2>1 DEF Shaped
  <2>3. e \in Slots /\ sched.entry[e] # None /\ c \in sched.entry[e].subs
    BY <2>1 DEF Held
  <2>4. ~sched.entry[e].aborted
    BY <1>1, <2>3 DEF Shaped, EntryShape
  <2>5. sched.entry[e].running \/ e \in Waiting(sched)
    BY <1>1, <2>3 DEF Shaped, QueueShape
  <2>6. sched.entry[e].key = ask[c].key
    BY <1>1, <2>1 DEF WaitsOf
  <2> QED
    BY <1>2, <2>2, <2>3, <2>4, <2>5, <2>6
<1>3. CASE phase[c] # "request"
  BY <1>1, <1>3 DEF WaitsOf
<1> QED
  BY <1>2, <1>3

LEMMA MainInv ==
  ASSUME Main, Others
  PROVE  SchedulerInv
<1>1. TypeOK
  BY DEF Main, Others, TypeOK, Shaped, Phases
<1>2. Attached
  BY MainAttached
<1>3. PlacesUsed
  BY DEF Main, Shaped, Full, PlacesUsed
<1>4. WaitsInv
  BY DEF Main, ClientOK, WaitsOf, WaitsInv
<1>5. AnswersInv
  BY DEF Main, ClientOK, AnswerOf, AnswersInv
<1>6. RetainedInv
  BY DEF Main, RetainedOK, RetainedInv
<1>7. VersionsInv
  <2>1. \A d : NotNewer(d, sched) <=> NoNewer(d, sched, now)
    BY DEF NotNewer, NoNewer
  <2>2. NoneLater(sched, now)
    BY DEF Main
  <2> QED
    BY <2>1, <2>2 DEF Main, ClientOK, RetainedOK, VersionsInv, NoneLater
<1> QED
  BY <1>1, <1>2, <1>3, <1>4, <1>5, <1>6, <1>7 DEF SchedulerInv, Main

(* createQueryScheduler and its clients: in every reachable state every    *)
(* client that waits is attached to one live request for what it asks now, *)
(* never more than Concurrency requests run, and none waits in the queue   *)
(* while a place is free.                                                  *)
THEOREM SchedulerInvariant == Spec => []SchedulerInv
<1>1. Init => Main /\ Others
  BY InitInv
<1>2. Main /\ Others /\ [Next]_vars => (Main /\ Others)'
  BY NextInv
<1>3. Main /\ Others => SchedulerInv
  BY MainInv
<1> QED
  BY <1>1, <1>2, <1>3, PTL DEF Spec

LEMMA MainOwn ==
  ASSUME Main, Others
  PROVE  OwnAnswer
<1> SUFFICES ASSUME NEW c \in Clients, Shown(c) # None
             PROVE  /\ Shown(c).key.query = ask[c].key.query
                    /\ phase[c] \in {"idle", "timer"} /\ ask[c].enabled /\ ~Loading(c)
                          => Shown(c).key = ask[c].key
  BY DEF OwnAnswer
<1>1. AnswerOf(ask[c], phase[c], state[c])
  BY DEF Main, ClientOK
<1>2. Matches(c) /\ Shown(c) = state[c].data /\ state[c].data # None
  BY DEF Shown
<1>3. state[c].key.query = ask[c].key.query
  BY <1>2 DEF Matches
<1>4. Shown(c).key.query = ask[c].key.query
  BY <1>1, <1>2, <1>3 DEF AnswerOf
<1>5. ASSUME phase[c] \in {"idle", "timer"}, ask[c].enabled, ~Loading(c)
      PROVE  Shown(c).key = ask[c].key
  <2>1. state[c].key = ask[c].key /\ ~state[c].loading
    BY <1>5 DEF Loading
  <2> QED
    BY <1>1, <1>2, <1>5, <2>1 DEF AnswerOf
<1> QED
  BY <1>4, <1>5

(* What useWidgetQuery and useTooltipQuery return: an answer on screen is  *)
(* one of the query the client has now, and at rest of its very request.   *)
THEOREM AnswersAreOwn == Spec => []OwnAnswer
<1>1. Init => Main /\ Others
  BY InitInv
<1>2. Main /\ Others /\ [Next]_vars => (Main /\ Others)'
  BY NextInv
<1>3. Main /\ Others => OwnAnswer
  BY MainOwn
<1> QED
  BY <1>1, <1>2, <1>3, PTL DEF Spec

-----------------------------------------------------------------------------
(* Answers never get older.                                                *)

(* e is no older an answer than d, when they answer the same request. *)
Risen(d, e) == d # None /\ e # None /\ d.key = e.key => d.version <= e.version
Rising(c)   == Risen(state[c].data, state'[c].data)

LEMMA RisenSame ==
  ASSUME NEW d \in Data \cup {None}, NEW e, e = d \/ e = None \/ d = None
  PROVE  Risen(d, e)
<1>1. d # None => d.version \in Versions
  BY DEF Data
<1> QED
  BY <1>1, QueryAssumption DEF Risen, Versions

LEMMA StateData ==
  ASSUME Main, NEW c \in Clients
  PROVE  state[c].data \in Data \cup {None}
<1>1. state[c] \in Outcomes
  BY DEF Main
<1> QED
  BY <1>1 DEF Outcomes

(* The cached answer is no older than what the client shows. *)
LEMMA CallRising ==
  ASSUME Main, Others, NEW c \in Clients, NEW s, Undisturbed(sched, s, Clients \ {c}),
         NEW b, b \in Outcomes, b.data = state[c].data \/ b.data = None, NEW manual \in BOOLEAN,
         Call(c, s, b, manual)
  PROVE  \A x \in Clients : Rising(x)
<1> PICK k : k = ask[c].key
  OBVIOUS
<1>1. k \in Keys
  BY DEF Others, Props
<1>2. \A x \in Clients \ {c} : state'[x] = state[x]
  BY DEF Call, Main
<1>3. Risen(state[c].data, state'[c].data)
  <2>1. CASE CacheHit(s, k)
    <3> PICK d : d = state[c].data
      OBVIOUS
    <3> PICK a : a = CachedAnswer(s, k)
      OBVIOUS
    <3>1. Shaped(s) /\ Fewer(sched, s) /\ NoneLater(s, now)
      BY FewerLater DEF Undisturbed, Main
    <3>2. NoNewer(d, s, now)
      BY <3>1, FewerNewer DEF Main, ClientOK
    <3>3. state'[c] = Outcome(k, a, FALSE)
      BY <2>1 DEF Call, CachedAnswer, Main
    <3>4. a \in Data
      BY <1>1, <2>1, <3>1, CachedNewest
    <3>5. state'[c].data = a
      BY <3>3 DEF Outcome
    <3>6. /\ CacheAt(s, k) \in DOMAIN s.cache /\ s.cache[CacheAt(s, k)] = Cached(s, k)
          /\ Cached(s, k).key = k
      BY <1>1, <2>1, <3>1, CachedParts DEF CacheHit
    <3>7. a.key = k /\ a.version = Cached(s, k).data
      BY DEF CachedAnswer
    <3> QED
      BY <3>2, <3>5, <3>6, <3>7 DEF Risen, NoNewer
  <2>2. CASE ~CacheHit(s, k)
    <3>1. state'[c] = Awaiting(b, manual)
      BY <2>2 DEF Call, Awaiting, Main
    <3>2. state'[c].data = b.data
      BY <3>1, AwaitingTyped
    <3> QED
      BY <3>2, StateData, RisenSame
  <2> QED
    BY <2>1, <2>2
<1>4. ASSUME NEW x \in Clients PROVE Rising(x)
  <2>1. CASE x = c
    BY <1>3, <2>1 DEF Rising
  <2>2. CASE x # c
    BY <1>2, <2>2, StateData, RisenSame DEF Rising
  <2> QED
    BY <2>1, <2>2
<1> QED
  BY <1>4

(* A step that gives a client no answer but the one it has. *)
LEMMA StillRising ==
  ASSUME Main, NEW c \in Clients,
         state'[c].data = state[c].data \/ state'[c].data = None \/ state[c].data = None
  PROVE  Rising(c)
BY StateData, RisenSame DEF Rising

LEMMA OneRising ==
  ASSUME Main, NEW c \in Clients, NEW st, state' = [state EXCEPT ![c] = st],
         st.data = state[c].data \/ st.data = None \/ state[c].data = None
  PROVE  \A x \in Clients : Rising(x)
<1>1. state'[c] = st /\ \A x \in Clients \ {c} : state'[x] = state[x]
  BY DEF Main
<1> QED
  BY <1>1, StillRising

LEMMA RunRising ==
  ASSUME Main, Others, NEW w \in Widgets,
         NEW b, b \in Outcomes, b.data = state[w].data \/ b.data = None, NEW manual \in BOOLEAN,
         Run(w, b, manual)
  PROVE  \A x \in Clients : Rising(x)
<1>1. w \in Clients
  BY DEF Clients
<1> PICK s : s = Detach(sched, w)
  OBVIOUS
<1>2. Undisturbed(sched, s, Clients \ {w})
  BY <1>1, DetachShape DEF Main
<1>3. CASE ask[w].key.query = Blank \/ ~ask[w].enabled
  <2> PICK st : st = IF ask[w].key.query = Blank THEN Outcome(ask[w].key, None, FALSE) ELSE NotLoading(b)
    OBVIOUS
  <2>1. state' = [state EXCEPT ![w] = st]
    BY <1>3 DEF Run, NotLoading
  <2>2. Outcome(ask[w].key, None, FALSE).data = None
    BY DEF Outcome
  <2>3. NotLoading(b).data = b.data
    BY DEF NotLoading, Outcomes
  <2>4. st.data = None \/ st.data = state[w].data
    BY <2>2, <2>3
  <2> QED
    BY <1>1, <2>1, <2>4, OneRising
<1>4. CASE ~(ask[w].key.query = Blank \/ ~ask[w].enabled)
  <2>1. Call(w, s, b, manual)
    BY <1>4 DEF Run
  <2> QED
    BY <1>1, <1>2, <2>1, CallRising
<1> QED
  BY <1>3, <1>4

LEMMA StartRising ==
  ASSUME Main, Others, NEW w \in Widgets, Start(w)
  PROVE  \A x \in Clients : Rising(x)
<1>1. w \in Clients
  BY DEF Clients
<1> PICK b : b = IF prev[w] # ask[w].key THEN Reloading(w) ELSE state[w]
  OBVIOUS
<1>2. b \in Outcomes
  BY <1>1, ReloadingBefore, ShownBefore DEF Before
<1>3. b.data = state[w].data \/ b.data = None
  <2>1. Reloading(w).data = IF state[w].key.query = ask[w].key.query THEN state[w].data ELSE None
    BY DEF Reloading
  <2> QED
    BY <2>1
<1>4. CASE prev[w] # ask[w].key /\ w \in Debounced /\ ask[w].enabled
  <2>1. state' = [state EXCEPT ![w] = b]
    BY <1>4 DEF Start
  <2> QED
    BY <1>1, <1>3, <2>1, OneRising
<1>5. CASE ~(prev[w] # ask[w].key /\ w \in Debounced /\ ask[w].enabled)
  <2>1. Run(w, b, FALSE)
    BY <1>5 DEF Start
  <2> QED
    BY <1>2, <1>3, <2>1, RunRising
<1> QED
  BY <1>4, <1>5

(* The answer of a shared request is no older than what its subscribers    *)
(* show.                                                                   *)
LEMMA SettleRising ==
  ASSUME Main, NEW e \in Running(sched), NEW ok \in BOOLEAN,
         ok => sched.entry[e].data # None, Settle(e, ok), NEW c \in Clients
  PROVE  Rising(c)
<1> PICK p : p = sched.entry[e]
  OBVIOUS
<1>1. Shaped(sched) /\ e \in Slots /\ p # None /\ EntryShape(p)
  BY DEF Main, Running, Shaped
<1> PICK d : d = IF ok THEN [key |-> p.key, version |-> p.data] ELSE None
  OBVIOUS
<1>2. d # None => d.key = p.key /\ d.version = p.data /\ p.data # None
  OBVIOUS
<1>3. CASE c \in p.subs
  <2>1. state'[c] = Outcome(p.key, d, ~ok)
    BY <1>3 DEF Settle
  <2>2. state'[c].data = d
    BY <2>1 DEF Outcome
  <2>3. ~p.aborted
    BY <1>1, <1>3 DEF EntryShape
  <2>4. NoNewer(state[c].data, sched, now)
    BY DEF Main, ClientOK
  <2>5. Risen(state[c].data, d)
    BY <1>1, <1>2, <2>3, <2>4 DEF Risen, NoNewer
  <2> QED
    BY <2>2, <2>5 DEF Rising
<1>4. CASE c \notin p.subs
  <2>1. state'[c] = state[c]
    BY <1>4 DEF Settle
  <2> QED
    BY <2>1, StillRising
<1> QED
  BY <1>3, <1>4

LEMMA NextRising ==
  ASSUME Main, Others, [Next]_vars
  PROVE  \A x \in Clients : Rising(x)
<1>1. ASSUME NEW w \in Widgets, Mount(w) PROVE \A x \in Clients : Rising(x)
  <2>1. w \in Clients /\ phase[w] = "gone"
    BY <1>1 DEF Clients, Mount
  <2>2. state[w].data = None
    BY <2>1 DEF Main, ClientOK, AnswerOf
  <2>3. \A x \in Clients \ {w} : state'[x] = state[x]
    BY <1>1 DEF Mount, Main
  <2> QED
    BY <2>2, <2>3, StillRising
<1>2. ASSUME NEW w \in Widgets, ChangeRequest(w) PROVE \A x \in Clients : Rising(x)
  BY <1>2, StillRising DEF ChangeRequest
<1>3. ASSUME NEW w \in Widgets, Start(w) PROVE \A x \in Clients : Rising(x)
  BY <1>3, StartRising
<1>4. ASSUME NEW w \in Widgets, DebounceFires(w) \/ RefreshFires(w) \/ Refresh(w) \/ Wake(w)
      PROVE  \A x \in Clients : Rising(x)
  <2>1. w \in Clients
    BY DEF Clients
  <2>2. state[w] \in Outcomes
    BY <2>1 DEF Main
  <2>3. \E manual \in BOOLEAN : Run(w, state[w], manual)
    BY <1>4 DEF DebounceFires, RefreshFires, Refresh, Wake
  <2> QED
    BY <2>2, <2>3, RunRising
<1>5. ASSUME NEW t \in Tips, Point(t) PROVE \A x \in Clients : Rising(x)
  BY <1>5, StillRising DEF Point
<1>6. ASSUME NEW t \in Tips, StartTip(t) PROVE \A x \in Clients : Rising(x)
  <2>1. t \in Clients
    BY DEF Clients
  <2>2. Undisturbed(sched, sched, Clients \ {t})
    BY DEF Undisturbed, Fewer, Same, Main
  <2> PICK b : b = Outcome(ask[t].key, None, FALSE)
    OBVIOUS
  <2>3. ask[t].key \in Keys
    BY <2>1 DEF Others, Props
  <2>4. b \in Outcomes /\ b.data = None
    BY <2>3, OutcomeTyped
  <2>5. Call(t, sched, b, FALSE)
    BY <1>6 DEF StartTip
  <2> QED
    BY <2>1, <2>2, <2>4, <2>5, CallRising
<1>7. ASSUME NEW c \in Clients, Unmount(c) PROVE \A x \in Clients : Rising(x)
  <2>1. state' = [state EXCEPT ![c] = NoOutcome]
    BY <1>7 DEF Unmount
  <2>2. NoOutcome.data = None
    BY DEF NoOutcome, Outcome
  <2> QED
    BY <2>1, <2>2, OneRising
<1>8. ASSUME NEW e \in Slots, Serve(e) PROVE \A x \in Clients : Rising(x)
  BY <1>8, StillRising DEF Serve
<1>9. ASSUME NEW e \in Slots, Answer(e) PROVE \A x \in Clients : Rising(x)
  <2>1. e \in Running(sched) /\ sched.entry[e].data # None /\ Settle(e, TRUE)
    BY <1>9 DEF Answer
  <2> QED
    BY <2>1, SettleRising
<1>10. ASSUME NEW e \in Slots, Fail(e) PROVE \A x \in Clients : Rising(x)
  <2>1. e \in Running(sched) /\ Settle(e, FALSE)
    BY <1>10 DEF Fail
  <2> QED
    BY <2>1, SettleRising
<1>11. ASSUME VisibilityChange \/ Invalidate \/ Observe \/ Expire \/ UNCHANGED vars
       PROVE  \A x \in Clients : Rising(x)
  <2>1. state' = state
    BY <1>11 DEF VisibilityChange, Invalidate, Observe, Expire, vars
  <2> QED
    BY <2>1, StillRising
<1> QED
  BY <1>1, <1>2, <1>3, <1>4, <1>5, <1>6, <1>7, <1>8, <1>9, <1>10, <1>11 DEF Next

LEMMA NextNeverOlder ==
  ASSUME Main, Others, (Main /\ Others)', [Next]_vars
  PROVE  \A c \in Clients :
            /\ Shown(c) # None /\ Shown(c)' # None
            /\ Shown(c).key = Shown(c)'.key
            => Shown(c)'.version >= Shown(c).version
<1> SUFFICES ASSUME NEW c \in Clients, Shown(c) # None, Shown(c)' # None, Shown(c).key = Shown(c)'.key
             PROVE  Shown(c)'.version >= Shown(c).version
  OBVIOUS
<1>1. Rising(c)
  BY NextRising
<1>2. Shown(c) = state[c].data
  BY DEF Shown
<1>3. Shown(c)' = state'[c].data
  BY DEF Shown
<1>4. state[c].data.version <= state'[c].data.version
  BY <1>1, <1>2, <1>3 DEF Rising, Risen
<1>5. state[c].data \in Data
  BY <1>2, StateData
<1>6. state'[c].data \in Data
  <2>1. state'[c] \in Outcomes
    BY DEF Main
  <2> QED
    BY <1>3, <2>1 DEF Outcomes
<1>7. state[c].data.version \in Int /\ state'[c].data.version \in Int
  BY <1>5, <1>6, QueryAssumption DEF Data, Versions
<1> QED
  BY <1>2, <1>3, <1>4, <1>7

(* The cache, the shared requests and what the canvas retains: an answer   *)
(* that replaces another for the same request was read no earlier.         *)
THEOREM AnswersNeverOlder == Spec => NeverOlder
<1>1. Init => Main /\ Others
  BY InitInv
<1>2. Main /\ Others /\ [Next]_vars => (Main /\ Others)'
  BY NextInv
<1>3. Main /\ Others /\ (Main /\ Others)' /\ [Next]_vars =>
        [\A c \in Clients :
            /\ Shown(c) # None /\ Shown(c)' # None
            /\ Shown(c).key = Shown(c)'.key
            => Shown(c)'.version >= Shown(c).version]_vars
  BY NextNeverOlder
<1> QED
  BY <1>1, <1>2, <1>3, PTL DEF Spec, NeverOlder
=============================================================================
