------------------------- MODULE CoordinatorProofs -------------------------
(* Proofs about the coordinator, for any set of replicas and any bound.    *)
EXTENDS Coordinator, TLAPS

(* The local updates keep a replica's state well typed. *)
LEMMA LocalTyped ==
  ASSUME NEW p \in Local
  PROVE  /\ \A b \in {"fresh", "ok"} : StartSync(p, b) \in Local
         /\ \A S \in SUBSET Replicas : Snapshot(p, S) \in Local
         /\ \A m \in Replicas : Keep(p, m) \in Local /\ Condemn(p, m) \in Local
         /\ Resume(p) \in Local
         /\ Rebuild(p) \in Local
BY DEF Local, StartSync, Snapshot, Keep, Condemn, Resume, Rebuild

(* Every state the coordinator and Redis can reach is well typed.          *)
THEOREM CoordinatorTyped == Spec => []TypeOK
<1>1. Init => TypeOK
  BY BoundAssumption DEF Init, TypeOK, Local, New
<1>2. TypeOK /\ [Next]_vars => TypeOK'
  <2> SUFFICES ASSUME TypeOK, [Next]_vars PROVE TypeOK'
    OBVIOUS
  <2> USE BoundAssumption, LocalTyped DEF TypeOK, Event, SetMembers
  <2>1. CASE UNCHANGED vars
    BY <2>1 DEF vars
  <2>2. ASSUME NEW r \in Replicas, Progress(r) PROVE TypeOK'
    <3>1. CASE JoinSet(r)
      BY <3>1 DEF JoinSet
    <3>2. CASE Heartbeat(r)
      BY <3>2 DEF Heartbeat
    <3>3. CASE SyncRead(r)
      BY <3>3 DEF SyncRead
    <3>4. ASSUME NEW m \in Replicas, CheckMember(r, m) PROVE TypeOK'
      BY <3>4 DEF CheckMember
    <3>5. CASE RemoveMember(r)
      BY <3>5 DEF RemoveMember
    <3>6. CASE SyncDone(r)
      BY <3>6 DEF SyncDone
    <3> QED
      BY <2>2, <3>1, <3>2, <3>3, <3>4, <3>5, <3>6 DEF Progress
  <2>3. ASSUME NEW r \in Replicas, Environment(r) PROVE TypeOK'
    <3>1. CASE JoinAdd(r)
      BY <3>1 DEF JoinAdd, New, Local
    <3>2. CASE JoinFail(r)
      BY <3>2 DEF JoinFail, New, Local
    <3>3. CASE HeartbeatFail(r)
      BY <3>3 DEF HeartbeatFail, Local
    <3>4. CASE SyncReadFail(r)
      BY <3>4 DEF SyncReadFail, Local
    <3>5. ASSUME NEW m \in Replicas, CheckMemberFail(r, m) PROVE TypeOK'
      BY <3>5 DEF CheckMemberFail
    <3>6. CASE RemoveMemberFail(r)
      BY <3>6 DEF RemoveMemberFail
    <3>7. CASE Leave(r)
      BY <3>7 DEF Leave, New, Local
    <3>8. CASE Crash(r)
      BY <3>8 DEF Crash, New, Local
    <3> QED
      BY <2>3, <3>1, <3>2, <3>3, <3>4, <3>5, <3>6, <3>7, <3>8 DEF Environment
  <2>4. ASSUME NEW r \in Replicas, ExpireKey(r) PROVE TypeOK'
    BY <2>4 DEF ExpireKey
  <2>5. CASE ExpireSet
    BY <2>5 DEF ExpireSet
  <2> QED
    BY <2>1, <2>2, <2>3, <2>4, <2>5 DEF Next
<1> QED
  BY <1>1, <1>2, PTL DEF Spec

(* SyncInv is inductive relative to the types: a renewing replica has its  *)
(* key, a syncing replica is renewing, so the key it tests for itself is   *)
(* there and it never becomes its own victim.                              *)
LEMMA SyncInvStep == TypeOK /\ SyncInv /\ [Next]_vars => SyncInv'
<1> SUFFICES ASSUME TypeOK, SyncInv, [Next]_vars PROVE SyncInv'
  OBVIOUS
<1> USE NoPodAssumption DEF TypeOK, Local, SyncInv, Syncing, Up, StartSync, Snapshot,
    Keep, Condemn, Resume, Rebuild
<1>1. CASE UNCHANGED vars
  BY <1>1 DEF vars
<1>2. ASSUME NEW r \in Replicas, Progress(r) PROVE SyncInv'
  <2>1. CASE JoinSet(r)
    BY <2>1 DEF JoinSet
  <2>2. CASE Heartbeat(r)
    BY <2>2 DEF Heartbeat
  <2>3. CASE SyncRead(r)
    BY <2>3 DEF SyncRead
  <2>4. ASSUME NEW m \in Replicas, CheckMember(r, m) PROVE SyncInv'
    BY <2>4 DEF CheckMember
  <2>5. CASE RemoveMember(r)
    BY <2>5 DEF RemoveMember
  <2>6. CASE SyncDone(r)
    BY <2>6 DEF SyncDone
  <2> QED
    BY <1>2, <2>1, <2>2, <2>3, <2>4, <2>5, <2>6 DEF Progress
<1>3. ASSUME NEW r \in Replicas, Environment(r) PROVE SyncInv'
  <2>1. CASE JoinAdd(r)
    BY <2>1 DEF JoinAdd, New
  <2>2. CASE JoinFail(r)
    BY <2>2 DEF JoinFail, New
  <2>3. CASE HeartbeatFail(r)
    BY <2>3 DEF HeartbeatFail
  <2>4. CASE SyncReadFail(r)
    BY <2>4 DEF SyncReadFail
  <2>5. ASSUME NEW m \in Replicas, CheckMemberFail(r, m) PROVE SyncInv'
    BY <2>5 DEF CheckMemberFail
  <2>6. CASE RemoveMemberFail(r)
    BY <2>6 DEF RemoveMemberFail
  <2>7. CASE Leave(r)
    BY <2>7 DEF Leave, New
  <2>8. CASE Crash(r)
    BY <2>8 DEF Crash, New
  <2> QED
    BY <1>3, <2>1, <2>2, <2>3, <2>4, <2>5, <2>6, <2>7, <2>8 DEF Environment
<1>4. ASSUME NEW r \in Replicas, ExpireKey(r) PROVE SyncInv'
  BY <1>4 DEF ExpireKey
<1>5. CASE ExpireSet
  BY <1>5 DEF ExpireSet
<1> QED
  BY <1>1, <1>2, <1>3, <1>4, <1>5 DEF Next

(* The inductive invariant of the registry holds throughout: a replica     *)
(* that walks the members renews its own key, the key is there, and the    *)
(* one member it is about to remove is another's.                          *)
THEOREM RegistryInvariant == Spec => []IndInv
<1>1. Init => SyncInv
  BY NoPodAssumption DEF Init, SyncInv, New, Syncing, Up
<1> QED
  BY <1>1, SyncInvStep, CoordinatorTyped, PTL DEF Spec, IndInv

(* No replica ever evicts itself from the registry, however many replicas  *)
(* join, crash, lapse and evict each other meanwhile.                      *)
THEOREM NeverEvictsItself == Spec => []NoSelfEviction
<1>1. IndInv => NoSelfEviction
  BY DEF IndInv, SyncInv, NoSelfEviction
<1> QED
  BY <1>1, RegistryInvariant, PTL
=============================================================================
