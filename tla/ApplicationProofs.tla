------------------------- MODULE ApplicationProofs -------------------------
(* Proofs about the delivery flow of an Application, for any finite set of *)
(* sources, any number of rings, any retry cap and any choice of inputs.   *)
EXTENDS Application, TLAPS, FiniteSetTheorems

(* The updates of a status copy keep it well typed. *)
LEMMA AppTyped ==
  ASSUME NEW a \in App
  PROVE  /\ \A x \in {"Pending", "Promoting", "Healthy", "Degraded", "RolledBack"} :
               /\ [a EXCEPT !.phase = x] \in App
               /\ \A r \in Refs : [a EXCEPT !.ref = r, !.phase = x] \in App
         /\ \A r \in Refs : [a EXCEPT !.ref = r] \in App
         /\ \A h \in Hashes : [a EXCEPT !.hash = h] \in App
         /\ RestartRings(a) \in App
         /\ Preserving(a) \in App \/ app \notin App
<1>1. 0 \in 0..N
  BY RingAssumption
<1> QED
  BY <1>1 DEF App, RestartRings, Preserving

(* So does a promotion to the next ring. *)
LEMMA RingTyped ==
  ASSUME NEW a \in App, NEW k \in 0..N, NEW r \in Refs
  PROVE  /\ [a EXCEPT !.stage = k, !.ref = r, !.phase = "Promoting"] \in App
         /\ [a EXCEPT !.stage = k, !.ref = r] \in App
BY DEF App

(* The initial records are well typed. *)
LEMMA IdleTyped == NewApp \in App /\ Idle \in Ctl /\ NoAnn \in Ann
<1>1. NewApp \in App
  BY RingAssumption DEF NewApp, App, Hashes, Refs
<1> QED
  BY <1>1, BoundAssumption DEF Idle, Ctl, NoAnn, Ann, Points, Hashes, Refs

(* The updates of a release keep it well typed. *)
LEMMA ReleaseTyped ==
  ASSUME NEW p \in Release
  PROVE  /\ \A x \in Phases : [p EXCEPT !.phase = x] \in Release
         /\ \A x \in {"no", "auto", "drift", "manual"} : [p EXCEPT !.resync = x] \in Release
         /\ \A x \in {"no", "auto", "human"} : [p EXCEPT !.rollback = x] \in Release
         /\ \A x \in Phases : [p EXCEPT !.phase = x, !.snapshot = "yes"] \in Release
         /\ [p EXCEPT !.phase = "Complete", !.retries = 0] \in Release
         /\ \A x \in Phases : [p EXCEPT !.resync = "no", !.phase = x] \in Release
         /\ Stamp(p) \in Release
         /\ \A x \in {"auto", "manual"} : Resynced(p, x) \in Release
         /\ \A seen : Requested(p, seen) \in Release
<1> USE BoundAssumption
<1>1. /\ \A x \in Phases : [p EXCEPT !.phase = x] \in Release
      /\ \A x \in {"no", "auto", "drift", "manual"} : [p EXCEPT !.resync = x] \in Release
      /\ \A x \in {"no", "auto", "human"} : [p EXCEPT !.rollback = x] \in Release
      /\ \A x \in Phases : [p EXCEPT !.resync = "no", !.phase = x] \in Release
  BY DEF Release
<1>2. \A x \in Phases : [p EXCEPT !.phase = x, !.snapshot = "yes"] \in Release
  BY DEF Release
<1>3. [p EXCEPT !.phase = "Complete", !.retries = 0] \in Release
  BY DEF Release, Phases
<1>4. Stamp(p) \in Release
  BY DEF Release, Stamp
<1>5. ASSUME NEW x \in {"auto", "manual"} PROVE Resynced(p, x) \in Release
  <2>1. p.retries \in Nat
    BY DEF Release
  <2> DEFINE n == IF x = "manual" THEN 0 ELSE p.retries + 1
  <2>2. n \in Nat
    BY <2>1
  <2>3. Resynced(p, x) = [p EXCEPT !.resync = x, !.rollback = "no", !.retries = n]
    BY DEF Resynced
  <2> HIDE DEF n
  <2> QED
    BY <2>2, <2>3 DEF Release
<1>6. ASSUME NEW seen PROVE Requested(p, seen) \in Release
  BY <1>1 DEF Requested, AnalysisFailed
<1> QED
  BY <1>1, <1>2, <1>3, <1>4, <1>5, <1>6

(* A release name is built from the recorded source and the current ring.  *)
LEMMA NameTyped ==
  ASSUME NEW a \in App
  PROVE  /\ CurrentStage(a) \in Rings
         /\ ReleaseName(a) \in Rel
         /\ ReleaseName(a)[1] = a.hash
<1>1. a.stage \in 0..N /\ a.hash \in Hashes
  BY DEF App
<1>2. CurrentStage(a) \in Rings
  BY <1>1, RingAssumption DEF CurrentStage, Rings
<1> QED
  BY <1>1, <1>2 DEF ReleaseName, Rel

(* There are finitely many release names. *)
LEMMA RelFinite == IsFiniteSet(Rel)
<1>1. IsFiniteSet(Hashes)
  BY SourceAssumption, FS_AddElement DEF Hashes
<1>2. IsFiniteSet(Rings)
  BY RingAssumption, FS_Interval DEF Rings
<1> QED
  BY <1>1, <1>2, FS_Product DEF Rel

(* The steps' common writes keep the variables they write well typed. *)
LEMMA CreateTyped ==
  ASSUME TypeOK, NEW r \in Rel, Create(r)
  PROVE  rel' \in [Rel -> Release]
<1> DEFINE S == {q \in Rel : Exists(q)}
<1>1. S \subseteq Rel
  OBVIOUS
<1>2. Cardinality(S) \in Nat
  BY <1>1, RelFinite, FS_Subset, FS_CardinalityType
<1>3. Created = [Absent EXCEPT !.phase = "new", !.born = 1 + Cardinality(S)]
  BY DEF Created
<1> HIDE DEF S
<1>4. Created \in Release
  <2>1. Absent \in Release
    BY BoundAssumption DEF Absent, Release, Phases
  <2>2. \A p \in Release, n \in Nat : [p EXCEPT !.phase = "new", !.born = n] \in Release
    BY DEF Release, Phases
  <2>3. 1 + Cardinality(S) \in Nat
    BY <1>2
  <2> QED
    BY <1>3, <2>1, <2>2, <2>3
<1> QED
  BY <1>4 DEF Create, TypeOK

(* Writing one well-typed release keeps all of them well typed. *)
LEMMA WriteTyped ==
  ASSUME TypeOK, NEW r \in Rel, NEW p \in Release, rel' = [rel EXCEPT ![r] = p]
  PROVE  rel' \in [Rel -> Release]
BY DEF TypeOK

(* A rollback that moves on or ends is well typed. *)
LEMMA RollbackTyped ==
  ASSUME TypeOK, NEW r \in Rel
  PROVE  /\ \A x \in {"none", "begun", "applied", "stamped", "marked"} :
               [rb EXCEPT ![r].at = x] \in [Rel -> Rollback]
         /\ \A b \in Rollback : [rb EXCEPT ![r] = b] \in [Rel -> Rollback]
         /\ NoRollback \in Rollback
         /\ rb[r].target \in Refs
BY DEF TypeOK, Rollback, NoRollback, Refs

(* Setting the phase keeps the releases well typed. *)
LEMMA PhaseTyped ==
  ASSUME TypeOK, NEW r \in Refs, NEW x \in Phases, rel' = [rel EXCEPT ![r].phase = x]
  PROVE  rel' \in [Rel -> Release]
BY ReleaseTyped DEF TypeOK

(* Moving a reconcile on keeps it well typed. *)
LEMMA AtTyped ==
  ASSUME NEW c \in Ctl, NEW pc \in Points
  PROVE  At(c, pc) \in Ctl
BY IdleTyped DEF At, Ctl

(* A reconcile may hold any well-typed copy. *)
LEMMA HoldingTyped ==
  ASSUME TypeOK, NEW a \in App
  PROVE  Holding(a) \in Ctl
BY DEF Holding, Ctl, TypeOK

(* Holding a copy and moving on keeps a reconcile well typed. *)
LEMMA HoldTyped ==
  ASSUME TypeOK, NEW a \in App, NEW pc \in Points, ctl' = At(Holding(a), pc)
  PROVE  ctl' \in Ctl
BY AtTyped, HoldingTyped

(* A status write keeps the status and the reconcile well typed. *)
LEMMA PatchTyped ==
  ASSUME TypeOK, NEW a \in App, NEW pc \in Points, Patch(a, pc)
  PROVE  app' \in App /\ ctl' \in Ctl
<1>1. Preserving(a) \in App
  BY AppTyped DEF TypeOK
<1> QED
  BY <1>1, HoldTyped DEF Patch

(* Moving on without a write keeps the types. *)
LEMMA GotoTyped ==
  ASSUME TypeOK, NEW pc \in Points, Goto(pc)
  PROVE  app' \in App /\ ctl' \in Ctl
BY AtTyped DEF TypeOK, Goto

(* Clearing manual-sync keeps the annotations well typed. *)
LEMMA ClearTyped ==
  ASSUME TypeOK, ClearManual
  PROVE  ann' \in Ann
BY DEF TypeOK, ClearManual, Ann

(* An input stays within the bound. *)
LEMMA EventTyped ==
  ASSUME TypeOK, NEW kind, Event(kind)
  PROVE  events' \in 0..MaxEvents
BY BoundAssumption DEF TypeOK, Event

(* What a reconcile holds is well typed. *)
LEMMA MemTyped ==
  ASSUME TypeOK
  PROVE  /\ ctl.mem \in App /\ ctl.seen \in Hashes
         /\ HasRelease(ctl.mem) => ctl.mem.ref \in Rel
         /\ ctl.mem.ref \in Refs
         /\ head \in Hashes /\ NoRel \in Refs /\ Rel \subseteq Refs
BY DEF TypeOK, Ctl, App, Refs, HasRelease, Hashes

(* Every step keeps the types. *)
LEMMA TypedStep == TypeOK /\ PromoteInv /\ [Next]_vars => TypeOK'
<1> SUFFICES ASSUME TypeOK, PromoteInv, [Next]_vars PROVE TypeOK'
  OBVIOUS
<1> USE DEF TypeOK, ctlVars, world
<1>1. CASE UNCHANGED vars
  BY <1>1 DEF vars
<1>2. CASE AppStep
  <2>1. CASE Reconcile
    <3>1. ctl' \in Ctl
      BY <2>1, BoundAssumption, IdleTyped, MemTyped DEF Reconcile, Idle, Ctl, Points, Ann
    <3> QED
      BY <2>1, <3>1 DEF Reconcile
  <2>2. CASE ConsumeSyncTrigger
    <3>1. ctl' \in Ctl
      BY <2>2, HoldTyped DEF ConsumeSyncTrigger, Points
    <3>2. ann' \in Ann
      BY <2>2, BoundAssumption DEF ConsumeSyncTrigger, Ann
    <3> QED
      BY <2>2, <3>1, <3>2 DEF ConsumeSyncTrigger
  <2>3. CASE RecordSyncedSource
    <3>1. [ctl.mem EXCEPT !.hash = ctl.seen] \in App
      BY MemTyped, AppTyped
    <3>2. app' \in App /\ ctl' \in Ctl
      BY <2>3, <3>1, PatchTyped, GotoTyped DEF RecordSyncedSource, Points
    <3> QED
      BY <2>3, <3>2 DEF RecordSyncedSource
  <2>4. CASE RequestCurrentReleaseResync
    <3>1. ctl' \in Ctl /\ app' \in App
      BY <2>4, GotoTyped DEF RequestCurrentReleaseResync, Points
    <3>2. CASE HasRelease(ctl.mem)
      <4>1. Resynced(rel[ctl.mem.ref], "manual") \in Release
        BY <3>2, MemTyped, ReleaseTyped
      <4>2. rel' \in [Rel -> Release]
        BY <2>4, <3>2, <4>1, MemTyped, WriteTyped DEF RequestCurrentReleaseResync
      <4> QED
        BY <2>4, <3>1, <4>2 DEF RequestCurrentReleaseResync
    <3>3. CASE ~HasRelease(ctl.mem)
      BY <2>4, <3>1, <3>3 DEF RequestCurrentReleaseResync
    <3> QED
      BY <3>2, <3>3
  <2>5. CASE FinishSyncTrigger
    BY <2>5, MemTyped, AppTyped, PatchTyped DEF FinishSyncTrigger, Points
  <2>6. CASE ReplaceRelease
    BY <2>6, GotoTyped DEF ReplaceRelease, Points
  <2>7. CASE PollSource
    <3>1. Polled(ctl.mem) \in App
      BY MemTyped DEF Polled, App
    <3>2. app' \in App /\ ctl' \in Ctl
      BY <2>7, <3>1, PatchTyped DEF PollSource, Points
    <3> QED
      BY <2>7, <3>2 DEF PollSource
  <2>8. CASE Observe("ok")
    <3>1. app' \in App /\ ctl' \in Ctl
      BY <2>8, MemTyped, PatchTyped DEF Observe, Points
    <3>2. ASSUME PhaseOf(ctl.mem) = "Complete" PROVE ctl.mem.ref \in Rel
      BY <3>2, MemTyped DEF PhaseOf
    <3>3. \A s : PhaseOf(ctl.mem) = "Complete" => Requested(rel[ctl.mem.ref], s) \in Release
      BY <3>2, ReleaseTyped
    <3>4. rel' \in [Rel -> Release]
      BY <2>8, <3>2, <3>3 DEF Observe
    <3>5. events' \in 0..MaxEvents
      BY <2>8, EventTyped DEF Observe
    <3> QED
      BY <2>8, <3>1, <3>4, <3>5 DEF Observe
  <2>9. CASE PromoteToNextRing
    <3> DEFINE k == CurrentStage(ctl.mem) + 1
               r == <<ctl.mem.hash, k>>
               a == [ctl.mem EXCEPT !.stage = k, !.ref = r, !.phase = "Promoting"]
    <3>1. k \in Rings /\ k \in 0..N
      BY <2>9, MemTyped, NameTyped, RingAssumption DEF PromoteToNextRing, PromoteInv, Rings
    <3>2. r \in Rel /\ r \in Refs
      BY <3>1, MemTyped DEF App, Rel, Refs
    <3>3. /\ Create(r)
          /\ ctl' = [Holding(a) EXCEPT !.pc = "advance", !.done = ctl.mem.ref]
      BY <2>9 DEF PromoteToNextRing
    <3> HIDE DEF k, r
    <3>4. Holding(a) \in Ctl
      BY <3>1, <3>2, MemTyped, RingTyped, HoldingTyped
    <3> HIDE DEF a
    <3>5. ctl' \in Ctl
      BY <3>3, <3>4, MemTyped DEF Ctl, Points
    <3>6. rel' \in [Rel -> Release]
      BY <3>2, <3>3, CreateTyped
    <3> QED
      BY <2>9, <3>5, <3>6 DEF PromoteToNextRing
  <2>10. CASE RingPromoted
    BY <2>10, MemTyped, PatchTyped DEF RingPromoted, Points
  <2>11. CASE PersistRingAdvance
    <3>1. app' \in App
      BY <2>11, MemTyped, RingTyped DEF PersistRingAdvance, App
    <3> QED
      BY <2>11, <3>1, IdleTyped DEF PersistRingAdvance
  <2>12. CASE NewFlowBlocked
    BY <2>12, MemTyped, PatchTyped DEF NewFlowBlocked, Points
  <2>13. CASE SupersedeCurrentRelease
    <3>1. RestartRings([ctl.mem EXCEPT !.ref = NoRel]) \in App
      BY MemTyped, AppTyped
    <3>2. ctl' \in Ctl
      BY <2>13, <3>1, HoldTyped, IdleTyped DEF SupersedeCurrentRelease, Points
    <3>3. rel' \in [Rel -> Release]
      BY <2>13, MemTyped, PhaseTyped DEF SupersedeCurrentRelease, Phases
    <3> QED
      BY <2>13, <3>2, <3>3 DEF SupersedeCurrentRelease
  <2>14. CASE StartNewReleaseFlow
    BY <2>14, MemTyped, AppTyped, IdleTyped DEF StartNewReleaseFlow
  <2>15. CASE FollowRelease
    <3>1. \A ph : [ctl.mem EXCEPT !.phase = AppPhase(ph)] \in App
      BY MemTyped, AppTyped DEF AppPhase
    <3>2. app' \in App /\ ctl' \in Ctl
      BY <2>15, <3>1, PatchTyped, GotoTyped DEF FollowRelease, Points
    <3> QED
      BY <2>15, <3>2, ClearTyped DEF FollowRelease
  <2>16. CASE CreationBlocked
    BY <2>16, MemTyped, AppTyped, PatchTyped DEF CreationBlocked, Points
  <2>17. CASE CreateRelease
    <3>1. ReleaseName(ctl.mem) \in Rel
      BY MemTyped, NameTyped
    <3>2. [ctl.mem EXCEPT !.ref = ReleaseName(ctl.mem), !.phase = "Promoting"] \in App
      BY <3>1, MemTyped, AppTyped
    <3>3. ctl' \in Ctl
      BY <2>17, <3>2, HoldTyped DEF CreateRelease, Points
    <3> QED
      BY <2>17, <3>1, <3>3, CreateTyped DEF CreateRelease
  <2>18. CASE ReleaseCreated
    BY <2>18, MemTyped, PatchTyped, ClearTyped DEF ReleaseCreated, Points
  <2>19. CASE AdoptRelease
    <3>1. [ctl.mem EXCEPT !.ref = ReleaseName(ctl.mem), !.phase = "Promoting"] \in App
      BY MemTyped, NameTyped, AppTyped
    <3>2. app' \in App /\ ctl' \in Ctl
      BY <2>19, <3>1, PatchTyped DEF AdoptRelease, Points
    <3> QED
      BY <2>19, <3>2, ClearTyped DEF AdoptRelease
  <2>20. CASE ParkExhausted
    <3>1. [ctl.mem EXCEPT !.ref = ReleaseName(ctl.mem), !.phase = "RolledBack"] \in App
      BY MemTyped, NameTyped, AppTyped
    <3>2. app' \in App /\ ctl' \in Ctl
      BY <2>20, <3>1, PatchTyped DEF ParkExhausted, Points
    <3> QED
      BY <2>20, <3>2, ClearTyped DEF ParkExhausted
  <2>21. CASE ResyncAdopted
    <3> DEFINE r == ctl.mem.ref
               origin == IF ctl.manual = "yes" THEN "manual" ELSE "auto"
    <3>1. r \in Refs
      BY MemTyped
    <3>2. /\ rel' = [rel EXCEPT ![r] = Resynced(rel[r], origin)]
          /\ vetoed' \subseteq Rel /\ overtaken' \subseteq Rel
      BY <2>21 DEF ResyncAdopted
    <3>3. origin \in {"auto", "manual"}
      OBVIOUS
    <3>4. app' \in App /\ ctl' \in Ctl
      BY <2>21, GotoTyped DEF ResyncAdopted, Points
    <3> HIDE DEF r, origin
    <3>5. CASE r \in Rel
      <4>1. Resynced(rel[r], origin) \in Release
        BY <3>3, <3>5, ReleaseTyped
      <4>2. rel' \in [Rel -> Release]
        BY <3>2, <3>5, <4>1, WriteTyped
      <4> QED
        BY <2>21, <3>2, <3>4, <4>2 DEF ResyncAdopted
    <3>6. CASE r \notin Rel
      <4>1. rel' \in [Rel -> Release]
        BY <3>2, <3>6
      <4> QED
        BY <2>21, <3>2, <3>4, <4>1 DEF ResyncAdopted
    <3> QED
      BY <3>5, <3>6
  <2>22. CASE FinishAdoption
    BY <2>22, MemTyped, AppTyped, PatchTyped, ClearTyped DEF FinishAdoption, Points
  <2>23. CASE DecideResync
    <3>1. [ctl.mem EXCEPT !.ref = ReleaseName(ctl.mem)] \in App
      BY MemTyped, NameTyped, AppTyped
    <3>2. ctl' \in Ctl
      BY <2>23, <3>1, HoldTyped DEF DecideResync, Points
    <3> QED
      BY <2>23, <3>2 DEF DecideResync
  <2> QED
    BY <1>2, <2>1, <2>2, <2>3, <2>4, <2>5, <2>6, <2>7, <2>8, <2>9, <2>10,
       <2>11, <2>12, <2>13, <2>14, <2>15, <2>16, <2>17, <2>18, <2>19, <2>20,
       <2>21, <2>22, <2>23 DEF AppStep
<1>3. ASSUME NEW r \in Rel, ReleaseStep(r) PROVE TypeOK'
  <2>1. CASE HandleResync(r)
    <3> DEFINE ph == IF rel[r].phase \in Terminal THEN "Pending" ELSE rel[r].phase
    <3>1. ph \in Phases
      BY DEF Phases, Release
    <3>2. rel' = [rel EXCEPT ![r] = [rel[r] EXCEPT !.resync = "no", !.phase = ph]]
      BY <2>1 DEF HandleResync
    <3> HIDE DEF ph
    <3>3. rel' \in [Rel -> Release]
      BY <3>1, <3>2, ReleaseTyped
    <3> QED
      BY <2>1, <3>3 DEF HandleResync
  <2>2. CASE ParkRelease(r)
    <3>1. rel' \in [Rel -> Release]
      BY <2>2, MemTyped, PhaseTyped DEF ParkRelease, Phases
    <3> QED
      BY <2>2, <3>1 DEF ParkRelease
  <2>3. CASE InitiateRelease(r)
    <3>1. rel' \in [Rel -> Release]
      BY <2>3, MemTyped, PhaseTyped DEF InitiateRelease, Phases
    <3> QED
      BY <2>3, <3>1 DEF InitiateRelease
  <2>4. CASE ApplyManifests(r)
    <3>1. PICK x \in {"canarying", "applied"} :
              rel' = [rel EXCEPT ![r] = [rel[r] EXCEPT !.phase = x, !.snapshot = "yes"]]
      BY <2>4 DEF ApplyManifests
    <3>2. rel' \in [Rel -> Release]
      BY <3>1, ReleaseTyped, WriteTyped DEF Phases
    <3>3. live' \in [Rings -> Refs]
      BY <2>4 DEF ApplyManifests, Rel, Refs
    <3> QED
      BY <2>4, <3>2, <3>3 DEF ApplyManifests
  <2>5. CASE CompleteRelease(r)
    <3>1. rel' \in [Rel -> Release]
      BY <2>5, ReleaseTyped DEF CompleteRelease
    <3> QED
      BY <2>5, <3>1 DEF CompleteRelease
  <2>6. CASE FinishCanary(r)
    <3>1. rel' \in [Rel -> Release]
      BY <2>6, MemTyped, PhaseTyped DEF FinishCanary, Phases
    <3> QED
      BY <2>6, <3>1 DEF FinishCanary
  <2>7. CASE RollbackBegin(r)
    <3>1. PICK t \in RollbackTarget(r), at \in {"applied", "begun"}, s \in {"no", "yes"} :
              rb' = [rb EXCEPT ![r] = [at |-> at, target |-> t, spent |-> s]]
      BY <2>7 DEF RollbackBegin
    <3>2. t \in Refs
      BY DEF RollbackTarget, Newest, Candidates, Refs
    <3>3. [at |-> at, target |-> t, spent |-> s] \in Rollback
      BY <3>1, <3>2 DEF Rollback
    <3>4. rb' \in [Rel -> Rollback]
      BY <3>1, <3>3, RollbackTyped
    <3> QED
      BY <2>7, <3>4 DEF RollbackBegin
  <2>8. CASE RollbackApply(r)
    <3>1. live' \in [Rings -> Refs]
      BY <2>8, RollbackTyped DEF RollbackApply
    <3>2. rb' \in [Rel -> Rollback]
      BY <2>8, RollbackTyped DEF RollbackApply
    <3> QED
      BY <2>8, <3>1, <3>2 DEF RollbackApply
  <2>9. CASE RollbackStamp(r)
    <3>1. rel' \in [Rel -> Release]
      BY <2>9, ReleaseTyped, WriteTyped DEF RollbackStamp
    <3>2. rb' \in [Rel -> Rollback]
      BY <2>9, RollbackTyped DEF RollbackStamp
    <3> QED
      BY <2>9, <3>1, <3>2 DEF RollbackStamp
  <2>10. CASE MarkRolledBack(r)
    <3>1. rel' \in [Rel -> Release]
      BY <2>10, MemTyped, PhaseTyped DEF MarkRolledBack, Phases
    <3>2. [rb[r] EXCEPT !.at = "marked"] \in Rollback
      BY DEF Rollback
    <3>3. rb' \in [Rel -> Rollback]
      BY <2>10, <3>2, RollbackTyped DEF MarkRolledBack
    <3> QED
      BY <2>10, <3>1, <3>3 DEF MarkRolledBack
  <2>11. CASE PatchApplicationReleaseRef(r)
    <3>1. app' \in App
      BY <2>11, AppTyped, RollbackTyped DEF PatchApplicationReleaseRef
    <3>2. rb' \in [Rel -> Rollback]
      BY <2>11, RollbackTyped DEF PatchApplicationReleaseRef
    <3> QED
      BY <2>11, <3>1, <3>2 DEF PatchApplicationReleaseRef
  <2> QED
    BY <1>3, <2>1, <2>2, <2>3, <2>4, <2>5, <2>6, <2>7, <2>8, <2>9, <2>10, <2>11 DEF ReleaseStep
<1>5. CASE OpenWindow
  BY <1>5 DEF OpenWindow
<1>6. CASE Environment
  <2>1. ASSUME NEW seen \in {"drift", "degraded", "analysis"}, Observe(seen) PROVE TypeOK'
    <3>1. app' \in App /\ ctl' \in Ctl
      BY <2>1, MemTyped, PatchTyped DEF Observe, Points
    <3>2. ASSUME PhaseOf(ctl.mem) = "Complete" PROVE ctl.mem.ref \in Rel
      BY <3>2, MemTyped DEF PhaseOf
    <3>3. \A s : PhaseOf(ctl.mem) = "Complete" => Requested(rel[ctl.mem.ref], s) \in Release
      BY <3>2, ReleaseTyped
    <3>4. rel' \in [Rel -> Release]
      BY <2>1, <3>2, <3>3 DEF Observe
    <3>5. events' \in 0..MaxEvents
      BY <2>1, EventTyped DEF Observe
    <3> QED
      BY <2>1, <3>1, <3>4, <3>5 DEF Observe
  <2>2. CASE RingPromotedFails
    BY <2>2, GotoTyped, EventTyped DEF RingPromotedFails, Points
  <2>3. CASE AbortReconcile
    BY <2>3, IdleTyped, EventTyped DEF AbortReconcile
  <2>4. ASSUME NEW r \in Rel, AbortRollback(r) PROVE TypeOK'
    <3>1. rb' \in [Rel -> Rollback]
      BY <2>4, RollbackTyped DEF AbortRollback
    <3> QED
      BY <2>4, <3>1, EventTyped DEF AbortRollback
  <2>5. ASSUME NEW r \in Rel, FailRelease(r) PROVE TypeOK'
    <3>1. rel' \in [Rel -> Release]
      BY <2>5, MemTyped, PhaseTyped DEF FailRelease, Phases
    <3> QED
      BY <2>5, <3>1, EventTyped DEF FailRelease
  <2>6. ASSUME NEW r \in Rel, RollbackRelease(r) PROVE TypeOK'
    <3>1. rel' \in [Rel -> Release]
      BY <2>6, ReleaseTyped DEF RollbackRelease
    <3> QED
      BY <2>6, <3>1, EventTyped DEF RollbackRelease
  <2>7. ASSUME NEW r \in Rel, ResyncRelease(r) PROVE TypeOK'
    <3>1. rel' \in [Rel -> Release]
      BY <2>7, ReleaseTyped DEF ResyncRelease
    <3> QED
      BY <2>7, <3>1, EventTyped DEF ResyncRelease
  <2>8. CASE Commit
    BY <2>8, EventTyped DEF Commit
  <2>9. ASSUME NEW manual \in {"no", "yes"}, Sync(manual) PROVE TypeOK'
    <3>1. ann' \in Ann
      BY <2>9, BoundAssumption DEF Sync, Event, Ann
    <3> QED
      BY <2>9, <3>1, EventTyped DEF Sync
  <2>10. CASE CloseWindow
    BY <2>10, EventTyped DEF CloseWindow
  <2> QED
    BY <1>6, <2>1, <2>2, <2>3, <2>4, <2>5, <2>6, <2>7, <2>8, <2>9, <2>10 DEF Environment
<1> QED
  BY <1>1, <1>2, <1>3, <1>5, <1>6 DEF Next

(* A reconcile is about to promote only from a ring that is not the last.  *)
LEMMA HoldPromote ==
  ASSUME TypeOK, NEW a \in App, NEW pc \in Points, ctl' = At(Holding(a), pc),
         pc = "promote" => CurrentStage(a) < N
  PROVE  PromoteInv'
<1>1. Holding(a) \in Ctl /\ Holding(a).mem = a
  BY HoldingTyped DEF Holding, TypeOK, Ctl
<1>2. CASE pc = "idle"
  BY <1>2 DEF At, PromoteInv, Idle
<1>3. CASE pc # "idle"
  <2>1. ctl' = [Holding(a) EXCEPT !.pc = pc]
    BY <1>3 DEF At
  <2>2. ctl'.pc = pc /\ ctl'.mem = a
    BY <1>1, <2>1 DEF Ctl
  <2> QED
    BY <2>2 DEF PromoteInv, CurrentStage
<1> QED
  BY <1>2, <1>3

(* A status write that leads to a promotion only below the last ring keeps PromoteInv. *)
LEMMA PatchPromote ==
  ASSUME TypeOK, NEW a \in App, NEW pc \in Points, Patch(a, pc),
         pc = "promote" => CurrentStage(a) < N
  PROVE  PromoteInv'
<1>1. Preserving(a) \in App /\ Preserving(a).stage = a.stage
  <2>1. Preserving(a) \in App
    BY AppTyped DEF TypeOK, Preserving
  <2>2. Preserving(a).stage = a.stage
    BY DEF Preserving, App
  <2> QED
    BY <2>1, <2>2
<1>2. CurrentStage(Preserving(a)) = CurrentStage(a)
  BY <1>1 DEF CurrentStage
<1> QED
  BY <1>1, <1>2, HoldPromote DEF Patch

(* So does moving on to another point. *)
LEMMA GotoPromote ==
  ASSUME TypeOK, NEW pc \in Points \ {"promote"}, Goto(pc)
  PROVE  PromoteInv'
BY DEF TypeOK, Goto, At, Idle, PromoteInv, Ctl

(* Every step keeps PromoteInv. *)
LEMMA PromoteStep == TypeOK /\ PromoteInv /\ [Next]_vars => PromoteInv'
<1> SUFFICES ASSUME TypeOK, PromoteInv, [Next]_vars PROVE PromoteInv'
  OBVIOUS
<1> USE DEF PromoteInv, ctlVars, world
<1>1. CASE UNCHANGED vars
  BY <1>1 DEF vars
<1>2. CASE AppStep
  <2>1. CASE Reconcile
    BY <2>1 DEF Reconcile, Idle
  <2>2. CASE ConsumeSyncTrigger
    BY <2>2, HoldPromote DEF ConsumeSyncTrigger, TypeOK, Points
  <2>3. CASE RecordSyncedSource
    <3>1. [ctl.mem EXCEPT !.hash = ctl.seen] \in App
      BY MemTyped, AppTyped
    <3> QED
      BY <2>3, <3>1, PatchPromote, GotoPromote DEF RecordSyncedSource, Points
  <2>4. CASE RequestCurrentReleaseResync
    BY <2>4, GotoPromote DEF RequestCurrentReleaseResync, Points
  <2>5. CASE FinishSyncTrigger
    BY <2>5, MemTyped, AppTyped, PatchPromote DEF FinishSyncTrigger, Points
  <2>6. CASE ReplaceRelease
    BY <2>6, GotoPromote DEF ReplaceRelease, Points
  <2>7. CASE PollSource
    <3>1. Polled(ctl.mem) \in App
      BY MemTyped DEF TypeOK, Polled, App
    <3> QED
      BY <2>7, <3>1, PatchPromote DEF PollSource, Points
  <2>8. CASE Observe("ok")
    BY <2>8, MemTyped, PatchPromote DEF Observe, Points, Promotable
  <2>9. CASE PromoteToNextRing
    <3>1. ctl'.pc = "advance"
      BY <2>9 DEF PromoteToNextRing, Holding, Ctl, TypeOK
    <3> QED
      BY <3>1
  <2>10. CASE RingPromoted
    BY <2>10, MemTyped, PatchPromote DEF RingPromoted, Points
  <2>11. CASE PersistRingAdvance
    BY <2>11 DEF PersistRingAdvance, Idle
  <2>12. CASE NewFlowBlocked
    BY <2>12, MemTyped, PatchPromote DEF NewFlowBlocked, Points
  <2>13. CASE SupersedeCurrentRelease
    <3>1. RestartRings([ctl.mem EXCEPT !.ref = NoRel]) \in App
      BY MemTyped, AppTyped
    <3>2. CASE ctl' = Idle
      BY <3>2 DEF Idle
    <3>3. CASE ctl' = At(Holding(RestartRings([ctl.mem EXCEPT !.ref = NoRel])), "clear")
      BY <3>1, <3>3, HoldPromote DEF Points
    <3> QED
      BY <2>13, <3>2, <3>3 DEF SupersedeCurrentRelease
  <2>14. CASE StartNewReleaseFlow
    BY <2>14 DEF StartNewReleaseFlow, Idle
  <2>15. CASE FollowRelease
    <3>1. \A ph : [ctl.mem EXCEPT !.phase = AppPhase(ph)] \in App
      BY MemTyped, AppTyped DEF AppPhase
    <3> QED
      BY <2>15, <3>1, PatchPromote, GotoPromote DEF FollowRelease, Points
  <2>16. CASE CreationBlocked
    BY <2>16, MemTyped, AppTyped, PatchPromote DEF CreationBlocked, Points
  <2>17. CASE CreateRelease
    <3>1. [ctl.mem EXCEPT !.ref = ReleaseName(ctl.mem), !.phase = "Promoting"] \in App
      BY MemTyped, NameTyped, AppTyped
    <3> QED
      BY <2>17, <3>1, HoldPromote DEF CreateRelease, Points
  <2>18. CASE ReleaseCreated
    BY <2>18, MemTyped, PatchPromote DEF ReleaseCreated, Points
  <2>19. CASE AdoptRelease
    <3>1. [ctl.mem EXCEPT !.ref = ReleaseName(ctl.mem), !.phase = "Promoting"] \in App
      BY MemTyped, NameTyped, AppTyped
    <3> QED
      BY <2>19, <3>1, PatchPromote DEF AdoptRelease, Points
  <2>20. CASE ParkExhausted
    <3>1. [ctl.mem EXCEPT !.ref = ReleaseName(ctl.mem), !.phase = "RolledBack"] \in App
      BY MemTyped, NameTyped, AppTyped
    <3> QED
      BY <2>20, <3>1, PatchPromote DEF ParkExhausted, Points
  <2>21. CASE ResyncAdopted
    BY <2>21, GotoPromote DEF ResyncAdopted, Points
  <2>22. CASE FinishAdoption
    BY <2>22, MemTyped, AppTyped, PatchPromote DEF FinishAdoption, Points
  <2>23. CASE DecideResync
    <3>1. [ctl.mem EXCEPT !.ref = ReleaseName(ctl.mem)] \in App
      BY MemTyped, NameTyped, AppTyped
    <3> QED
      BY <2>23, <3>1, HoldPromote DEF DecideResync, Points
  <2> QED
    BY <1>2, <2>1, <2>2, <2>3, <2>4, <2>5, <2>6, <2>7, <2>8, <2>9, <2>10,
       <2>11, <2>12, <2>13, <2>14, <2>15, <2>16, <2>17, <2>18, <2>19, <2>20,
       <2>21, <2>22, <2>23 DEF AppStep
<1>3. ASSUME NEW r \in Rel, ReleaseStep(r) PROVE PromoteInv'
  <2>1. ctl' = ctl
    BY <1>3 DEF ReleaseStep, HandleResync, ParkRelease, InitiateRelease, ApplyManifests, FinishCanary,
       CompleteRelease, RollbackBegin, RollbackApply, RollbackStamp, MarkRolledBack,
       PatchApplicationReleaseRef
  <2> QED
    BY <2>1
<1>5. CASE OpenWindow
  BY <1>5 DEF OpenWindow
<1>6. CASE Environment
  <2>1. ASSUME NEW seen \in {"drift", "degraded", "analysis"}, Observe(seen) PROVE PromoteInv'
    BY <2>1, MemTyped, PatchPromote DEF Observe, Points, Promotable
  <2>2. CASE RingPromotedFails
    BY <2>2, GotoPromote DEF RingPromotedFails, Points
  <2>3. CASE AbortReconcile
    BY <2>3 DEF AbortReconcile, Idle
  <2>4. ASSUME NEW r \in Rel, AbortRollback(r) PROVE PromoteInv'
    BY <2>4 DEF AbortRollback
  <2>5. ASSUME NEW r \in Rel, FailRelease(r) PROVE PromoteInv'
    BY <2>5 DEF FailRelease
  <2>6. ASSUME NEW r \in Rel, RollbackRelease(r) PROVE PromoteInv'
    BY <2>6 DEF RollbackRelease
  <2>7. ASSUME NEW r \in Rel, ResyncRelease(r) PROVE PromoteInv'
    BY <2>7 DEF ResyncRelease
  <2>8. CASE Commit
    BY <2>8 DEF Commit
  <2>9. ASSUME NEW manual \in {"no", "yes"}, Sync(manual) PROVE PromoteInv'
    BY <2>9 DEF Sync
  <2>10. CASE CloseWindow
    BY <2>10 DEF CloseWindow
  <2> QED
    BY <1>6, <2>1, <2>2, <2>3, <2>4, <2>5, <2>6, <2>7, <2>8, <2>9, <2>10 DEF Environment
<1> QED
  BY <1>1, <1>2, <1>3, <1>5, <1>6 DEF Next

(* Where a reconcile is after it moved on. *)
LEMMA AtPoint ==
  ASSUME NEW c \in Ctl, NEW pc \in Points
  PROVE  At(c, pc).pc = pc
BY DEF At, Ctl, Idle

LEMMA PatchPoint ==
  ASSUME TypeOK, NEW a \in App, NEW pc \in Points, Patch(a, pc)
  PROVE  ctl'.pc = pc
<1>1. Holding(Preserving(a)) \in Ctl
  BY AppTyped, HoldingTyped DEF TypeOK
<1> QED
  BY <1>1, AtPoint DEF Patch

LEMMA HoldPoint ==
  ASSUME TypeOK, NEW a \in App, NEW pc \in Points, ctl' = At(Holding(a), pc)
  PROVE  ctl'.pc = pc
BY HoldingTyped, AtPoint

LEMMA GotoPoint ==
  ASSUME TypeOK, NEW pc \in Points, Goto(pc)
  PROVE  ctl'.pc = pc
BY AtPoint DEF TypeOK, Goto

(* No other step of the Application controller decides on a resync. *)
LEMMA OnlyDecides ==
  ASSUME TypeOK, AppStep \/ \E seen \in {"drift", "degraded", "analysis"} : Observe(seen),
         ~DecideResync
  PROVE  ctl'.pc # "adopt"
<1>1. CASE Reconcile
  BY <1>1 DEF Reconcile, Idle
<1>2. CASE ConsumeSyncTrigger
  BY <1>2, HoldPoint DEF ConsumeSyncTrigger, TypeOK, Points
<1>3. CASE RecordSyncedSource
  <2>1. [ctl.mem EXCEPT !.hash = ctl.seen] \in App
    BY MemTyped, AppTyped
  <2> QED
    BY <1>3, <2>1, PatchPoint, GotoPoint DEF RecordSyncedSource, Points
<1>4. CASE RequestCurrentReleaseResync \/ ReplaceRelease \/ ResyncAdopted
  BY <1>4, GotoPoint DEF RequestCurrentReleaseResync, ReplaceRelease, ResyncAdopted, Points
<1>5. CASE FinishSyncTrigger \/ CreationBlocked \/ FinishAdoption
  <2>1. [ctl.mem EXCEPT !.phase = "Pending"] \in App
    BY MemTyped, AppTyped
  <2> QED
    BY <1>5, <2>1, PatchPoint DEF FinishSyncTrigger, CreationBlocked, FinishAdoption, Points
<1>6. CASE PollSource
  <2>1. Polled(ctl.mem) \in App
    BY MemTyped DEF TypeOK, Polled, App
  <2> QED
    BY <1>6, <2>1, PatchPoint DEF PollSource, Points
<1>7. ASSUME NEW seen, Observe(seen) PROVE ctl'.pc # "adopt"
  BY <1>7, MemTyped, PatchPoint DEF Observe, Points
<1>8. CASE PromoteToNextRing
  BY <1>8 DEF PromoteToNextRing, Holding, Ctl, TypeOK
<1>9. CASE RingPromoted \/ NewFlowBlocked \/ ReleaseCreated
  BY <1>9, MemTyped, PatchPoint DEF RingPromoted, NewFlowBlocked, ReleaseCreated, Points
<1>10. CASE PersistRingAdvance \/ StartNewReleaseFlow
  BY <1>10 DEF PersistRingAdvance, StartNewReleaseFlow, Idle
<1>11. CASE SupersedeCurrentRelease
  <2>1. RestartRings([ctl.mem EXCEPT !.ref = NoRel]) \in App
    BY MemTyped, AppTyped
  <2> QED
    BY <1>11, <2>1, HoldPoint DEF SupersedeCurrentRelease, Points, Idle
<1>12. CASE FollowRelease
  <2>1. \A ph : [ctl.mem EXCEPT !.phase = AppPhase(ph)] \in App
    BY MemTyped, AppTyped DEF AppPhase
  <2> QED
    BY <1>12, <2>1, PatchPoint, GotoPoint DEF FollowRelease, Points
<1>13. CASE CreateRelease \/ AdoptRelease \/ ParkExhausted
  <2>1. \A x \in {"Promoting", "RolledBack"} :
            [ctl.mem EXCEPT !.ref = ReleaseName(ctl.mem), !.phase = x] \in App
    BY MemTyped, NameTyped, AppTyped
  <2> QED
    BY <1>13, <2>1, PatchPoint, HoldPoint DEF CreateRelease, AdoptRelease, ParkExhausted, Points
<1> QED
  BY <1>1, <1>2, <1>3, <1>4, <1>5, <1>6, <1>7, <1>8, <1>9, <1>10, <1>11, <1>12, <1>13 DEF AppStep

(* What the budget invariants say of one release. *)
BudgetOf(r) ==
    /\ \/ rel[r].retries <= MaxRetries
       \/ (r \in overtaken /\ rel[r].retries = MaxRetries + 1)
    /\ Decided(r) => /\ Exists(r)
                     /\ \/ ctl.manual = "yes"
                        \/ rel[r].retries < MaxRetries
                        \/ (r \in overtaken /\ rel[r].retries <= MaxRetries)
    /\ rb[r].at \in {"begun", "applied", "stamped"} =>
          /\ Exists(r)
          /\ rel[r].resync = "no" =>
                /\ rel[r].phase = "Complete" => rel[r].rollback # "no"
                /\ rb[r].spent = "yes" => rel[r].retries = MaxRetries
    /\ r \in vetoed =>
          /\ rel[r].retries = MaxRetries
          /\ rel[r].resync = "no"
          /\ Decided(r) => ctl.manual = "yes"
          /\ rb[r].at = "stamped" \/ rel[r].phase \in {"RolledBack", "Superseded"}
Budget == \A r \in Rel : BudgetOf(r)

(* A step that writes at most release r, its rollback and its histories,   *)
(* and decides on no resync.                                               *)
Only(r) == /\ \A q \in Rel : q # r => rel'[q] = rel[q] /\ rb'[q] = rb[q]
           /\ vetoed' \subseteq vetoed \cup {r}
           /\ overtaken \subseteq overtaken' \cup {r}
           /\ ctl'.pc = "adopt" => ctl' = ctl

LEMMA OneWritten ==
  ASSUME TypeOK, Budget, NEW r \in Rel, Only(r), BudgetOf(r)'
  PROVE  Budget'
<1> SUFFICES ASSUME NEW q \in Rel, q # r PROVE BudgetOf(q)'
  BY DEF Budget
<1>1. /\ rel'[q] = rel[q] /\ rb'[q] = rb[q]
      /\ q \in vetoed' => q \in vetoed
      /\ q \in overtaken => q \in overtaken'
      /\ Decided(q)' => Decided(q) /\ ctl' = ctl
  BY DEF Only, Decided
<1>2. BudgetOf(q)
  BY DEF Budget
<1> QED
  BY <1>1, <1>2 DEF BudgetOf, Exists

(* A step that writes none of them. *)
LEMMA NoneWritten ==
  ASSUME Budget, UNCHANGED <<rel, rb, vetoed, overtaken>>, ctl'.pc = "adopt" => ctl' = ctl
  PROVE  Budget'
<1>1. \A r \in Rel : Decided(r)' => Decided(r) /\ ctl' = ctl
  BY DEF Decided
<1> QED
  BY <1>1 DEF Budget, BudgetOf, Exists

(* The steps of the Application controller keep the budget. *)
LEMMA ObserveBudget ==
  ASSUME TypeOK, Budget, NEW seen, Observe(seen), ctl'.pc # "adopt"
  PROVE  Budget'
<1>1. UNCHANGED <<vetoed, overtaken, rb>>
  BY DEF Observe
<1>2. CASE rel' = rel
  BY <1>1, <1>2, NoneWritten
<1>3. CASE rel' # rel
  <2> PICK q : q = ctl.mem.ref
    OBVIOUS
  <2>1. /\ rel' = [rel EXCEPT ![q] = Requested(rel[q], seen)]
        /\ PhaseOf(ctl.mem) = "Complete"
    BY <1>3 DEF Observe
  <2>2. q \in Rel /\ rel[q] \in Release /\ rel[q].phase = "Complete"
    BY <2>1, MemTyped DEF PhaseOf, TypeOK
  <2> PICK p : p = Requested(rel[q], seen)
    OBVIOUS
  <2>3. /\ p.retries = rel[q].retries
        /\ p.phase = "Complete"
        /\ rel[q].rollback # "no" => p = rel[q]
        /\ p.resync = "no" => rel[q].resync = "no"
    BY <2>2 DEF Requested, AnalysisFailed, Release
  <2>4. rel'[q] = p /\ \A v \in Rel : v # q => rel'[v] = rel[v]
    BY <2>1, <2>2 DEF TypeOK
  <2>5. Only(q)
    BY <1>1, <2>4 DEF Only
  <2>6. BudgetOf(q) /\ ~Decided(q)'
    BY <2>2 DEF Budget, Decided
  <2>7. BudgetOf(q)'
    BY <1>1, <2>2, <2>3, <2>4, <2>6 DEF BudgetOf, Exists
  <2> QED
    BY <2>2, <2>5, <2>7, OneWritten
<1> QED
  BY <1>2, <1>3

LEMMA CreateBudget ==
  ASSUME TypeOK, Budget, NEW r \in Rel, Create(r), UNCHANGED <<rb, vetoed, overtaken>>,
         ctl'.pc # "adopt"
  PROVE  Budget'
<1>1. CASE Exists(r)
  BY <1>1, NoneWritten DEF Create
<1>2. CASE ~Exists(r)
  <2>1. rel' = [rel EXCEPT ![r] = Created]
    BY <1>2 DEF Create
  <2>2. Created.retries = 0 /\ Created.phase = "new"
    BY DEF Created, Absent
  <2>3. rel'[r] = Created /\ \A q \in Rel : q # r => rel'[q] = rel[q]
    BY <2>1 DEF TypeOK
  <2>4. Only(r) /\ BudgetOf(r) /\ ~Decided(r)'
    BY <2>3 DEF Only, Budget, Decided
  <2>5. r \notin vetoed /\ rb[r].at \notin {"begun", "applied", "stamped"}
    BY <1>2, <2>4 DEF BudgetOf, Exists
  <2>6. BudgetOf(r)'
    BY <2>2, <2>3, <2>4, <2>5, BoundAssumption DEF BudgetOf
  <2> QED
    BY <2>4, <2>6, OneWritten
<1> QED
  BY <1>1, <1>2

LEMMA DecideBudget ==
  ASSUME TypeOK, Budget, DecideResync
  PROVE  Budget'
<1> PICK r : r = ReleaseName(ctl.mem)
  OBVIOUS
<1> PICK a : a = [ctl.mem EXCEPT !.ref = r]
  OBVIOUS
<1>1. /\ UNCHANGED <<rel, rb, vetoed, overtaken>> /\ Exists(r)
      /\ ctl.manual = "yes" \/ ~Exhausted(ctl.mem, r)
      /\ ctl' = At(Holding(a), "adopt")
  BY DEF DecideResync, world
<1>2. r \in Rel /\ r[1] = ctl.mem.hash /\ rel[r] \in Release /\ rel[r].retries \in Nat
  BY MemTyped, NameTyped DEF TypeOK, Release
<1>3. a \in App /\ a.ref = r
  BY <1>2, MemTyped DEF App, Refs
<1>4. ctl'.pc = "adopt" /\ ctl'.mem.ref = r /\ ctl'.manual = ctl.manual
  <2>1. ctl' = [Holding(a) EXCEPT !.pc = "adopt"]
    BY <1>1 DEF At
  <2>2. Holding(a) \in Ctl /\ Holding(a).mem = a /\ Holding(a).manual = ctl.manual
    BY <1>3, HoldingTyped DEF Holding, TypeOK, Ctl
  <2> QED
    BY <1>3, <2>1, <2>2 DEF Ctl
<1>5. ctl'.manual = "yes" \/ rel[r].retries < MaxRetries
  BY <1>1, <1>2, <1>4, BoundAssumption DEF Exhausted
<1>6. \A q \in Rel : Decided(q)' => q = r
  BY <1>4 DEF Decided
<1> SUFFICES ASSUME NEW q \in Rel PROVE BudgetOf(q)'
  BY DEF Budget
<1>7. BudgetOf(q)
  BY DEF Budget
<1>8. CASE q = r
  BY <1>1, <1>2, <1>5, <1>7, <1>8, BoundAssumption DEF BudgetOf, Exists
<1>9. CASE q # r
  BY <1>1, <1>6, <1>7, <1>9 DEF BudgetOf, Exists
<1> QED
  BY <1>8, <1>9

LEMMA AdoptBudget ==
  ASSUME TypeOK, Budget, ResyncAdopted, ctl'.pc # "adopt"
  PROVE  Budget'
<1> PICK r : r = ctl.mem.ref
  OBVIOUS
<1> PICK origin : origin = IF ctl.manual = "yes" THEN "manual" ELSE "auto"
  OBVIOUS
<1> PICK p : p = Resynced(rel[r], origin)
  OBVIOUS
<1>1. /\ rel' = [rel EXCEPT ![r] = p] /\ UNCHANGED rb
      /\ vetoed' \subseteq vetoed /\ overtaken \subseteq overtaken' \cup {r}
      /\ origin = "manual" => r \notin vetoed'
      /\ origin # "manual" => overtaken' = overtaken
      /\ ctl.pc = "adopt"
  BY DEF ResyncAdopted
<1>2. \A q \in Rel : q # r => rel'[q] = rel[q]
  BY <1>1 DEF TypeOK
<1>3. CASE r \notin Rel
  <2> SUFFICES ASSUME NEW q \in Rel PROVE BudgetOf(q)'
    BY DEF Budget
  <2>1. BudgetOf(q) /\ ~Decided(q)' /\ rel'[q] = rel[q] /\ rb'[q] = rb[q]
    BY <1>1, <1>2, <1>3 DEF Budget, Decided
  <2>2. (q \in vetoed' => q \in vetoed) /\ (q \in overtaken => q \in overtaken')
    BY <1>1, <1>3
  <2> QED
    BY <2>1, <2>2 DEF BudgetOf, Exists
<1>4. CASE r \in Rel
  <2>1. rel[r] \in Release /\ rel[r].retries \in Nat /\ BudgetOf(r) /\ Decided(r) /\ rel'[r] = p
    BY <1>1, <1>4 DEF TypeOK, Release, Budget, Decided
  <2>2. /\ p.resync = origin /\ p.phase = rel[r].phase
        /\ p.retries = IF origin = "manual" THEN 0 ELSE rel[r].retries + 1
    BY <2>1 DEF Resynced, Release
  <2>3. p.resync # "no"
    BY <2>2
  <2>4. Only(r) /\ ~Decided(r)'
    BY <1>1, <1>2 DEF Only, Decided
  <2>5. BudgetOf(r)'
    <3>1. CASE origin = "manual"
      BY <1>1, <2>1, <2>2, <2>3, <2>4, <3>1, BoundAssumption DEF BudgetOf, Exists
    <3>2. CASE origin # "manual"
      <4>1. ctl.manual # "yes"
        BY <3>2
      <4>2. /\ rel[r].retries < MaxRetries \/ (r \in overtaken /\ rel[r].retries <= MaxRetries)
            /\ r \notin vetoed
        BY <2>1, <4>1 DEF BudgetOf
      <4> QED
        BY <1>1, <2>1, <2>2, <2>3, <2>4, <3>2, <4>2, BoundAssumption DEF BudgetOf, Exists
    <3> QED
      BY <3>1, <3>2
  <2> QED
    BY <1>4, <2>4, <2>5, OneWritten
<1> QED
  BY <1>3, <1>4

LEMMA AppBudget ==
  ASSUME TypeOK, PromoteInv, Budget,
         AppStep \/ \E seen \in {"drift", "degraded", "analysis"} : Observe(seen)
  PROVE  Budget'
<1>0. ~DecideResync => ctl'.pc # "adopt"
  BY OnlyDecides
<1>1. CASE RequestCurrentReleaseResync
  <2>0. ctl'.pc # "adopt" /\ UNCHANGED rb
    BY <1>1, GotoPoint DEF RequestCurrentReleaseResync, Points
  <2>1. CASE HasRelease(ctl.mem)
    <3> PICK r : r = ctl.mem.ref
      OBVIOUS
    <3> PICK p : p = Resynced(rel[r], "manual")
      OBVIOUS
    <3>1. r \in Rel /\ rel[r] \in Release /\ rel[r].phase # "absent"
      BY <2>1, MemTyped DEF TypeOK, HasRelease, Exists
    <3>2. p.retries = 0 /\ p.resync = "manual" /\ p.phase = rel[r].phase
      BY <3>1 DEF Resynced, Release
    <3>3. /\ rel' = [rel EXCEPT ![r] = p]
          /\ vetoed' = vetoed \ {r} /\ overtaken' = overtaken \ {r}
      BY <1>1, <2>1 DEF RequestCurrentReleaseResync
    <3>4. rel'[r] = p /\ \A q \in Rel : q # r => rel'[q] = rel[q]
      BY <3>1, <3>3 DEF TypeOK
    <3>5. Only(r) /\ ~Decided(r)'
      BY <2>0, <3>3, <3>4 DEF Only, Decided
    <3>6. BudgetOf(r)'
      BY <3>1, <3>2, <3>3, <3>4, <3>5, BoundAssumption DEF BudgetOf, Exists
    <3> QED
      BY <3>1, <3>5, <3>6, OneWritten
  <2>2. CASE ~HasRelease(ctl.mem)
    BY <1>1, <2>0, <2>2, NoneWritten DEF RequestCurrentReleaseResync
  <2> QED
    BY <2>1, <2>2
<1>2. ASSUME NEW seen, Observe(seen) PROVE Budget'
  <2>1. ctl'.pc # "adopt"
    BY <1>2, MemTyped, PatchPoint DEF Observe, Points
  <2> QED
    BY <1>2, <2>1, ObserveBudget
<1>3. CASE PromoteToNextRing
  <2>1. CurrentStage(ctl.mem) + 1 \in Rings
    BY <1>3, MemTyped, NameTyped, RingAssumption DEF PromoteToNextRing, PromoteInv, Rings
  <2>2. <<ctl.mem.hash, CurrentStage(ctl.mem) + 1>> \in Rel
    BY <2>1, MemTyped DEF App, Rel
  <2>3. UNCHANGED <<rb, vetoed, overtaken>> /\ ctl'.pc # "adopt"
    BY <1>3 DEF PromoteToNextRing, world, Holding, Ctl, TypeOK
  <2> QED
    BY <1>3, <2>2, <2>3, CreateBudget DEF PromoteToNextRing
<1>4. CASE SupersedeCurrentRelease
  <2>0. UNCHANGED <<rb, vetoed, overtaken>> /\ ctl'.pc # "adopt"
    <3>1. RestartRings([ctl.mem EXCEPT !.ref = NoRel]) \in App
      BY MemTyped, AppTyped
    <3> QED
      BY <1>4, <3>1, HoldPoint DEF SupersedeCurrentRelease, Points, Idle, world
  <2>1. CASE rel' = rel
    BY <2>0, <2>1, NoneWritten
  <2>2. CASE rel' # rel
    <3> PICK r : r = ctl.mem.ref
      OBVIOUS
    <3> PICK p : p = [rel[r] EXCEPT !.phase = "Superseded"]
      OBVIOUS
    <3>1. r \in Rel /\ rel[r] \in Release /\ rel' = [rel EXCEPT ![r] = p]
      BY <1>4, <2>2, MemTyped DEF SupersedeCurrentRelease, TypeOK
    <3>2. p.phase = "Superseded" /\ p.retries = rel[r].retries /\ p.resync = rel[r].resync
      BY <3>1 DEF Release
    <3>3. rel'[r] = p /\ \A q \in Rel : q # r => rel'[q] = rel[q]
      BY <3>1 DEF TypeOK
    <3>4. Only(r) /\ ~Decided(r)' /\ BudgetOf(r)
      BY <2>0, <3>1, <3>3 DEF Only, Decided, Budget
    <3>5. BudgetOf(r)'
      BY <2>0, <3>2, <3>3, <3>4 DEF BudgetOf, Exists
    <3> QED
      BY <3>1, <3>4, <3>5, OneWritten
  <2> QED
    BY <2>1, <2>2
<1>5. CASE CreateRelease
  <2>1. [ctl.mem EXCEPT !.ref = ReleaseName(ctl.mem), !.phase = "Promoting"] \in App
    BY MemTyped, NameTyped, AppTyped
  <2>2. UNCHANGED <<rb, vetoed, overtaken>> /\ ctl'.pc # "adopt"
    BY <1>5, <2>1, HoldPoint DEF CreateRelease, world, Points
  <2> QED
    BY <1>5, <2>2, MemTyped, NameTyped, CreateBudget DEF CreateRelease
<1>6. CASE DecideResync
  BY <1>6, DecideBudget
<1>7. CASE ResyncAdopted
  <2>1. ctl'.pc # "adopt"
    BY <1>7, GotoPoint DEF ResyncAdopted, Points
  <2> QED
    BY <1>7, <2>1, AdoptBudget
<1>8. CASE UNCHANGED <<rel, rb, vetoed, overtaken>> /\ ctl'.pc # "adopt"
  BY <1>8, NoneWritten
<1>9. \/ RequestCurrentReleaseResync \/ PromoteToNextRing \/ SupersedeCurrentRelease
      \/ CreateRelease \/ DecideResync \/ ResyncAdopted \/ (\E seen : Observe(seen))
      \/ (UNCHANGED <<rel, rb, vetoed, overtaken>> /\ ctl'.pc # "adopt")
  BY <1>0 DEF AppStep, Reconcile, ConsumeSyncTrigger, RecordSyncedSource, FinishSyncTrigger,
     ReplaceRelease, PollSource, RingPromoted, PersistRingAdvance, NewFlowBlocked,
     StartNewReleaseFlow, FollowRelease, CreationBlocked, ReleaseCreated, AdoptRelease,
     ParkExhausted, FinishAdoption, world
<1> QED
  BY <1>1, <1>2, <1>3, <1>4, <1>5, <1>6, <1>7, <1>8, <1>9

(* A step of the Release controller that sets the phase of a release that  *)
(* runs: it is not rolled back and was not.                                *)
LEMMA RunBudget ==
  ASSUME TypeOK, Budget, NEW r \in Rel, NEW p, rel' = [rel EXCEPT ![r] = p],
         rel[r].phase \notin {"absent", "RolledBack", "Superseded"} \/ rel[r].resync # "no",
         rel[r].phase # "absent" => p.phase # "absent",
         rb[r].at = "none", p.retries = rel[r].retries,
         UNCHANGED <<ctl, rb, vetoed, overtaken>>
  PROVE  Budget'
<1>1. rel'[r] = p /\ \A q \in Rel : q # r => rel'[q] = rel[q]
  BY DEF TypeOK
<1>2. Only(r) /\ BudgetOf(r) /\ (Decided(r)' <=> Decided(r))
  BY <1>1 DEF Only, Budget, Decided
<1>3. r \notin vetoed
  BY <1>2 DEF BudgetOf
<1>4. BudgetOf(r)'
  BY <1>1, <1>2, <1>3 DEF BudgetOf, Exists
<1> QED
  BY <1>2, <1>4, OneWritten

(* A rollback's own writes. *)
LEMMA RollbackBudget ==
  ASSUME TypeOK, Budget, NEW r \in Rel,
         \/ RollbackBegin(r) \/ RollbackApply(r) \/ RollbackStamp(r) \/ MarkRolledBack(r)
         \/ PatchApplicationReleaseRef(r) \/ AbortRollback(r)
  PROVE  Budget'
<1>r. /\ rel[r] \in Release /\ rb[r] \in Rollback /\ rel \in [Rel -> Release]
      /\ rb \in [Rel -> Rollback] /\ BudgetOf(r)
  BY DEF TypeOK, Budget
<1>c. ctl' = ctl /\ (Decided(r)' <=> Decided(r))
  BY DEF RollbackBegin, RollbackApply, RollbackStamp, MarkRolledBack, PatchApplicationReleaseRef,
     AbortRollback, ctlVars, Decided
<1>1. CASE RollbackBegin(r)
  <2>1. PICK t \in RollbackTarget(r) :
           rb' = [rb EXCEPT ![r] =
                    [at     |-> IF t = NoRel THEN "applied" ELSE "begun",
                     target |-> t,
                     spent  |-> IF rel[r].retries = MaxRetries THEN "yes" ELSE "no"]]
    BY <1>1 DEF RollbackBegin
  <2>2. /\ rb'[r].at \in {"applied", "begun"} /\ (rb'[r].spent = "yes" => rel[r].retries = MaxRetries)
        /\ \A q \in Rel : q # r => rb'[q] = rb[q]
    BY <1>r, <2>1
  <2>3. /\ UNCHANGED <<rel, vetoed, overtaken>> /\ rb[r].at = "none"
        /\ rel[r].phase \notin {"absent", "RolledBack", "Superseded"}
        /\ rel[r].phase = "Complete" => rel[r].rollback # "no"
    BY <1>1 DEF RollbackBegin, ShouldRollback
  <2>4. r \notin vetoed
    BY <1>r, <2>3 DEF BudgetOf
  <2>5. Only(r)
    BY <1>c, <2>2, <2>3 DEF Only
  <2>6. BudgetOf(r)'
    BY <1>r, <1>c, <2>2, <2>3, <2>4 DEF BudgetOf, Exists
  <2> QED
    BY <2>5, <2>6, OneWritten
<1>2. CASE RollbackApply(r)
  <2>1. /\ rb[r].at = "begun" /\ rb'[r].at = "applied" /\ rb'[r].spent = rb[r].spent
        /\ \A q \in Rel : q # r => rb'[q] = rb[q]
        /\ UNCHANGED <<rel, vetoed, overtaken>>
    BY <1>r, <1>2 DEF RollbackApply, Rollback
  <2>2. Only(r)
    BY <1>c, <2>1 DEF Only
  <2>3. BudgetOf(r)'
    BY <1>r, <1>c, <2>1 DEF BudgetOf, Exists
  <2> QED
    BY <2>2, <2>3, OneWritten
<1>3. CASE RollbackStamp(r)
  <2>1. /\ rb[r].at = "applied" /\ rb'[r].at = "stamped" /\ rb'[r].spent = rb[r].spent
        /\ \A q \in Rel : q # r => rb'[q] = rb[q]
    BY <1>r, <1>3 DEF RollbackStamp, Rollback
  <2> PICK p : p = IF rb[r].spent = "yes" THEN rel[r] ELSE Stamp(rel[r])
    OBVIOUS
  <2>2. rel'[r] = p /\ \A q \in Rel : q # r => rel'[q] = rel[q]
    BY <1>r, <1>3 DEF RollbackStamp
  <2>3. /\ p.resync = rel[r].resync /\ p.rollback = rel[r].rollback /\ p.phase = rel[r].phase
        /\ p.retries = IF rb[r].spent = "yes" THEN rel[r].retries ELSE MaxRetries
    BY <1>r DEF Stamp, Release
  <2>4. /\ vetoed' = IF Asked(r) THEN vetoed ELSE vetoed \cup {r}
        /\ overtaken' = IF Decided(r) THEN overtaken \cup {r} ELSE overtaken
    BY <1>3 DEF RollbackStamp
  <2>5. Only(r)
    BY <1>c, <2>1, <2>2, <2>4 DEF Only
  <2>6. rel[r].retries \in Nat
    BY <1>r DEF Release
  <2>7. BudgetOf(r)'
    <3>1. \/ rel'[r].retries <= MaxRetries
          \/ (r \in overtaken' /\ rel'[r].retries = MaxRetries + 1)
      BY <1>r, <2>2, <2>3, <2>4, BoundAssumption DEF BudgetOf
    <3>2. Decided(r)' => /\ rel'[r].phase # "absent"
                         /\ \/ ctl'.manual = "yes"
                            \/ rel'[r].retries < MaxRetries
                            \/ (r \in overtaken' /\ rel'[r].retries <= MaxRetries)
      BY <1>r, <1>c, <2>2, <2>3, <2>4, <2>6, BoundAssumption DEF BudgetOf, Exists
    <3>3. /\ rel'[r].phase # "absent"
          /\ rel'[r].resync = "no" =>
                /\ rel'[r].phase = "Complete" => rel'[r].rollback # "no"
                /\ rb'[r].spent = "yes" => rel'[r].retries = MaxRetries
      BY <1>r, <2>1, <2>2, <2>3 DEF BudgetOf, Exists
    <3>4. r \in vetoed' => /\ rel'[r].retries = MaxRetries
                           /\ rel'[r].resync = "no"
                           /\ Decided(r)' => ctl'.manual = "yes"
      BY <1>r, <1>c, <2>1, <2>2, <2>3, <2>4 DEF BudgetOf, Asked
    <3> QED
      BY <2>1, <3>1, <3>2, <3>3, <3>4 DEF BudgetOf, Exists
  <2> QED
    BY <2>5, <2>7, OneWritten
<1>4. CASE MarkRolledBack(r)
  <2> PICK p : p = [rel[r] EXCEPT !.phase = "RolledBack"]
    OBVIOUS
  <2>1. /\ p.phase = "RolledBack" /\ p.retries = rel[r].retries /\ p.resync = rel[r].resync
    BY <1>r DEF Release
  <2>2. /\ rel'[r] = p /\ \A q \in Rel : q # r => rel'[q] = rel[q] /\ rb'[q] = rb[q]
        /\ rb'[r].at \in {"none", "marked"} /\ UNCHANGED <<vetoed, overtaken>>
    BY <1>r, <1>4 DEF MarkRolledBack, NoRollback, Rollback
  <2>3. Only(r)
    BY <1>c, <2>2 DEF Only
  <2>4. BudgetOf(r)'
    BY <1>r, <1>c, <2>1, <2>2 DEF BudgetOf, Exists
  <2> QED
    BY <2>3, <2>4, OneWritten
<1>5. CASE PatchApplicationReleaseRef(r) \/ AbortRollback(r)
  <2>1. /\ rb'[r].at = "none" /\ \A q \in Rel : q # r => rb'[q] = rb[q]
        /\ vetoed' \subseteq vetoed /\ (rb[r].at = "stamped" => r \notin vetoed')
        /\ UNCHANGED <<rel, overtaken>>
    BY <1>r, <1>5 DEF PatchApplicationReleaseRef, AbortRollback, NoRollback, ctlVars
  <2>2. Only(r)
    BY <1>c, <2>1 DEF Only
  <2>3. BudgetOf(r)'
    BY <1>r, <1>c, <2>1 DEF BudgetOf, Exists
  <2> QED
    BY <2>2, <2>3, OneWritten
<1> QED
  BY <1>1, <1>2, <1>3, <1>4, <1>5

LEMMA ReleaseBudget ==
  ASSUME TypeOK, Budget, NEW r \in Rel, ReleaseStep(r) \/ FailRelease(r)
  PROVE  Budget'
<1>r. rel[r] \in Release
  BY DEF TypeOK
<1>1. CASE HandleResync(r)
  <2> PICK p : p = [rel[r] EXCEPT !.resync = "no",
                      !.phase = IF rel[r].phase \in Terminal THEN "Pending" ELSE rel[r].phase]
    OBVIOUS
  <2>1. /\ p.phase = IF rel[r].phase \in Terminal THEN "Pending" ELSE rel[r].phase
        /\ p.retries = rel[r].retries
    BY <1>r DEF Release
  <2>2. rel' = [rel EXCEPT ![r] = p]
    BY <1>1 DEF HandleResync
  <2>3. UNCHANGED <<ctl, rb, vetoed, overtaken>> /\ rel[r].resync # "no" /\ rb[r].at = "none"
    BY <1>1 DEF HandleResync, ctlVars, world
  <2>4. rel[r].phase # "absent" => p.phase # "absent"
    BY <2>1
  <2>5. rel[r].phase \notin {"absent", "RolledBack", "Superseded"} \/ rel[r].resync # "no"
    BY <2>3
  <2>6. p.retries = rel[r].retries
    BY <2>1
  <2> QED
    BY <2>2, <2>3, <2>4, <2>5, <2>6, RunBudget
<1>2. CASE ParkRelease(r) \/ InitiateRelease(r) \/ FinishCanary(r) \/ FailRelease(r)
  <2>1. PICK x \in {"Pending", "active", "applied", "Failed"} :
          rel' = [rel EXCEPT ![r] = [rel[r] EXCEPT !.phase = x]]
    BY <1>2 DEF ParkRelease, InitiateRelease, FinishCanary, FailRelease
  <2> PICK p : p = [rel[r] EXCEPT !.phase = x]
    OBVIOUS
  <2>2. p.phase = x /\ p.retries = rel[r].retries
    BY <1>r DEF Release
  <2>3. /\ UNCHANGED <<ctl, rb, vetoed, overtaken>> /\ rb[r].at = "none"
        /\ rel[r].phase \in {"new", "Pending", "active", "canarying", "applied"}
    BY <1>2 DEF ParkRelease, InitiateRelease, FinishCanary, FailRelease, InProgress, Runs, ctlVars,
       world
  <2> QED
    BY <2>1, <2>2, <2>3, RunBudget
<1>3. CASE ApplyManifests(r)
  <2>1. PICK x \in {"canarying", "applied"} :
          rel' = [rel EXCEPT ![r] = [rel[r] EXCEPT !.phase = x, !.snapshot = "yes"]]
    BY <1>3 DEF ApplyManifests
  <2> PICK p : p = [rel[r] EXCEPT !.phase = x, !.snapshot = "yes"]
    OBVIOUS
  <2>2. p.phase = x /\ p.retries = rel[r].retries
    BY <1>r DEF Release
  <2>3. UNCHANGED <<ctl, rb, vetoed, overtaken>> /\ rb[r].at = "none" /\ rel[r].phase = "active"
    BY <1>3 DEF ApplyManifests, Runs, ctlVars
  <2> QED
    BY <2>1, <2>2, <2>3, RunBudget
<1>4. CASE CompleteRelease(r)
  <2> PICK p : p = [rel[r] EXCEPT !.phase = "Complete", !.retries = 0]
    OBVIOUS
  <2>1. p.phase = "Complete" /\ p.retries = 0
    BY <1>r DEF Release
  <2>2. /\ rel'[r] = p /\ \A q \in Rel : q # r => rel'[q] = rel[q]
        /\ UNCHANGED <<ctl, rb, vetoed>> /\ overtaken' = overtaken \ {r}
        /\ rb[r].at = "none" /\ rel[r].phase = "applied"
    BY <1>4 DEF CompleteRelease, Runs, ctlVars, TypeOK
  <2>3. Only(r) /\ BudgetOf(r)
    BY <2>2 DEF Only, Budget
  <2>4. r \notin vetoed
    BY <2>2, <2>3 DEF BudgetOf
  <2>5. BudgetOf(r)'
    BY <2>1, <2>2, <2>4, BoundAssumption DEF BudgetOf, Exists
  <2> QED
    BY <2>3, <2>5, OneWritten
<1>5. CASE RollbackBegin(r) \/ RollbackApply(r) \/ RollbackStamp(r) \/ MarkRolledBack(r)
           \/ PatchApplicationReleaseRef(r)
  BY <1>5, RollbackBudget
<1> QED
  BY <1>1, <1>2, <1>3, <1>4, <1>5 DEF ReleaseStep

(* The operators' requests. *)
LEMMA RequestBudget ==
  ASSUME TypeOK, Budget, NEW r \in Rel, RollbackRelease(r) \/ ResyncRelease(r)
  PROVE  Budget'
<1>1. PICK p : /\ rel' = [rel EXCEPT ![r] = p]
               /\ \/ p = [rel[r] EXCEPT !.rollback = "human"]
                  \/ (p = [rel[r] EXCEPT !.resync = "manual"] /\ r \notin vetoed')
  BY DEF RollbackRelease, ResyncRelease
<1>2. UNCHANGED <<ctl, rb, overtaken>> /\ vetoed' \subseteq vetoed
  BY DEF RollbackRelease, ResyncRelease, ctlVars
<1>3. /\ p.phase = rel[r].phase /\ p.retries = rel[r].retries
      /\ \/ (p.rollback = "human" /\ p.resync = rel[r].resync)
         \/ (p.resync = "manual" /\ r \notin vetoed')
  BY <1>1 DEF TypeOK, Release
<1>4. rel'[r] = p /\ \A q \in Rel : q # r => rel'[q] = rel[q]
  BY <1>1 DEF TypeOK
<1>5. Only(r) /\ BudgetOf(r) /\ (Decided(r)' <=> Decided(r))
  BY <1>2, <1>4 DEF Only, Budget, Decided
<1>6. BudgetOf(r)'
  BY <1>2, <1>3, <1>4, <1>5 DEF BudgetOf, Exists
<1> QED
  BY <1>5, <1>6, OneWritten

(* The retry cap holds, and a vetoed release stays ended. *)
LEMMA BudgetStep ==
  ASSUME TypeOK, PromoteInv, Budget, [Next]_vars
  PROVE  Budget'
<1>1. CASE UNCHANGED vars
  BY <1>1, NoneWritten DEF vars
<1>2. CASE AppStep \/ \E seen \in {"drift", "degraded", "analysis"} : Observe(seen)
  BY <1>2, AppBudget
<1>3. ASSUME NEW r \in Rel, ReleaseStep(r) \/ FailRelease(r) PROVE Budget'
  BY <1>3, ReleaseBudget
<1>4. ASSUME NEW r \in Rel, AbortRollback(r) PROVE Budget'
  BY <1>4, RollbackBudget
<1>5. ASSUME NEW r \in Rel, RollbackRelease(r) \/ ResyncRelease(r) PROVE Budget'
  BY <1>5, RequestBudget
<1>6. CASE RingPromotedFails
  <2>1. ctl'.pc # "adopt"
    BY <1>6, GotoPoint DEF RingPromotedFails, Points
  <2> QED
    BY <1>6, <2>1, NoneWritten DEF RingPromotedFails
<1>7. CASE AbortReconcile
  BY <1>7, NoneWritten DEF AbortReconcile, Idle
<1>8. CASE OpenWindow \/ CloseWindow \/ Commit
  BY <1>8, NoneWritten DEF OpenWindow, CloseWindow, Commit, ctlVars
<1>9. ASSUME NEW manual \in {"no", "yes"}, Sync(manual) PROVE Budget'
  BY <1>9, NoneWritten DEF Sync
<1> QED
  BY <1>1, <1>2, <1>3, <1>4, <1>5, <1>6, <1>7, <1>8, <1>9 DEF Next, Environment

(* The invariants say the same of all releases. *)
LEMMA BudgetParts ==
  ASSUME TypeOK
  PROVE  BudgetInv <=> PromoteInv /\ Budget
BY DEF BudgetInv, Budget, BudgetOf, RetryCap, DecidedInv, RollbackInv, VetoInv, TypeOK

(* The inductive invariant holds initially. *)
LEMMA BudgetStart == Init => BudgetInv
<1> SUFFICES ASSUME Init PROVE BudgetInv
  OBVIOUS
<1>1. Absent \in Release
  BY BoundAssumption DEF Absent, Release, Phases
<1>2. TypeOK
  BY <1>1, IdleTyped, BoundAssumption DEF Init, TypeOK, NoRollback, Rollback, Refs
<1>3. PromoteInv /\ Budget
  BY BoundAssumption DEF Init, PromoteInv, Budget, BudgetOf, Absent, Idle, Decided, NoRollback
<1> QED
  BY <1>2, <1>3, BudgetParts

(* The inductive invariant holds throughout. *)
LEMMA BudgetAlways == Spec => []BudgetInv
<1>1. BudgetInv /\ [Next]_vars => BudgetInv'
  <2> SUFFICES ASSUME BudgetInv, [Next]_vars PROVE BudgetInv'
    OBVIOUS
  <2>1. TypeOK /\ PromoteInv /\ Budget
    BY BudgetParts DEF BudgetInv
  <2>2. TypeOK' /\ PromoteInv' /\ Budget'
    BY <2>1, TypedStep, PromoteStep, BudgetStep
  <2> QED
    BY <2>2 DEF BudgetInv, Budget, BudgetOf, RetryCap, DecidedInv, RollbackInv, VetoInv, TypeOK
<1> QED
  BY <1>1, BudgetStart, PTL DEF Spec

(* Every state the two controllers and their inputs can reach is typed.    *)
THEOREM ApplicationTyped == Spec => []TypeOK
BY BudgetAlways, PTL DEF BudgetInv

(* The automatic retries of a release stay within the cap, whichever of    *)
(* the replacement flow, the rollbacks and the operator write the counter, *)
(* except for the one run a stamp between a retry's test and its write     *)
(* lets through.                                                           *)
THEOREM RetriesAreCapped == Spec => []RetryCap
BY BudgetAlways, PTL DEF BudgetInv

(* A rolled-back release stays ended until an operator asks for it, for    *)
(* any number of rings and sources and any interleaving of the writes of   *)
(* any number of rollbacks, unless another run of it was asked for or      *)
(* decided before the stamp.                                               *)
THEOREM NoResurrection == Spec => []NoAutoResurrection
<1>1. BudgetInv => NoAutoResurrection
  BY DEF BudgetInv, VetoInv, NoAutoResurrection
<1> QED
  BY <1>1, BudgetAlways, PTL

-----------------------------------------------------------------------------
(* The order of the rings.                                                 *)

(* What a step may do to the releases: none disappears, one is created for *)
(* a later ring only behind a verified one, and only a completion that is  *)
(* recorded makes one Complete.                                            *)
Behind(r) == r[2] > 1 => <<r[1], r[2] - 1>> \in verified
RollbacksKept ==
    \A r \in Rel : rb'[r].at # "none" => rb[r].at # "none" \/ rel[r].phase # "absent"
ReleasesKept ==
    /\ verified \subseteq verified'
    /\ \A r \in Rel :
          /\ rel[r].phase # "absent" => rel'[r].phase # "absent"
          /\ rel'[r].phase # "absent" => rel[r].phase # "absent" \/ Behind(r)
          /\ rel'[r].phase = "Complete" => rel[r].phase = "Complete" \/ r \in verified'
    /\ rb' = rb \/ RollbacksKept

LEMMA ReleasesOrdered ==
  ASSUME CompletedInv, RingOrder, ReleasesKept
  PROVE  CompletedInv' /\ RingOrder'
<1>1. RingOrder'
  BY DEF RingOrder, ReleasesKept, Behind, Exists
<1>2. \A r \in Rel : rel'[r].phase = "Complete" => r \in verified'
  BY DEF CompletedInv, ReleasesKept
<1>3. \A r \in Rel : rb'[r].at # "none" => rel'[r].phase # "absent"
  BY DEF CompletedInv, ReleasesKept, RollbacksKept, Exists
<1> QED
  BY <1>1, <1>2, <1>3 DEF CompletedInv, Exists

(* Steps that leave the releases alone, or write one of them. *)
LEMMA ReleasesSame ==
  ASSUME UNCHANGED <<rel, verified>>, rb' = rb \/ RollbacksKept
  PROVE  ReleasesKept
BY DEF ReleasesKept

LEMMA ReleaseWritten ==
  ASSUME TypeOK, NEW r \in Rel, NEW p, rel' = [rel EXCEPT ![r] = p], UNCHANGED verified,
         rb' = rb \/ RollbacksKept,
         rel[r].phase # "absent" => p.phase # "absent",
         p.phase # "absent" => rel[r].phase # "absent" \/ Behind(r),
         p.phase = "Complete" => rel[r].phase = "Complete"
  PROVE  ReleasesKept
<1>1. rel'[r] = p /\ \A q \in Rel : q # r => rel'[q] = rel[q]
  BY DEF TypeOK
<1> QED
  BY <1>1 DEF ReleasesKept

(* A resync and an observation leave a release's phase alone. *)
LEMMA PhasesSame ==
  ASSUME NEW p \in Release
  PROVE  /\ \A origin : Resynced(p, origin).phase = p.phase
         /\ \A seen : Requested(p, seen).phase = p.phase
         /\ Stamp(p).phase = p.phase
<1>1. \A origin : Resynced(p, origin).phase = p.phase
  BY DEF Resynced, Release
<1>2. \A seen : Requested(p, seen).phase = p.phase
  BY DEF Requested, AnalysisFailed, Release
<1>3. Stamp(p).phase = p.phase
  BY DEF Stamp, Release
<1> QED
  BY <1>1, <1>2, <1>3

(* A release is created behind a verified one. *)
LEMMA CreatedBehind ==
  ASSUME TypeOK, NEW r \in Rel, Create(r), Behind(r), UNCHANGED <<verified, rb>>
  PROVE  ReleasesKept
<1>1. CASE Exists(r)
  BY <1>1, ReleasesSame DEF Create
<1>2. CASE ~Exists(r)
  <2>1. rel' = [rel EXCEPT ![r] = Created]
    BY <1>2 DEF Create
  <2>2. Created.phase = "new"
    BY DEF Created, Absent
  <2> QED
    BY <2>1, <2>2, ReleaseWritten
<1> QED
  BY <1>1, <1>2

(* The releases of one step of the Application controller. *)
LEMMA AppReleases ==
  ASSUME TypeOK, PromoteInv, RingInv,
         AppStep \/ \E seen \in {"drift", "degraded", "analysis"} : Observe(seen)
  PROVE  ReleasesKept /\ UNCHANGED verified
<1>1. CASE RequestCurrentReleaseResync
  BY <1>1 DEF RequestCurrentReleaseResync, RingInv, UnattendedInv
<1>2. ASSUME NEW seen, Observe(seen)
      PROVE  ReleasesKept /\ UNCHANGED verified
  <2>1. UNCHANGED <<verified, rb>>
    BY <1>2 DEF Observe
  <2>2. CASE rel' = rel
    BY <2>1, <2>2, ReleasesSame
  <2>3. CASE rel' # rel
    <3> PICK r : r = ctl.mem.ref
      OBVIOUS
    <3>1. PhaseOf(ctl.mem) = "Complete" /\ rel' = [rel EXCEPT ![r] = Requested(rel[r], seen)]
      BY <1>2, <2>3 DEF Observe
    <3>2. r \in Rel /\ rel[r] \in Release
      BY <3>1, MemTyped DEF PhaseOf, TypeOK
    <3>3. Requested(rel[r], seen).phase = rel[r].phase
      BY <3>2, PhasesSame
    <3> QED
      BY <2>1, <3>1, <3>2, <3>3, ReleaseWritten
  <2> QED
    BY <2>2, <2>3
<1>3. CASE PromoteToNextRing
  <2> PICK a : a = ctl.mem
    OBVIOUS
  <2> PICK r : r = <<a.hash, CurrentStage(a) + 1>>
    OBVIOUS
  <2>1. ctl.pc = "promote" /\ Create(r) /\ UNCHANGED <<verified, rb>>
    BY <1>3 DEF PromoteToNextRing, world
  <2>2. a \in App /\ CurrentStage(a) \in Rings /\ CurrentStage(a) < N /\ a.hash \in Hashes
    BY <2>1, MemTyped, NameTyped DEF PromoteInv, App
  <2>3. r \in Rel /\ r[1] = a.hash /\ r[2] = CurrentStage(a) + 1
    BY <2>2, RingAssumption DEF Rel, Rings
  <2>4. <<a.hash, CurrentStage(a)>> \in verified
    BY <2>1 DEF RingInv, StageInv, ReleaseName
  <2>5. Behind(r)
    <3>1. r[2] - 1 = CurrentStage(a)
      BY <2>2, <2>3 DEF Rings
    <3> QED
      BY <2>3, <2>4, <3>1 DEF Behind
  <2> QED
    BY <2>1, <2>3, <2>5, CreatedBehind
<1>4. CASE SupersedeCurrentRelease
  <2>1. UNCHANGED <<verified, rb>>
    BY <1>4 DEF SupersedeCurrentRelease, world
  <2> PICK r : r = ctl.mem.ref
    OBVIOUS
  <2>2. CASE rel' = rel
    BY <2>1, <2>2, ReleasesSame
  <2>3. CASE rel' # rel
    <3>1. HasRelease(ctl.mem) /\ rel' = [rel EXCEPT ![r].phase = "Superseded"]
      BY <1>4, <2>3 DEF SupersedeCurrentRelease
    <3> PICK p : p = [rel[r] EXCEPT !.phase = "Superseded"]
      OBVIOUS
    <3>2. r \in Rel /\ rel[r] \in Release /\ rel[r].phase # "absent"
      BY <3>1, MemTyped DEF TypeOK, HasRelease, Exists
    <3>3. rel' = [rel EXCEPT ![r] = p] /\ p.phase = "Superseded"
      BY <3>1, <3>2 DEF Release
    <3> QED
      BY <2>1, <3>2, <3>3, ReleaseWritten
  <2> QED
    BY <2>2, <2>3
<1>5. CASE CreateRelease
  <2> PICK a : a = ctl.mem
    OBVIOUS
  <2> PICK r : r = ReleaseName(a)
    OBVIOUS
  <2>1. ctl.pc = "flow" /\ Create(r) /\ UNCHANGED <<verified, rb>>
    BY <1>5 DEF CreateRelease, Creating, InFlow, world
  <2>2. a \in App /\ r \in Rel /\ r = <<a.hash, CurrentStage(a)>>
    BY MemTyped, NameTyped DEF ReleaseName
  <2>3. Reached(a)
    BY <2>1 DEF RingInv, StageInv
  <2>4. Behind(r)
    BY <2>2, <2>3 DEF Behind, Reached, CurrentStage
  <2> QED
    BY <2>1, <2>2, <2>4, CreatedBehind
<1>6. CASE ResyncAdopted
  <2> PICK r : r = ctl.mem.ref
    OBVIOUS
  <2>1. PICK origin : rel' = [rel EXCEPT ![r] = Resynced(rel[r], origin)]
    BY <1>6 DEF ResyncAdopted
  <2>2. UNCHANGED <<verified, rb>>
    BY <1>6 DEF ResyncAdopted
  <2>3. CASE r \in Rel
    <3>1. rel[r] \in Release
      BY <2>3 DEF TypeOK
    <3>2. Resynced(rel[r], origin).phase = rel[r].phase
      BY <3>1, PhasesSame
    <3> QED
      BY <2>1, <2>2, <2>3, <3>2, ReleaseWritten
  <2>4. CASE r \notin Rel
    <3>1. rel' = rel
      BY <2>1, <2>4 DEF TypeOK
    <3> QED
      BY <2>2, <3>1, ReleasesSame
  <2> QED
    BY <2>3, <2>4
<1>7. CASE UNCHANGED <<rel, verified, rb>>
  BY <1>7, ReleasesSame
<1>8. \/ RequestCurrentReleaseResync \/ PromoteToNextRing \/ SupersedeCurrentRelease
      \/ CreateRelease \/ ResyncAdopted \/ (\E seen : Observe(seen))
      \/ UNCHANGED <<rel, verified, rb>>
  BY DEF AppStep, Reconcile, ConsumeSyncTrigger, RecordSyncedSource, FinishSyncTrigger,
     ReplaceRelease, PollSource, RingPromoted, PersistRingAdvance, NewFlowBlocked,
     StartNewReleaseFlow, FollowRelease, CreationBlocked, ReleaseCreated, AdoptRelease,
     ParkExhausted, DecideResync, FinishAdoption, world
<1>9. UNCHANGED verified
  BY <1>8 DEF RequestCurrentReleaseResync, PromoteToNextRing, SupersedeCurrentRelease,
     CreateRelease, ResyncAdopted, Observe, world
<1> QED
  BY <1>1, <1>2, <1>3, <1>4, <1>5, <1>6, <1>7, <1>8, <1>9

(* What a status copy must satisfy for a reconcile to go to a point with it. *)
Leads(a, pc) ==
    /\ pc \in Points \ {"consume", "resync", "syncPending", "supersedeManually"}
    /\ pc \in {"flow", "created", "adopt", "adoptPending", "advance", "cas", "clear"} => Reached(a)
    /\ pc \in {"healthy", "record", "supersede", "observe", "observeOnly", "promote"} => Resting(a)
    /\ pc \in {"observe", "promote"} => ReleaseName(a) \in verified
StageKept == StageInv' /\ UnattendedInv'

(* What a reconcile holds after it moved on. *)
LEMMA Moved ==
  ASSUME TypeOK, NEW a \in App, NEW pc \in Points, ctl' = At(Holding(a), pc)
  PROVE  /\ ctl'.pc = pc
         /\ pc # "idle" => ctl'.mem = a /\ ctl'.manual = ctl.manual
         /\ pc = "idle" => ctl'.manual = "no"
<1>1. Holding(a) \in Ctl /\ Holding(a).mem = a /\ Holding(a).manual = ctl.manual
  BY HoldingTyped DEF Holding, TypeOK, Ctl
<1>2. CASE pc = "idle"
  BY <1>2 DEF At, Idle
<1>3. CASE pc # "idle"
  BY <1>1, <1>3 DEF At, Ctl
<1> QED
  BY <1>2, <1>3

(* A status write that leads on. *)
LEMMA PatchLeads ==
  ASSUME TypeOK, RingInv, NEW a \in App, NEW pc, Patch(a, pc), Leads(a, pc),
         Resting(a) \/ Reached(a), UNCHANGED verified, ann'.manual = "no"
  PROVE  StageKept
<1> PICK b : b = Preserving(a)
  OBVIOUS
<1>1. b \in App /\ b.stage = a.stage /\ b.hash = a.hash /\ b.phase = a.phase
  <2>1. b \in App /\ b = [a EXCEPT !.ref = IF a.ref = NoRel THEN app.ref ELSE a.ref]
    BY AppTyped DEF TypeOK, Preserving
  <2> QED
    BY <2>1 DEF App
<1>2. app' = b /\ ctl' = At(Holding(b), pc) /\ pc \in Points
  BY DEF Patch, Leads
<1>3. /\ ctl'.pc = pc
      /\ pc # "idle" => ctl'.mem = b /\ ctl'.manual = ctl.manual
      /\ pc = "idle" => ctl'.manual = "no"
  BY <1>1, <1>2, Moved
<1>4. UnattendedInv'
  BY <1>3 DEF RingInv, UnattendedInv, Leads
<1>5. /\ Resting(b) <=> Resting(a)
      /\ Reached(b) <=> Reached(a)
      /\ ReleaseName(b) = ReleaseName(a)
  BY <1>1 DEF Resting, Reached, ReleaseName, CurrentStage
<1>6. (Resting(app) \/ Reached(app))'
  BY <1>2, <1>5 DEF Resting, Reached
<1>7. ASSUME pc = "idle" PROVE StageInv'
  BY <1>3, <1>6, <1>7 DEF StageInv
<1>8. ASSUME pc # "idle" PROVE StageInv'
  <2>1. ctl'.mem = b /\ app'.hash = b.hash /\ ctl'.pc = pc /\ pc # "consume"
    BY <1>2, <1>3, <1>8 DEF Leads
  <2>2. Leads(b, pc)
    BY <1>5 DEF Leads
  <2> QED
    BY <1>6, <2>1, <2>2 DEF StageInv, Leads, Resting, Reached, ReleaseName, CurrentStage
<1> QED
  BY <1>4, <1>7, <1>8 DEF StageKept

(* A reconcile that goes on with another copy, and writes nothing yet. *)
LEMMA HoldLeads ==
  ASSUME TypeOK, RingInv, NEW a \in App, NEW pc, ctl' = At(Holding(a), pc), Leads(a, pc),
         pc \notin {"observe", "promote", "advance", "cas"}, UNCHANGED <<app, verified>>,
         ann'.manual = "no"
  PROVE  StageKept
<1>1. pc \in Points
  BY DEF Leads
<1>2. /\ ctl'.pc = pc
      /\ pc # "idle" => ctl'.mem = a /\ ctl'.manual = ctl.manual
      /\ pc = "idle" => ctl'.manual = "no"
  BY <1>1, Moved
<1>3. UnattendedInv'
  BY <1>2 DEF RingInv, UnattendedInv, Leads
<1>4. StageInv'
  BY <1>2 DEF RingInv, StageInv, Leads, Resting, Reached
<1> QED
  BY <1>3, <1>4 DEF StageKept

(* A reconcile that goes on with the copy it has. *)
LEMMA GotoLeads ==
  ASSUME TypeOK, RingInv, NEW pc, Goto(pc), Leads(ctl.mem, pc),
         pc \in {"observe", "promote", "advance", "cas"} => app.hash = ctl.mem.hash,
         UNCHANGED verified, ann'.manual = "no"
  PROVE  StageKept
<1>1. /\ ctl'.pc = pc /\ app' = app
      /\ pc # "idle" => ctl'.mem = ctl.mem /\ ctl'.manual = ctl.manual
      /\ pc = "idle" => ctl'.manual = "no"
  BY DEF TypeOK, Goto, At, Idle, Ctl
<1>2. UnattendedInv'
  BY <1>1 DEF RingInv, UnattendedInv, Leads
<1>3. StageInv'
  BY <1>1 DEF RingInv, StageInv, Leads, Resting, Reached, ReleaseName, CurrentStage
<1> QED
  BY <1>2, <1>3 DEF StageKept

(* The reconcile is over. *)
LEMMA IdleLeads ==
  ASSUME RingInv, ctl' = Idle, (Resting(app) \/ Reached(app))', verified \subseteq verified',
         ann'.manual = "no"
  PROVE  StageKept
BY DEF StageKept, StageInv, UnattendedInv, Idle, Resting, Reached

(* A step of others leaves the reconcile where it is. *)
LEMMA OthersLead ==
  ASSUME RingInv, UNCHANGED ctl, ann'.manual = "no", verified \subseteq verified',
         app'.phase = app.phase, app'.hash = app.hash, app'.stage = app.stage
  PROVE  StageKept
BY DEF RingInv, StageKept, StageInv, UnattendedInv, Resting, Reached, ReleaseName, CurrentStage

(* A promoted copy: its source completed the ring it leaves. *)
LEMMA NextRingReached ==
  ASSUME TypeOK, PromoteInv, RingInv, PromoteToNextRing, UNCHANGED verified
  PROVE  StageKept
<1> PICK a : a = ctl.mem
  OBVIOUS
<1> PICK k : k = CurrentStage(a) + 1
  OBVIOUS
<1> PICK r : r = <<a.hash, k>>
  OBVIOUS
<1> PICK b : b = [a EXCEPT !.stage = k, !.ref = r, !.phase = "Promoting"]
  OBVIOUS
<1>1. /\ ctl.pc = "promote" /\ UNCHANGED <<app, ann>>
      /\ ctl' = [Holding(b) EXCEPT !.pc = "advance", !.done = ctl.mem.ref]
  BY DEF PromoteToNextRing
<1>2. a \in App /\ CurrentStage(a) \in Rings /\ CurrentStage(a) < N
  BY <1>1, MemTyped, NameTyped DEF PromoteInv
<1>3. b.stage = k /\ b.hash = a.hash /\ k \in Nat /\ k - 1 = CurrentStage(a)
  BY <1>2 DEF App, Rings
<1>4. ctl'.pc = "advance" /\ ctl'.mem = b /\ ctl'.manual = ctl.manual
  <2>1. Holding(b).mem = b /\ Holding(b).manual = ctl.manual
        /\ Holding(b) = [pc |-> ctl.pc, mem |-> b, sync |-> ctl.sync, manual |-> ctl.manual,
                         seen |-> ctl.seen, done |-> ctl.done]
    BY DEF Holding, TypeOK, Ctl
  <2> QED
    BY <1>1, <2>1
<1>5. /\ ReleaseName(a) = <<a.hash, CurrentStage(a)>> /\ ReleaseName(a) \in verified
      /\ app.hash = a.hash
  BY <1>1 DEF RingInv, StageInv, ReleaseName
<1>6. Reached(b)
  BY <1>3, <1>5 DEF Reached
<1>7. StageInv'
  <2>1. (Resting(app) \/ Reached(app))'
    BY <1>1 DEF RingInv, StageInv, Resting, Reached
  <2>2. app'.hash = ctl'.mem.hash
    BY <1>1, <1>3, <1>4, <1>5
  <2>3. Reached(ctl.mem)'
    BY <1>4, <1>6 DEF Reached
  <2> QED
    BY <1>4, <2>1, <2>2, <2>3 DEF StageInv
<1>8. UnattendedInv'
  BY <1>1, <1>4 DEF RingInv, UnattendedInv
<1> QED
  BY <1>7, <1>8 DEF StageKept

(* The steps of the Application controller. *)
LEMMA AppStages ==
  ASSUME TypeOK, PromoteInv, RingInv, UNCHANGED verified,
         AppStep \/ \E seen \in {"drift", "degraded", "analysis"} : Observe(seen)
  PROVE  StageKept
<1> PICK m : m = ctl.mem
  OBVIOUS
<1>m. m \in App /\ ctl.seen \in Hashes /\ app \in App /\ head \in Hashes
  BY MemTyped DEF TypeOK
<1>n. ann.manual = "no" /\ ctl.manual = "no"
  BY DEF RingInv, UnattendedInv
<1>c. ClearManual => ann'.manual = "no"
  BY <1>n DEF ClearManual
<1>1. CASE Reconcile
  <2>1. /\ ctl'.pc = IF ann.sync # 0 THEN "consume"
                     ELSE IF app.phase \in {"Healthy", "RolledBack"} THEN "healthy" ELSE "flow"
        /\ ctl'.mem = app /\ ctl'.manual = ann.manual /\ UNCHANGED <<app, ann>>
    BY <1>1 DEF Reconcile, Idle
  <2>2. UnattendedInv'
    BY <1>n, <2>1 DEF UnattendedInv
  <2>3. StageInv'
    BY <2>1 DEF RingInv, StageInv, Resting, Reached
  <2> QED
    BY <2>2, <2>3 DEF StageKept
<1>2. CASE ConsumeSyncTrigger
  <2>1. /\ ctl.pc = "consume" /\ UNCHANGED app /\ ann'.manual = "no"
        /\ ctl' = At(Holding(app), IF m.phase = "Healthy" THEN "record" ELSE "idle")
    BY <1>2, <1>n DEF ConsumeSyncTrigger, TypeOK, Ann
  <2>2. app.phase = m.phase
    BY <2>1 DEF RingInv, StageInv
  <2>3. Leads(app, IF m.phase = "Healthy" THEN "record" ELSE "idle")
    BY <2>2 DEF Leads, Points, Resting
  <2> QED
    BY <1>m, <2>1, <2>3, HoldLeads
<1>3. CASE RecordSyncedSource
  <2> PICK a : a = [m EXCEPT !.hash = ctl.seen]
    OBVIOUS
  <2>1. a \in App /\ a.phase = m.phase
    BY <1>m DEF App
  <2>2. PICK pc \in {"supersede", "idle"} : Goto(pc) \/ Patch(a, pc)
    BY <1>3, <1>n DEF RecordSyncedSource
  <2>3. ctl.pc = "record" /\ UNCHANGED ann
    BY <1>3 DEF RecordSyncedSource
  <2>4. Resting(m) /\ Resting(a)
    BY <2>1, <2>3 DEF RingInv, StageInv, Resting
  <2>5. Leads(a, pc) /\ Leads(m, pc)
    BY <2>2, <2>4 DEF Leads, Points
  <2> QED
    BY <1>n, <2>1, <2>2, <2>3, <2>4, <2>5, GotoLeads, PatchLeads
<1>4. CASE RequestCurrentReleaseResync \/ FinishSyncTrigger
  BY <1>4 DEF RequestCurrentReleaseResync, FinishSyncTrigger, RingInv, UnattendedInv
<1>5. CASE ReplaceRelease
  <2>1. ctl.pc = "healthy" /\ Goto("supersede") /\ UNCHANGED ann
    BY <1>5 DEF ReplaceRelease
  <2>2. Leads(m, "supersede")
    BY <2>1 DEF RingInv, StageInv, Leads, Points
  <2> QED
    BY <1>n, <2>1, <2>2, GotoLeads
<1>6. CASE PollSource
  <2> PICK a : a = Polled(m)
    OBVIOUS
  <2>1. ctl.pc = "healthy" /\ UNCHANGED ann
    BY <1>6 DEF PollSource
  <2>2. a \in App /\ Resting(a)
    <3>1. Resting(m)
      BY <2>1 DEF RingInv, StageInv
    <3>2. a \in App
      BY <1>m DEF Polled, App
    <3>3. a.phase \in {m.phase, "Healthy"}
      BY <1>m DEF Polled, App
    <3> QED
      BY <3>1, <3>2, <3>3 DEF Resting
  <2>3. PICK pc \in {"supersede", "idle", "observe", "observeOnly"} :
           Patch(a, pc) /\ (pc = "observe" => ~IdentityChanged(a) /\ PhaseOf(a) = "Complete")
    BY <1>6 DEF PollSource
  <2>4. pc = "observe" => ReleaseName(a) \in verified
    <3>1. SUFFICES ASSUME pc = "observe"
                   PROVE  ReleaseName(a) \in verified
      OBVIOUS
    <3>2. HasRelease(a) /\ rel[a.ref].phase = "Complete" /\ a.ref = ReleaseName(a)
      BY <2>3, <3>1 DEF PhaseOf, IdentityChanged, HasRelease
    <3>3. ReleaseName(a) \in Rel
      BY <2>2, NameTyped
    <3> QED
      BY <3>2, <3>3 DEF RingInv, CompletedInv
  <2>5. Leads(a, pc)
    BY <2>2, <2>3, <2>4 DEF Leads, Points
  <2> QED
    BY <1>n, <2>1, <2>2, <2>3, <2>5, PatchLeads
<1>7. ASSUME NEW seen, Observe(seen) PROVE StageKept
  <2>1. PICK pc \in {"promote", "idle"} : Patch(m, pc) /\ (pc = "promote" => ctl.pc = "observe")
    BY <1>7 DEF Observe
  <2>2. ctl.pc \in {"observe", "observeOnly"} /\ UNCHANGED ann
    BY <1>7 DEF Observe
  <2>3. Resting(m) /\ (pc = "promote" => ReleaseName(m) \in verified)
    BY <2>1, <2>2 DEF RingInv, StageInv
  <2>4. Leads(m, pc)
    BY <2>1, <2>3 DEF Leads, Points
  <2> QED
    BY <1>m, <1>n, <2>1, <2>2, <2>3, <2>4, PatchLeads
<1>8. CASE PromoteToNextRing
  BY <1>8, NextRingReached
<1>9. CASE RingPromoted
  <2>1. ctl.pc = "advance" /\ Patch(m, "cas") /\ UNCHANGED ann
    BY <1>9 DEF RingPromoted
  <2>2. Reached(m) /\ Leads(m, "cas")
    BY <2>1 DEF RingInv, StageInv, Leads, Points
  <2> QED
    BY <1>m, <1>n, <2>1, <2>2, PatchLeads
<1>10. CASE PersistRingAdvance
  <2>1. /\ ctl.pc = "cas" /\ ctl' = Idle /\ UNCHANGED ann
        /\ app' = app \/ app' = [app EXCEPT !.stage = m.stage, !.ref = m.ref]
    BY <1>10 DEF PersistRingAdvance
  <2>2. Reached(m) /\ app.hash = m.hash /\ (Resting(app) \/ Reached(app))
    BY <2>1 DEF RingInv, StageInv
  <2>3. (Resting(app) \/ Reached(app))'
    <3>1. CASE app' = app
      BY <2>2, <3>1 DEF Resting, Reached
    <3>2. CASE app' = [app EXCEPT !.stage = m.stage, !.ref = m.ref]
      <4>1. app'.stage = m.stage /\ app'.hash = m.hash
        BY <1>m, <2>2, <3>2 DEF App
      <4> QED
        BY <2>2, <4>1 DEF Reached
    <3> QED
      BY <2>1, <3>1, <3>2
  <2> QED
    BY <1>n, <2>1, <2>3, IdleLeads
<1>11. CASE NewFlowBlocked
  <2>1. ctl.pc = "supersede" /\ Patch(m, "idle") /\ UNCHANGED ann
    BY <1>11 DEF NewFlowBlocked, Superseding, RingInv, UnattendedInv
  <2>2. Resting(m) /\ Leads(m, "idle")
    BY <2>1 DEF RingInv, StageInv, Leads, Points
  <2> QED
    BY <1>m, <1>n, <2>1, <2>2, PatchLeads
<1>12. CASE SupersedeCurrentRelease
  <2> PICK a : a = RestartRings([m EXCEPT !.ref = NoRel])
    OBVIOUS
  <2>1. ctl.pc = "supersede" /\ UNCHANGED <<app, ann>>
        /\ (ctl' = Idle \/ ctl' = At(Holding(a), "clear"))
    BY <1>12 DEF SupersedeCurrentRelease, Superseding, RingInv, UnattendedInv
  <2>2. a \in App /\ a.stage = 0
    <3> PICK b : b = [m EXCEPT !.ref = NoRel]
      OBVIOUS
    <3>1. b \in App
      BY <1>m, AppTyped DEF Refs
    <3>2. a = [b EXCEPT !.stage = 0]
      BY <2>1 DEF RestartRings
    <3>3. a.stage = 0
      BY <3>1, <3>2 DEF App
    <3>4. RestartRings(b) \in App
      BY <3>1, AppTyped
    <3> QED
      BY <3>3, <3>4
  <2>3. Leads(a, "clear")
    BY <2>2 DEF Leads, Points, Reached
  <2>4. CASE ctl' = Idle
    <3>1. (Resting(app) \/ Reached(app))'
      BY <2>1 DEF RingInv, StageInv, Resting, Reached
    <3> QED
      BY <1>n, <2>1, <2>4, <3>1, IdleLeads
  <2>5. CASE ctl' = At(Holding(a), "clear")
    BY <1>n, <2>1, <2>2, <2>3, <2>5, HoldLeads
  <2> QED
    BY <2>1, <2>4, <2>5
<1>13. CASE StartNewReleaseFlow
  <2>1. ctl.pc = "clear" /\ app' = [m EXCEPT !.phase = "Pending"] /\ ctl' = Idle /\ UNCHANGED ann
    BY <1>13 DEF StartNewReleaseFlow
  <2>2. Reached(m) /\ app'.stage = m.stage /\ app'.hash = m.hash
    BY <1>m, <2>1 DEF RingInv, StageInv, App
  <2>3. (Resting(app) \/ Reached(app))'
    BY <2>2 DEF Reached
  <2> QED
    BY <1>n, <2>1, <2>3, IdleLeads
<1>14. CASE FollowRelease \/ CreationBlocked
  <2>1. ctl.pc = "flow" /\ ann'.manual = "no"
    BY <1>14, <1>n, <1>c DEF FollowRelease, CreationBlocked, InFlow
  <2>2. Reached(m)
    BY <2>1 DEF RingInv, StageInv
  <2>3. CASE Goto("idle")
    BY <2>1, <2>3, GotoLeads DEF Leads, Points
  <2>4. CASE \E x \in {"Healthy", "Degraded", "RolledBack", "Promoting", "Pending"} :
                \E pc \in {"idle", "observeOnly"} :
                   Patch([m EXCEPT !.phase = x], pc) /\ (pc = "observeOnly" => x = "Healthy")
    <3>1. PICK x \in {"Healthy", "Degraded", "RolledBack", "Promoting", "Pending"},
               pc \in {"idle", "observeOnly"} :
             Patch([m EXCEPT !.phase = x], pc) /\ (pc = "observeOnly" => x = "Healthy")
      BY <2>4
    <3> PICK a : a = [m EXCEPT !.phase = x]
      OBVIOUS
    <3>2. a \in App /\ a.stage = m.stage /\ a.hash = m.hash /\ a.phase = x
      BY <1>m DEF App
    <3>3. Reached(a) /\ Leads(a, pc)
      BY <2>2, <3>1, <3>2 DEF Reached, Leads, Points, Resting
    <3> QED
      BY <2>1, <3>1, <3>2, <3>3, PatchLeads
  <2>5. \/ Goto("idle")
        \/ \E x \in {"Healthy", "Degraded", "RolledBack", "Promoting", "Pending"} :
                \E pc \in {"idle", "observeOnly"} :
                   Patch([m EXCEPT !.phase = x], pc) /\ (pc = "observeOnly" => x = "Healthy")
    <3>1. CASE FollowRelease
      <4>1. PICK ph : ph = PhaseOf(m)
        OBVIOUS
      <4>2. \/ Goto("idle")
            \/ Patch([m EXCEPT !.phase = AppPhase(ph)], IF ph = "Complete" THEN "observeOnly" ELSE "idle")
        BY <3>1, <4>1 DEF FollowRelease
      <4>3. AppPhase(ph) \in {"Healthy", "Degraded", "RolledBack", "Promoting"}
            /\ (ph = "Complete" => AppPhase(ph) = "Healthy")
        BY DEF AppPhase
      <4> QED
        BY <4>2, <4>3
    <3>2. CASE CreationBlocked
      BY <3>2 DEF CreationBlocked
    <3> QED
      BY <1>14, <3>1, <3>2
  <2> QED
    BY <2>3, <2>4, <2>5
<1>15. CASE CreateRelease \/ DecideResync
  <2>1. ctl.pc = "flow" /\ UNCHANGED <<app, ann>>
    BY <1>15 DEF CreateRelease, DecideResync, Creating, InFlow
  <2> PICK r : r = ReleaseName(m)
    OBVIOUS
  <2>2. Reached(m) /\ r \in Refs
    BY <1>m, <2>1, NameTyped DEF RingInv, StageInv, Refs
  <2>3. PICK a \in {[m EXCEPT !.ref = r, !.phase = "Promoting"], [m EXCEPT !.ref = r]},
             pc \in {"created", "adopt"} : ctl' = At(Holding(a), pc)
    BY <1>15 DEF CreateRelease, DecideResync
  <2>4. a \in App /\ a.stage = m.stage /\ a.hash = m.hash
    BY <1>m, <2>2, <2>3 DEF App
  <2>5. Leads(a, pc)
    BY <2>2, <2>3, <2>4 DEF Leads, Points, Reached
  <2> QED
    BY <1>n, <2>1, <2>3, <2>4, <2>5, HoldLeads
<1>16. CASE AdoptRelease \/ ParkExhausted
  <2>1. ctl.pc = "flow" /\ ann'.manual = "no"
    BY <1>16, <1>c DEF AdoptRelease, ParkExhausted, Creating, InFlow
  <2> PICK r : r = ReleaseName(m)
    OBVIOUS
  <2>2. Reached(m) /\ r \in Refs
    BY <1>m, <2>1, NameTyped DEF RingInv, StageInv, Refs
  <2>3. PICK x \in {"Promoting", "RolledBack"} : Patch([m EXCEPT !.ref = r, !.phase = x], "idle")
    BY <1>16 DEF AdoptRelease, ParkExhausted
  <2> PICK a : a = [m EXCEPT !.ref = r, !.phase = x]
    OBVIOUS
  <2>4. a \in App /\ a.stage = m.stage /\ a.hash = m.hash
    BY <1>m, <2>2 DEF App
  <2>5. Reached(a) /\ Leads(a, "idle")
    BY <2>2, <2>4 DEF Leads, Points, Reached
  <2> QED
    BY <2>1, <2>3, <2>4, <2>5, PatchLeads
<1>17. CASE ReleaseCreated \/ FinishAdoption
  <2>1. ctl.pc \in {"created", "adoptPending"} /\ ann'.manual = "no"
    BY <1>17, <1>c DEF ReleaseCreated, FinishAdoption
  <2>2. PICK a \in {m, [m EXCEPT !.phase = "Pending"]} : Patch(a, "idle")
    BY <1>17 DEF ReleaseCreated, FinishAdoption
  <2>3. a \in App /\ a.stage = m.stage /\ a.hash = m.hash
    BY <1>m, <2>2 DEF App
  <2>4. Reached(a) /\ Leads(a, "idle")
    BY <2>1, <2>3 DEF RingInv, StageInv, Leads, Points, Reached
  <2> QED
    BY <2>1, <2>2, <2>3, <2>4, PatchLeads
<1>18. CASE ResyncAdopted
  <2>1. ctl.pc = "adopt" /\ Goto("adoptPending") /\ UNCHANGED ann
    BY <1>18 DEF ResyncAdopted
  <2>2. Leads(m, "adoptPending")
    BY <2>1 DEF RingInv, StageInv, Leads, Points
  <2> QED
    BY <1>n, <2>1, <2>2, GotoLeads
<1> QED
  BY <1>1, <1>2, <1>3, <1>4, <1>5, <1>6, <1>7, <1>8, <1>9, <1>10, <1>11, <1>12, <1>13, <1>14,
     <1>15, <1>16, <1>17, <1>18 DEF AppStep

(* The releases of one step of the Release controller. *)
LEMMA ReleaseReleases ==
  ASSUME TypeOK, RingInv, NEW r \in Rel, ReleaseStep(r)
  PROVE  ReleasesKept
<1>r. rel[r] \in Release
  BY DEF TypeOK
<1>1. CASE HandleResync(r)
  <2> PICK p : p = [rel[r] EXCEPT !.resync = "no",
                      !.phase = IF rel[r].phase \in Terminal THEN "Pending" ELSE rel[r].phase]
    OBVIOUS
  <2>1. /\ p.phase = IF rel[r].phase \in Terminal THEN "Pending" ELSE rel[r].phase
        /\ rel' = [rel EXCEPT ![r] = p] /\ UNCHANGED <<verified, rb>>
    BY <1>r, <1>1 DEF HandleResync, world, TypeOK, Release
  <2>2. /\ rel[r].phase # "absent" => p.phase # "absent"
        /\ p.phase # "absent" => rel[r].phase # "absent"
        /\ p.phase # "Complete"
    BY <2>1 DEF Terminal
  <2> QED
    BY <2>1, <2>2, ReleaseWritten
<1>2. CASE ParkRelease(r) \/ InitiateRelease(r) \/ FinishCanary(r)
  <2>1. PICK ph \in {"Pending", "active", "applied"} :
          /\ rel' = [rel EXCEPT ![r].phase = ph] /\ UNCHANGED <<verified, rb>>
          /\ rel[r].phase \in {"new", "Pending", "canarying"}
    BY <1>2 DEF ParkRelease, InitiateRelease, FinishCanary, world
  <2> PICK p : p = [rel[r] EXCEPT !.phase = ph]
    OBVIOUS
  <2>2. p.phase = ph /\ rel' = [rel EXCEPT ![r] = p]
    BY <1>r, <2>1 DEF Release
  <2> QED
    BY <2>1, <2>2, ReleaseWritten
<1>3. CASE ApplyManifests(r)
  <2>1. PICK x \in {"canarying", "applied"} :
          rel' = [rel EXCEPT ![r] = [rel[r] EXCEPT !.phase = x, !.snapshot = "yes"]]
    BY <1>3 DEF ApplyManifests
  <2> PICK p : p = [rel[r] EXCEPT !.phase = x, !.snapshot = "yes"]
    OBVIOUS
  <2>2. /\ p.phase = x /\ rel[r].phase = "active"
        /\ rel' = [rel EXCEPT ![r] = p] /\ UNCHANGED <<verified, rb>>
    BY <1>r, <1>3, <2>1 DEF ApplyManifests, Release
  <2> QED
    BY <2>1, <2>2, ReleaseWritten
<1>4. CASE CompleteRelease(r)
  <2>1. /\ rel[r].phase = "applied" /\ verified' = verified \cup {r} /\ UNCHANGED rb
        /\ rel'[r].phase = "Complete" /\ \A q \in Rel : q # r => rel'[q] = rel[q]
    BY <1>r, <1>4 DEF CompleteRelease, TypeOK, Release
  <2> QED
    BY <2>1 DEF ReleasesKept
<1>b. /\ rel \in [Rel -> Release] /\ rb \in [Rel -> Rollback] /\ rb[r] \in Rollback
  BY DEF TypeOK
<1>5. CASE RollbackBegin(r)
  <2>1. PICK b : rb' = [rb EXCEPT ![r] = b]
    BY <1>5 DEF RollbackBegin
  <2>2. rel[r].phase # "absent" /\ UNCHANGED <<rel, verified>>
    BY <1>5 DEF RollbackBegin, ShouldRollback
  <2>3. RollbacksKept
    BY <1>b, <2>1, <2>2 DEF RollbacksKept
  <2> QED
    BY <2>2, <2>3, ReleasesSame
<1>6. CASE RollbackApply(r) \/ PatchApplicationReleaseRef(r)
  <2>1. PICK b : rb' = [rb EXCEPT ![r] = b]
    BY <1>6 DEF RollbackApply, PatchApplicationReleaseRef
  <2>2. rb[r].at # "none" /\ UNCHANGED <<rel, verified>>
    BY <1>6 DEF RollbackApply, PatchApplicationReleaseRef, ctlVars
  <2>3. RollbacksKept
    BY <1>b, <2>1, <2>2 DEF RollbacksKept
  <2> QED
    BY <2>2, <2>3, ReleasesSame
<1>7. CASE RollbackStamp(r)
  <2>1. PICK b : rb' = [rb EXCEPT ![r] = b]
    BY <1>7 DEF RollbackStamp
  <2>2. rb[r].at # "none" /\ UNCHANGED verified
    BY <1>7 DEF RollbackStamp
  <2>3. RollbacksKept
    BY <1>b, <2>1, <2>2 DEF RollbacksKept
  <2>4. CASE rel' = rel
    BY <2>2, <2>3, <2>4, ReleasesSame
  <2>5. CASE rel' = [rel EXCEPT ![r] = Stamp(rel[r])]
    <3>1. Stamp(rel[r]).phase = rel[r].phase
      BY <1>r, PhasesSame
    <3> QED
      BY <2>2, <2>3, <2>5, <3>1, ReleaseWritten
  <2> QED
    BY <1>7, <2>4, <2>5 DEF RollbackStamp
<1>8. CASE MarkRolledBack(r)
  <2>1. PICK b : rb' = [rb EXCEPT ![r] = b]
    BY <1>8 DEF MarkRolledBack
  <2>2. rb[r].at # "none" /\ UNCHANGED verified
    BY <1>8 DEF MarkRolledBack
  <2>3. RollbacksKept
    BY <1>b, <2>1, <2>2 DEF RollbacksKept
  <2> PICK p : p = [rel[r] EXCEPT !.phase = "RolledBack"]
    OBVIOUS
  <2>4. p.phase = "RolledBack" /\ rel' = [rel EXCEPT ![r] = p]
    BY <1>r, <1>8 DEF Release, MarkRolledBack
  <2>5. rel[r].phase # "absent"
    BY <2>2 DEF RingInv, CompletedInv, Exists
  <2> QED
    BY <2>2, <2>3, <2>4, <2>5, ReleaseWritten
<1> QED
  BY <1>1, <1>2, <1>3, <1>4, <1>5, <1>6, <1>7, <1>8 DEF ReleaseStep

(* The releases after a failure and after the operators' requests. *)
LEMMA OperatorReleases ==
  ASSUME TypeOK, RingInv,
         \E r \in Rel : FailRelease(r) \/ RollbackRelease(r) \/ ResyncRelease(r)
  PROVE  ReleasesKept
<1>3. ASSUME NEW r \in Rel, FailRelease(r) PROVE ReleasesKept
  <2> PICK p : p = [rel[r] EXCEPT !.phase = "Failed"]
    OBVIOUS
  <2>1. /\ p.phase = "Failed" /\ rel[r].phase # "absent"
        /\ rel' = [rel EXCEPT ![r] = p] /\ UNCHANGED <<verified, rb>>
    BY <1>3 DEF FailRelease, InProgress, TypeOK, Release
  <2> QED
    BY <2>1, ReleaseWritten
<1>4. ASSUME NEW r \in Rel, RollbackRelease(r) \/ ResyncRelease(r) PROVE ReleasesKept
  <2>1. PICK p : /\ rel' = [rel EXCEPT ![r] = p] /\ UNCHANGED <<verified, rb>>
                 /\ p \in {[rel[r] EXCEPT !.rollback = "human"], [rel[r] EXCEPT !.resync = "manual"]}
    BY <1>4 DEF RollbackRelease, ResyncRelease
  <2>2. p.phase = rel[r].phase
    BY <2>1 DEF TypeOK, Release
  <2> QED
    BY <2>1, <2>2, ReleaseWritten
<1> QED
  BY <1>3, <1>4

(* One step keeps the order of the rings, where no manual sync happens. *)
LEMMA RingStep ==
  ASSUME "manualSync" \notin Inputs, TypeOK, PromoteInv, RingInv, [Next]_vars
  PROVE  RingInv'
<1>n. ann.manual = "no"
  BY DEF RingInv, UnattendedInv
<1>k. SUFFICES ReleasesKept /\ StageKept
  BY ReleasesOrdered DEF RingInv, StageKept
<1>1. CASE UNCHANGED vars
  <2>1. UNCHANGED <<rel, verified, rb, ctl, ann, app>>
    BY <1>1 DEF vars
  <2> QED
    BY <1>n, <2>1, ReleasesSame, OthersLead
<1>2. CASE AppStep \/ \E seen \in {"drift", "degraded", "analysis"} : Observe(seen)
  BY <1>2, AppReleases, AppStages
<1>3. ASSUME NEW r \in Rel, ReleaseStep(r) PROVE ReleasesKept /\ StageKept
  <2>1. ReleasesKept
    BY <1>3, ReleaseReleases
  <2>2. UNCHANGED <<ctl, ann>> /\ (app' = app \/ app' = [app EXCEPT !.ref = rb[r].target])
    BY <1>3 DEF ReleaseStep, HandleResync, ParkRelease, InitiateRelease, ApplyManifests, FinishCanary,
       CompleteRelease, RollbackBegin, RollbackApply, RollbackStamp, MarkRolledBack,
       PatchApplicationReleaseRef, ctlVars
  <2>3. app'.phase = app.phase /\ app'.hash = app.hash /\ app'.stage = app.stage
    BY <2>2 DEF TypeOK, App
  <2> QED
    BY <1>n, <2>1, <2>2, <2>3, OthersLead DEF ReleasesKept
<1>4. CASE \E r \in Rel : FailRelease(r) \/ RollbackRelease(r) \/ ResyncRelease(r)
  <2>1. ReleasesKept
    BY <1>4, OperatorReleases
  <2>2. UNCHANGED <<ctl, ann, app>>
    BY <1>4 DEF FailRelease, RollbackRelease, ResyncRelease, ctlVars
  <2> QED
    BY <1>n, <2>1, <2>2, OthersLead DEF ReleasesKept
<1>5. CASE RingPromotedFails
  <2>1. ctl.pc = "advance" /\ Goto("cas") /\ UNCHANGED <<ann, rel, rb, verified>>
    BY <1>5 DEF RingPromotedFails
  <2>2. Leads(ctl.mem, "cas") /\ app.hash = ctl.mem.hash
    BY <2>1 DEF RingInv, StageInv, Leads, Points
  <2> QED
    BY <1>n, <2>1, <2>2, GotoLeads, ReleasesSame
<1>6. CASE AbortReconcile
  <2>1. ctl' = Idle /\ UNCHANGED <<app, ann, rel, rb, verified>>
    BY <1>6 DEF AbortReconcile
  <2>2. (Resting(app) \/ Reached(app))'
    BY <2>1 DEF RingInv, StageInv, Resting, Reached
  <2> QED
    BY <1>n, <2>1, <2>2, IdleLeads, ReleasesSame
<1>7. CASE (\E r \in Rel : AbortRollback(r)) \/ Commit \/ CloseWindow \/ OpenWindow
  <2>1. /\ UNCHANGED <<ctl, app, ann, rel, verified>>
        /\ rb' = rb \/ \E r \in Rel : rb[r].at # "none" /\ rb' = [rb EXCEPT ![r] = NoRollback]
    BY <1>7 DEF AbortRollback, Commit, CloseWindow, OpenWindow, ctlVars
  <2>2. rb' = rb \/ RollbacksKept
    BY <2>1 DEF RollbacksKept, TypeOK
  <2> QED
    BY <1>n, <2>1, <2>2, OthersLead, ReleasesSame
<1>8. ASSUME NEW manual \in {"no", "yes"}, Sync(manual) PROVE ReleasesKept /\ StageKept
  <2>1. manual = "no"
    BY <1>8 DEF Sync, Event
  <2>2. ann'.manual = "no" /\ UNCHANGED <<ctl, app, rel, rb, verified>>
    BY <1>n, <1>8, <2>1 DEF Sync
  <2> QED
    BY <2>2, OthersLead, ReleasesSame
<1> QED
  BY <1>1, <1>2, <1>3, <1>4, <1>5, <1>6, <1>7, <1>8 DEF Next, Environment

LEMMA RingStart == Init => RingInv
<1> SUFFICES ASSUME Init PROVE RingInv
  OBVIOUS
<1>1. UnattendedInv /\ CompletedInv /\ RingOrder
  BY DEF Init, UnattendedInv, CompletedInv, RingOrder, Exists, Absent, Idle, NoAnn, NoRollback
<1>2. StageInv
  BY DEF Init, StageInv, Reached, NewApp, Idle
<1> QED
  BY <1>1, <1>2 DEF RingInv

(* What reaches a ring was verified on the ring before it, for any number  *)
(* of rings and sources, any crashes, failures, rollbacks, windows and     *)
(* webhook syncs, as long as no operator syncs manually: a manual sync of  *)
(* a new source (startNewReleaseFlow) stays on the ring it is on.          *)
THEOREM RingsInOrder ==
  ASSUME "manualSync" \notin Inputs
  PROVE  Spec => []RingOrder
<1>1. BudgetInv /\ RingInv /\ [Next]_vars => RingInv'
  BY RingStep DEF BudgetInv
<1>2. RingInv => RingOrder
  BY DEF RingInv
<1> QED
  BY <1>1, <1>2, RingStart, BudgetAlways, PTL DEF Spec

-----------------------------------------------------------------------------
(* An undisturbed delivery.                                                *)

(* The source moves, webhooks fire, the window closes and writes fail, and *)
(* nothing else happens                                                    *)
Undisturbed == Inputs \subseteq {"commit", "sync", "window", "apiError"}

(* Heads never come back: f numbers the sources in the order of commits    *)
Advancing(f) == f \in [Sources -> Nat] /\ \A c \in Commits : f[c[1]] < f[c[2]]
NoReturn == \E f : Advancing(f)

Before(f, h, g) == g # NoHash /\ (h = NoHash \/ f[h] < f[g])

Unfinished(r) == rel[r].phase \in {"new", "Pending", "active", "canarying", "applied"}

(* Nobody asks a release for anything, no copy is written but the          *)
(* controller's own                                                        *)
QuietInv ==
    /\ \A r \in Rel : /\ rb[r].at = "none"
                      /\ rel[r].resync = "no" /\ rel[r].rollback = "no"
                      /\ rel[r].phase \notin {"Failed", "RolledBack"}
    /\ ann.manual = "no" /\ ctl.manual = "no"
    /\ app.phase \in {"Pending", "Promoting", "Healthy"}

(* A promotion that is not stored yet: from the completed ring to the next *)
Ahead(a) == [a EXCEPT !.stage = CurrentStage(a) + 1, !.ref = <<a.hash, CurrentStage(a) + 1>>,
                      !.phase = "Promoting"]
Promoted == /\ ctl.done = app.ref /\ app.phase = "Healthy" /\ app.ref = ReleaseName(app)
            /\ ctl.mem = Ahead(app)

(* What the copy of a reconcile and the stored status have to do with each *)
(* other at each of its points                                             *)
Reading == {"consume", "record", "healthy", "supersede", "observe", "observeOnly", "promote", "flow"}
CopyInv ==
    /\ ctl.pc \in Reading \cup {"idle", "created", "advance", "cas", "clear"}
    /\ ctl.pc \in Reading => ctl.mem = app
    /\ ctl.pc \in Reading \ {"consume", "flow"} => app.phase = "Healthy"
    /\ ctl.pc = "flow" => app.phase # "Healthy"
    /\ ctl.pc \in {"supersede", "clear"} => app.ref # NoRel /\ app.ref[1] # app.hash
    /\ ctl.pc \in {"observe", "promote"} => /\ app.ref = ReleaseName(app)
                                            /\ rel[app.ref].phase = "Complete"
    /\ ctl.pc = "clear" => /\ rel[app.ref].phase = "Superseded"
                           /\ app.phase = "Healthy"
                           /\ ctl.mem = [app EXCEPT !.ref = NoRel, !.stage = 0]
    /\ ctl.pc = "created" => /\ app.ref = NoRel /\ app.phase # "Healthy"
                             /\ ctl.mem = [app EXCEPT !.ref = ReleaseName(app), !.phase = "Promoting"]
    /\ ctl.pc = "advance" => Promoted
    /\ ctl.pc = "cas" => ctl.mem = app \/ Promoted

(* The status the flow has reached: a release that exists but is not       *)
(* stored yet is in the copy                                               *)
Reaching == ctl.pc \in {"created", "advance", "cas"}
Cur == IF Reaching THEN ctl.mem ELSE app

(* A status refers to the release of its source and ring, unless it rests  *)
(* and its source has moved; that release is what its ring runs            *)
Refers(a) ==
    /\ a.ref # NoRel => Exists(a.ref) /\ (rel[a.ref].phase = "Superseded" => ctl.pc = "clear")
    /\ a.ref # NoRel /\ (a.phase # "Healthy" \/ a.ref[1] = a.hash) => a.ref = ReleaseName(a)
    /\ a.phase = "Healthy" => a.ref # NoRel
Applied == {"canarying", "applied", "Complete"}
Deployed(a) == a.ref # NoRel /\ rel[a.ref].phase \in Applied => live[a.ref[2]] = a.ref

(* No release is unfinished but the current one, and none of the current   *)
(* source exists beyond it                                                 *)
Covered(f, a) ==
    \A r \in Rel : Exists(r) =>
        \/ Before(f, r[1], a.hash)
        \/ a.ref # NoRel /\ r[1] = a.hash /\ a.ref[1] = a.hash /\ r[2] <= a.ref[2]
FlowInv(f) ==
    /\ Refers(app) /\ Refers(Cur) /\ Deployed(app) /\ Deployed(Cur)
    /\ \A r \in Rel : Unfinished(r) => r = Cur.ref
    /\ Covered(f, Cur)

(* What is recorded is not ahead of what was resolved, nor that of the head *)
Upto(f, h, g) == h = g \/ Before(f, h, g)
SourceInv(f) ==
    /\ Upto(f, app.hash, head)
    /\ ctl.pc \in {"consume", "record"} => Upto(f, ctl.seen, head) /\ Upto(f, app.hash, ctl.seen)

DeliveryInv(f) == QuietInv /\ CopyInv /\ FlowInv(f) /\ SourceInv(f)

(* The order of sources *)
LEMMA BeforeOrder ==
  ASSUME NEW f, Advancing(f)
  PROVE  /\ \A h, g, k \in Hashes : Before(f, h, g) /\ Before(f, g, k) => Before(f, h, k)
         /\ \A h, g \in Hashes : Before(f, h, g) => h # g
         /\ \A h \in Hashes : ~Before(f, h, NoHash)
         /\ \A h \in Sources : Before(f, NoHash, h)
<1>1. \A h \in Sources : f[h] \in Nat
  BY DEF Advancing
<1> QED
  BY <1>1, SourceAssumption DEF Before, Hashes

(* The copy of a reconcile after a status write that keeps the reference   *)
LEMMA Written ==
  ASSUME TypeOK, NEW a \in App, NEW pc \in Points, Patch(a, pc), a.ref = app.ref \/ a.ref # NoRel
  PROVE  /\ app' = a /\ ctl'.pc = pc
         /\ pc # "idle" => ctl'.mem = a /\ ctl'.manual = ctl.manual
         /\ pc = "idle" => ctl'.manual = "no"
<1>1. Preserving(a) = a
  BY DEF Preserving, App
<1>2. app' = a /\ ctl' = At(Holding(a), pc)
  BY <1>1 DEF Patch
<1> QED
  BY <1>2, Moved

(* What a reconcile that goes on without a write holds *)
LEMMA GoesOn ==
  ASSUME TypeOK, NEW pc \in Points, Goto(pc)
  PROVE  /\ app' = app /\ ctl'.pc = pc
         /\ pc # "idle" => ctl'.mem = ctl.mem /\ ctl'.manual = ctl.manual
         /\ pc = "idle" => ctl'.manual = "no"
BY DEF TypeOK, Goto, At, Idle, Ctl

(* What a status holds *)
LEMMA StatusFields ==
  ASSUME NEW a \in App
  PROVE  /\ a.hash \in Hashes /\ a.stage \in 0..N /\ a.ref \in Refs
         /\ a.phase \in {"Pending", "Promoting", "Healthy", "Degraded", "RolledBack"}
         /\ a.ref # NoRel => a.ref \in Rel /\ a.ref[1] \in Hashes /\ a.ref[2] \in Rings
BY DEF App, Refs, Rel

(* The releases stay as they are, and so does the one the flow has reached *)
LEMMA FlowCarried ==
  ASSUME NEW f, FlowInv(f), UNCHANGED <<rel, live>>, Cur'.ref = Cur.ref,
         app'.ref = app.ref \/ app'.ref = Cur.ref, Refers(app)', Refers(Cur)', Covered(f, Cur)'
  PROVE  FlowInv(f)'
<1>1. Deployed(app)' /\ Deployed(Cur)'
  BY DEF FlowInv, Deployed
<1>2. \A r \in Rel : Unfinished(r)' => r = Cur'.ref
  BY DEF FlowInv, Unfinished
<1> QED
  BY <1>1, <1>2 DEF FlowInv

(* ... with the source it had, or a later one *)
LEMMA CoveredSame ==
  ASSUME NEW f, Covered(f, Cur), UNCHANGED rel, Cur'.ref = Cur.ref, Cur'.hash = Cur.hash
  PROVE  Covered(f, Cur)'
BY DEF Covered, Exists

LEMMA CoveredLater ==
  ASSUME NEW f, Advancing(f), NEW g \in Hashes, Cur.hash \in Hashes, Covered(f, Cur),
         Before(f, Cur.hash, g), UNCHANGED rel, Cur'.hash = g
  PROVE  Covered(f, Cur)'
<1>1. \A r \in Rel : r[1] \in Hashes
  BY DEF Rel
<1>2. \A r \in Rel : Exists(r) => Before(f, r[1], g)
  BY <1>1, BeforeOrder DEF Covered
<1> QED
  BY <1>2 DEF Covered, Exists

(* A status that only rests or moves on: same reference, same source and   *)
(* ring, another phase                                                     *)
LEMMA SamePlace ==
  ASSUME TypeOK, NEW f, DeliveryInv(f), ~Reaching, ~Reaching', UNCHANGED <<rel, live>>,
         app'.ref = app.ref, app'.hash = app.hash, app'.stage = app.stage,
         app'.phase # "Healthy" => app.phase # "Healthy", app'.phase = "Healthy" => app.ref # NoRel,
         ctl'.pc # "clear", ctl.pc # "clear"
  PROVE  FlowInv(f)'
<1>1. Cur = app /\ Cur' = app' /\ FlowInv(f)
  BY DEF Cur, DeliveryInv
<1>2. Covered(f, Cur)'
  BY <1>1, CoveredSame DEF FlowInv
<1>3. Refers(app)'
  BY <1>1 DEF FlowInv, Refers, Exists, ReleaseName, CurrentStage
<1>4. Refers(Cur)'
  BY <1>1, <1>3 DEF Refers, Exists, ReleaseName, CurrentStage
<1> QED
  BY <1>1, <1>2, <1>3, <1>4, FlowCarried

(* The source of a resting status moves on *)
LEMMA SourceMoves ==
  ASSUME TypeOK, NEW f, Advancing(f), DeliveryInv(f), ~Reaching, ~Reaching', UNCHANGED <<rel, live>>,
         NEW g \in Sources, Before(f, app.hash, g),
         app'.ref = app.ref, app'.hash = g, app'.phase = "Healthy", app.phase = "Healthy",
         ctl'.pc # "clear", ctl.pc # "clear"
  PROVE  FlowInv(f)' /\ app.ref # NoRel /\ app.ref[1] # g /\ Upto(f, app.ref[1], app.hash)
<1>1. Cur = app /\ Cur' = app' /\ FlowInv(f) /\ app \in App /\ g \in Hashes
  BY DEF Cur, DeliveryInv, TypeOK, Hashes
<1>2. app.ref # NoRel /\ Exists(app.ref) /\ app.ref \in Rel /\ app.ref[1] \in Hashes /\ app.hash \in Hashes
  BY <1>1, StatusFields DEF FlowInv, Refers
<1>3. Upto(f, app.ref[1], app.hash)
  BY <1>1, <1>2 DEF FlowInv, Covered, Upto
<1>4. app.ref[1] # g
  BY <1>1, <1>2, <1>3, BeforeOrder DEF Upto
<1>5. Covered(f, Cur)'
  BY <1>1, <1>2, CoveredLater DEF FlowInv
<1>6. Refers(app)'
  BY <1>1, <1>2, <1>4 DEF FlowInv, Refers, Exists
<1>7. Refers(Cur)'
  BY <1>1, <1>6 DEF Refers, Exists, ReleaseName, CurrentStage
<1>8. FlowInv(f)'
  BY <1>1, <1>5, <1>6, <1>7, FlowCarried
<1> QED
  BY <1>2, <1>3, <1>4, <1>8

(* Nothing is asked of a release *)
LEMMA QuietKept ==
  ASSUME QuietInv, UNCHANGED <<rel, rb>>, ann'.manual = "no", ctl'.manual = "no",
         app'.phase \in {"Pending", "Promoting", "Healthy"}
  PROVE  QuietInv'
BY DEF QuietInv

(* What holds of the status a reconcile starts from *)
LEMMA Begun ==
  ASSUME TypeOK, NEW f, DeliveryInv(f)
  PROVE  /\ app \in App /\ ctl.mem \in App /\ ctl.manual = "no" /\ ann.manual = "no"
         /\ app.phase \in {"Pending", "Promoting", "Healthy"}
         /\ app.phase = "Healthy" => app.ref # NoRel
         /\ app.ref # NoRel => /\ app.ref \in Rel /\ Exists(app.ref)
                               /\ rel[app.ref].phase \in {"new", "Pending", "active", "canarying",
                                                          "applied", "Complete", "Superseded"}
                               /\ rel[app.ref].phase = "Superseded" => ctl.pc = "clear"
                               /\ HasRelease(app) /\ PhaseOf(app) = rel[app.ref].phase
         /\ app.ref = NoRel => PhaseOf(app) = "new"
         /\ app.ref # NoRel /\ app.phase # "Healthy" => app.ref = ReleaseName(app)
         /\ QuietInv /\ CopyInv /\ FlowInv(f) /\ SourceInv(f)
<1>1. app \in App /\ ctl.mem \in App /\ QuietInv /\ CopyInv /\ FlowInv(f) /\ SourceInv(f)
  BY MemTyped DEF TypeOK, DeliveryInv
<1>2. Refers(app)
  BY <1>1 DEF FlowInv
<1>3. ASSUME app.ref # NoRel
      PROVE  /\ app.ref \in Rel /\ Exists(app.ref)
             /\ rel[app.ref].phase \in {"new", "Pending", "active", "canarying", "applied",
                                        "Complete", "Superseded"}
             /\ HasRelease(app) /\ PhaseOf(app) = rel[app.ref].phase
  <2>1. app.ref \in Rel /\ Exists(app.ref)
    BY <1>1, <1>2, <1>3, StatusFields DEF Refers
  <2>2. rel[app.ref] \in Release
    BY <2>1 DEF TypeOK
  <2>3. rel[app.ref].phase \in Phases \ {"absent", "Failed", "RolledBack"}
    BY <1>1, <2>1, <2>2 DEF Release, QuietInv, Exists
  <2> QED
    BY <1>3, <2>1, <2>3 DEF Phases, HasRelease, PhaseOf
<1> QED
  BY <1>1, <1>2, <1>3 DEF QuietInv, Refers, HasRelease, PhaseOf

(* A reconcile reads the status and the head *)
LEMMA ReconcileDelivers ==
  ASSUME TypeOK, NEW f, DeliveryInv(f), Reconcile
  PROVE  DeliveryInv(f)'
<1>1. ctl.pc = "idle" /\ UNCHANGED <<app, ann, rel, live, rb, head>>
  BY DEF Reconcile, world
<1>2. /\ ctl'.pc = IF ann.sync # 0 THEN "consume"
                   ELSE IF app.phase \in {"Healthy", "RolledBack"} THEN "healthy" ELSE "flow"
      /\ ctl'.mem = app /\ ctl'.manual = ann.manual /\ ctl'.seen = head
  BY DEF Reconcile, Idle
<1>3. QuietInv'
  BY <1>1, <1>2, Begun, QuietKept
<1>4. CopyInv'
  BY <1>1, <1>2, Begun DEF CopyInv, Reading
<1>5. FlowInv(f)'
  BY <1>1, <1>2, Begun, SamePlace DEF Reaching
<1>6. SourceInv(f)'
  BY <1>1, <1>2, Begun DEF SourceInv, Upto, Before
<1> QED
  BY <1>3, <1>4, <1>5, <1>6 DEF DeliveryInv

(* The trigger is consumed *)
LEMMA ConsumeDelivers ==
  ASSUME TypeOK, NEW f, DeliveryInv(f), ConsumeSyncTrigger
  PROVE  DeliveryInv(f)'
<1>1. ctl.pc = "consume" /\ ctl.mem = app /\ UNCHANGED <<app, rel, live, rb, head>>
  BY Begun DEF ConsumeSyncTrigger, world, CopyInv, Reading
<1>2. ann'.manual = "no"
  BY Begun DEF ConsumeSyncTrigger, TypeOK, Ann
<1>3. PICK pc \in {"record", "idle"} : /\ ctl' = At(Holding(app), pc)
                                       /\ pc = "record" => app.phase = "Healthy"
  BY <1>1, Begun DEF ConsumeSyncTrigger
<1>4. /\ ctl'.pc = pc
      /\ pc # "idle" => ctl'.mem = app /\ ctl'.manual = ctl.manual
      /\ pc = "idle" => ctl'.manual = "no"
  BY <1>3, Begun, Moved DEF Points
<1>5. pc = "record" => ctl'.seen = ctl.seen
  BY <1>3 DEF At, Holding, TypeOK, Ctl
<1>6. QuietInv'
  BY <1>1, <1>2, <1>4, Begun, QuietKept
<1>7. CopyInv'
  BY <1>1, <1>3, <1>4 DEF CopyInv, Reading
<1>8. FlowInv(f)'
  BY <1>1, <1>4, Begun, SamePlace DEF Reaching
<1>9. SourceInv(f)'
  BY <1>1, <1>4, <1>5, Begun DEF SourceInv, Upto, Before
<1> QED
  BY <1>6, <1>7, <1>8, <1>9 DEF DeliveryInv

(* A webhook's source is recorded: a new one supersedes *)
LEMMA RecordDelivers ==
  ASSUME TypeOK, NEW f, Advancing(f), DeliveryInv(f), RecordSyncedSource
  PROVE  DeliveryInv(f)'
<1>1. /\ ctl.pc = "record" /\ ctl.mem = app /\ app.phase = "Healthy"
      /\ UNCHANGED <<ann, rel, live, rb, head>>
  BY Begun DEF RecordSyncedSource, world, CopyInv, Reading
<1>2. Upto(f, ctl.seen, head) /\ Upto(f, app.hash, ctl.seen) /\ ctl.seen \in Hashes /\ head \in Sources
  BY <1>1, Begun, MemTyped DEF SourceInv, TypeOK
<1>3. PICK pc \in {"supersede", "idle"} :
          /\ pc = "supersede" => app.hash \notin {NoHash, ctl.seen}
          /\ \/ app.hash = ctl.seen /\ Goto(pc)
             \/ Patch([app EXCEPT !.hash = ctl.seen], pc)
  <2>1. app = [app EXCEPT !.hash = ctl.seen] => app.hash = ctl.seen
    BY Begun DEF App
  <2> QED
    BY <1>1, <2>1, Begun DEF RecordSyncedSource
<1> PICK a : a = [app EXCEPT !.hash = ctl.seen]
  OBVIOUS
<1>4. a \in App /\ a.hash = ctl.seen /\ a.ref = app.ref /\ a.stage = app.stage /\ a.phase = app.phase
  BY <1>2, Begun DEF App
<1>5. app.hash = ctl.seen => a = app
  BY Begun DEF App
<1>6. /\ app' = a /\ ctl'.pc = pc
      /\ pc # "idle" => ctl'.mem = a /\ ctl'.manual = ctl.manual
      /\ pc = "idle" => ctl'.manual = "no"
  <2>1. CASE Patch(a, pc)
    BY <1>4, <2>1, Written DEF Points
  <2>2. CASE app.hash = ctl.seen /\ Goto(pc)
    BY <1>1, <1>5, <2>2, GoesOn DEF Points
  <2> QED
    BY <1>3, <2>1, <2>2
<1>7. QuietInv'
  BY <1>1, <1>4, <1>6, Begun, QuietKept
<1>8. FlowInv(f)' /\ (pc = "supersede" => app'.ref # NoRel /\ app'.ref[1] # app'.hash)
  <2>1. CASE app.hash = ctl.seen
    BY <1>1, <1>3, <1>4, <1>6, <2>1, Begun, SamePlace DEF Reaching
  <2>2. CASE app.hash # ctl.seen
    <3>1. Before(f, app.hash, ctl.seen) /\ ctl.seen \in Sources
      BY <1>2, <2>2 DEF Upto, Before, Hashes
    <3> QED
      BY <1>1, <1>4, <1>6, <3>1, Begun, SourceMoves DEF Reaching
  <2> QED
    BY <2>1, <2>2
<1>9. CopyInv'
  BY <1>1, <1>4, <1>6, <1>8 DEF CopyInv, Reading
<1>10. SourceInv(f)'
  BY <1>1, <1>2, <1>4, <1>6 DEF SourceInv, Upto, Before
<1> QED
  BY <1>7, <1>8, <1>9, <1>10 DEF DeliveryInv

(* The resting status polls the source *)
LEMMA PollDelivers ==
  ASSUME TypeOK, NEW f, Advancing(f), DeliveryInv(f), PollSource
  PROVE  DeliveryInv(f)'
<1>1. /\ ctl.pc = "healthy" /\ ctl.mem = app /\ app.phase = "Healthy"
      /\ UNCHANGED <<ann, rel, live, rb, head>>
  BY Begun DEF PollSource, world, CopyInv, Reading
<1>2. Upto(f, app.hash, head) /\ head \in Sources /\ head \in Hashes
  BY Begun, MemTyped DEF SourceInv, TypeOK
<1> PICK a : a = [app EXCEPT !.hash = head]
  OBVIOUS
<1>3. a \in App /\ a.hash = head /\ a.ref = app.ref /\ a.stage = app.stage /\ a.phase = app.phase
  BY <1>2, Begun DEF App
<1>4. Polled(ctl.mem) = a
  <2>1. Polled(app) = [app EXCEPT !.hash = head, !.phase = "Healthy"]
    BY <1>1 DEF Polled
  <2> QED
    BY <1>1, <2>1, Begun DEF App
<1>5. PhaseOf(a) = PhaseOf(app) /\ (IdentityChanged(a) <=> app.ref # ReleaseName(a))
  BY <1>1, <1>3, Begun DEF PhaseOf, HasRelease, IdentityChanged
<1>6. PICK pc \in {"supersede", "idle", "observe", "observeOnly"} :
          /\ Patch(a, pc)
          /\ pc = "supersede" <=> app.hash \notin {NoHash, head} \/ app.ref # ReleaseName(a)
          /\ pc = "observe" => PhaseOf(app) = "Complete"
  BY <1>1, <1>4, <1>5 DEF PollSource
<1>7. /\ app' = a /\ ctl'.pc = pc
      /\ pc # "idle" => ctl'.mem = a /\ ctl'.manual = ctl.manual
      /\ pc = "idle" => ctl'.manual = "no"
  BY <1>3, <1>6, Written DEF Points
<1>8. QuietInv'
  BY <1>1, <1>3, <1>7, Begun, QuietKept
<1>9. FlowInv(f)' /\ (pc = "supersede" => app'.ref # NoRel /\ app'.ref[1] # app'.hash)
  <2>1. CASE app.hash = head
    <3>1. FlowInv(f)'
      BY <1>1, <1>3, <1>7, <2>1, Begun, SamePlace DEF Reaching
    <3>2. ASSUME pc = "supersede" PROVE app.ref[1] # head
      <4>1. app.ref # ReleaseName(app)
        BY <1>3, <1>6, <2>1, <3>2 DEF ReleaseName, CurrentStage
      <4> QED
        BY <1>1, <2>1, <4>1, Begun DEF FlowInv, Refers
    <3> QED
      BY <1>1, <1>3, <1>7, <3>1, <3>2, Begun
  <2>2. CASE app.hash # head
    <3>1. Before(f, app.hash, head)
      BY <1>2, <2>2 DEF Upto
    <3> QED
      BY <1>1, <1>2, <1>3, <1>7, <3>1, Begun, SourceMoves DEF Reaching
  <2> QED
    BY <2>1, <2>2
<1>10. pc = "observe" => app'.ref = ReleaseName(app') /\ rel'[app'.ref].phase = "Complete"
  BY <1>1, <1>3, <1>6, <1>7, Begun
<1>11. CopyInv'
  BY <1>1, <1>3, <1>7, <1>9, <1>10 DEF CopyInv, Reading
<1>12. SourceInv(f)'
  BY <1>1, <1>3, <1>7 DEF SourceInv, Upto, Before
<1> QED
  BY <1>8, <1>9, <1>11, <1>12 DEF DeliveryInv

(* A resting release is never superseded while the status refers to it *)
LEMMA NothingReplaced ==
  ASSUME TypeOK, NEW f, DeliveryInv(f)
  PROVE  ~ReplaceRelease
<1> SUFFICES ASSUME ReplaceRelease PROVE FALSE
  OBVIOUS
<1>1. ctl.pc = "healthy" /\ ctl.mem = app
  BY Begun DEF ReplaceRelease, CopyInv, Reading
<1> QED
  BY <1>1, Begun DEF ReplaceRelease, Replaceable, HasRelease

(* A step that writes the status as it is, and goes on to rest or promote *)
LEMMA ObserveDelivers ==
  ASSUME TypeOK, NEW f, DeliveryInv(f), Observe("ok")
  PROVE  DeliveryInv(f)'
<1>1. /\ ctl.pc \in {"observe", "observeOnly"} /\ ctl.mem = app /\ app.phase = "Healthy"
      /\ UNCHANGED <<ann, live, rb, head>>
  BY Begun DEF Observe, CopyInv, Reading
<1>2. rel' = rel
  <2>1. \A p : Requested(p, "ok") = p
    BY DEF Requested
  <2>2. app.ref # NoRel /\ app.ref \in Rel
    BY <1>1, Begun
  <2>3. rel' = [rel EXCEPT ![app.ref] = Requested(rel[app.ref], "ok")] \/ rel' = rel
    BY <1>1 DEF Observe
  <2> QED
    BY <2>1, <2>2, <2>3 DEF TypeOK
<1>3. PICK pc \in {"promote", "idle"} : Patch(app, pc) /\ (pc = "promote" => ctl.pc = "observe")
  BY <1>1 DEF Observe
<1>4. /\ app' = app /\ ctl'.pc = pc
      /\ pc # "idle" => ctl'.mem = app /\ ctl'.manual = ctl.manual
      /\ pc = "idle" => ctl'.manual = "no"
  BY <1>3, Begun, Written DEF Points
<1>5. QuietInv'
  BY <1>1, <1>2, <1>4, Begun, QuietKept
<1>6. CopyInv'
  BY <1>1, <1>2, <1>3, <1>4, Begun DEF CopyInv, Reading, ReleaseName, CurrentStage
<1>7. FlowInv(f)'
  BY <1>1, <1>2, <1>4, Begun, SamePlace DEF Reaching
<1>8. SourceInv(f)'
  BY <1>1, <1>4, Begun DEF SourceInv, Upto, Before
<1> QED
  BY <1>5, <1>6, <1>7, <1>8 DEF DeliveryInv

(* A new release is the only unfinished one *)
LEMMA NewRelease ==
  ASSUME TypeOK, NEW f, DeliveryInv(f), ~Reaching, NEW r \in Rel, ~Exists(r), Create(r),
         UNCHANGED <<app, live>>, Reaching', ctl'.mem.ref = r, ctl'.mem.hash = app.hash,
         ctl'.mem.phase = "Promoting", r = ReleaseName(ctl'.mem), r[1] = app.hash,
         app.ref # NoRel => /\ app.ref = ReleaseName(app) /\ rel[app.ref].phase = "Complete"
                            /\ r[2] > app.ref[2] /\ ctl.pc # "clear"
  PROVE  FlowInv(f)' /\ (\A q \in Rel : q # r => rel'[q] = rel[q]) /\ rel'[r].phase = "new"
         /\ rel'[r].resync = "no" /\ rel'[r].rollback = "no"
<1>1. rel' = [rel EXCEPT ![r] = Created] /\ rel \in [Rel -> Release]
  BY DEF Create, TypeOK
<1>2. Created.phase = "new" /\ Created.resync = "no" /\ Created.rollback = "no"
  BY DEF Created, Absent
<1>3. /\ \A q \in Rel : q # r => rel'[q] = rel[q]
      /\ rel'[r].phase = "new" /\ rel'[r].resync = "no" /\ rel'[r].rollback = "no"
  BY <1>1, <1>2
<1>4. Cur = app /\ Cur' = ctl'.mem /\ FlowInv(f) /\ app \in App
  BY DEF Cur, DeliveryInv, TypeOK
<1>5. app.ref # NoRel => app.ref \in Rel /\ app.ref # r
  BY <1>4, StatusFields DEF Exists
<1>6. Refers(app)'
  BY <1>3, <1>4, <1>5 DEF FlowInv, Refers, Exists, ReleaseName, CurrentStage
<1>7. Refers(Cur)'
  BY <1>3, <1>4 DEF Refers, Exists, ReleaseName, CurrentStage
<1>8. Deployed(app)'
  BY <1>3, <1>4, <1>5 DEF FlowInv, Deployed
<1>9. Deployed(Cur)'
  BY <1>3, <1>4 DEF Deployed, Applied
<1>10. \A q \in Rel : Unfinished(q)' => q = Cur'.ref
  <2>1. ASSUME NEW q \in Rel, q # r, Unfinished(q) PROVE FALSE
    <3>1. q = app.ref /\ q # NoRel
      BY <1>4, <2>1, SourceAssumption DEF FlowInv
    <3> QED
      BY <2>1, <3>1 DEF Unfinished
  <2> QED
    BY <1>3, <1>4, <2>1 DEF Unfinished
<1>11. Covered(f, Cur)'
  <2>1. r # NoRel
    BY SourceAssumption
  <2>2. ASSUME NEW q \in Rel, q # r, Exists(q)
        PROVE  Before(f, q[1], app.hash) \/ (q[1] = app.hash /\ q[2] <= r[2])
    <3>1. CASE Before(f, q[1], app.hash)
      BY <3>1
    <3>2. CASE app.ref # NoRel /\ q[1] = app.hash /\ q[2] <= app.ref[2]
      <4>1. q[2] \in Nat /\ r[2] \in Nat /\ app.ref[2] \in Nat
        BY <1>5, <3>2, RingAssumption DEF Rel, Rings
      <4> QED
        BY <3>2, <4>1
    <3> QED
      BY <1>4, <2>2, <3>1, <3>2 DEF FlowInv, Covered
  <2>3. r[2] <= r[2]
    BY RingAssumption DEF Rel, Rings
  <2> QED
    BY <1>3, <1>4, <2>1, <2>2, <2>3 DEF Covered, Exists, Before
<1> QED
  BY <1>3, <1>6, <1>7, <1>8, <1>9, <1>10, <1>11 DEF FlowInv

(* Its creation disturbs nothing *)
LEMMA NewQuiet ==
  ASSUME QuietInv, NEW r \in Rel, \A q \in Rel : q # r => rel'[q] = rel[q],
         rel'[r].phase = "new", rel'[r].resync = "no", rel'[r].rollback = "no",
         UNCHANGED <<rb, ann, app>>, ctl'.manual = "no"
  PROVE  QuietInv'
<1>1. \A q \in Rel : /\ rel'[q].resync = "no" /\ rel'[q].rollback = "no"
                     /\ rel'[q].phase \notin {"Failed", "RolledBack"}
  BY DEF QuietInv
<1> QED
  BY <1>1 DEF QuietInv

(* The next ring's release does not exist yet *)
LEMMA PromoteDelivers ==
  ASSUME TypeOK, PromoteInv, NEW f, Advancing(f), DeliveryInv(f), PromoteToNextRing
  PROVE  DeliveryInv(f)'
<1>1. /\ ctl.pc = "promote" /\ ctl.mem = app /\ app.phase = "Healthy"
      /\ app.ref = ReleaseName(app) /\ rel[app.ref].phase = "Complete"
      /\ UNCHANGED <<app, ann, live, rb, head>>
  BY Begun DEF PromoteToNextRing, world, CopyInv, Reading
<1> PICK k : k = CurrentStage(app)
  OBVIOUS
<1>2. k \in Rings /\ k < N /\ k \in Nat /\ k + 1 \in Rings /\ k + 1 \in 0..N
  <2>1. k \in Rings /\ k < N
    BY <1>1, Begun, NameTyped DEF PromoteInv
  <2> QED
    BY <2>1, RingAssumption DEF Rings
<1> PICK r : r = <<app.hash, k + 1>>
  OBVIOUS
<1>3. r \in Rel /\ r[1] = app.hash /\ r[2] = k + 1 /\ app.ref[2] = k /\ app.ref[1] = app.hash
  BY <1>1, <1>2, Begun, StatusFields DEF Rel, ReleaseName
<1>4. ~Exists(r)
  <2> SUFFICES ASSUME Exists(r) PROVE FALSE
    OBVIOUS
  <2>1. Cur = app /\ Covered(f, app) /\ app.hash \in Hashes
    BY <1>1, Begun, StatusFields DEF Cur, Reaching, FlowInv
  <2>2. Before(f, app.hash, app.hash) \/ k + 1 <= k
    BY <1>3, <2>1 DEF Covered
  <2> QED
    BY <1>2, <2>1, <2>2, BeforeOrder
<1> PICK m : m = Ahead(app)
  OBVIOUS
<1>5. m \in App /\ m.stage = k + 1 /\ m.ref = r /\ m.hash = app.hash /\ m.phase = "Promoting"
  <2>1. m = [app EXCEPT !.stage = k + 1, !.ref = r, !.phase = "Promoting"]
    BY DEF Ahead
  <2>2. r \in Refs /\ app \in App
    BY <1>3, Begun DEF Refs
  <2>3. m \in App
    <3> PICK n \in 0..N : n = k + 1
      BY <1>2
    <3>1. [app EXCEPT !.stage = n, !.ref = r, !.phase = "Promoting"] \in App
      BY <2>2, RingTyped
    <3> QED
      BY <2>1, <3>1
  <2>4. m.stage = k + 1 /\ m.ref = r /\ m.hash = app.hash /\ m.phase = "Promoting"
    BY <2>1, <2>2 DEF App
  <2> QED
    BY <2>3, <2>4
<1>6. r = ReleaseName(m)
  BY <1>2, <1>5 DEF ReleaseName, CurrentStage
<1>7. Create(r) /\ ctl'.pc = "advance" /\ ctl'.mem = m /\ ctl'.done = app.ref /\ ctl'.manual = "no"
  <2>1. Create(r) /\ ctl' = [Holding(m) EXCEPT !.pc = "advance", !.done = app.ref]
    BY <1>1 DEF PromoteToNextRing, Ahead
  <2>2. Holding(m) \in Ctl /\ Holding(m).mem = m /\ Holding(m).manual = ctl.manual
    BY <1>5, HoldingTyped DEF Holding, TypeOK, Ctl
  <2> QED
    BY <2>1, <2>2, Begun DEF Ctl
<1>8. /\ FlowInv(f)' /\ \A q \in Rel : q # r => rel'[q] = rel[q]
      /\ rel'[r].phase = "new" /\ rel'[r].resync = "no" /\ rel'[r].rollback = "no"
  <2>1. ~Reaching /\ Reaching' /\ r[2] > app.ref[2]
    BY <1>1, <1>2, <1>3, <1>7 DEF Reaching
  <2> QED
    BY <1>1, <1>3, <1>4, <1>5, <1>6, <1>7, <2>1, NewRelease
<1>9. QuietInv'
  BY <1>1, <1>3, <1>7, <1>8, Begun, NewQuiet
<1>10. CopyInv'
  <2>1. Promoted'
    BY <1>1, <1>7 DEF Promoted, Ahead, ReleaseName, CurrentStage
  <2> QED
    BY <1>1, <1>7, <2>1 DEF CopyInv, Reading
<1>11. SourceInv(f)'
  BY <1>1, <1>7, Begun DEF SourceInv, Upto, Before
<1> QED
  BY <1>8, <1>9, <1>10, <1>11 DEF DeliveryInv

(* What a promotion under way leads to *)
LEMMA AheadFields ==
  ASSUME TypeOK, Promoted
  PROVE  /\ ctl.mem \in App /\ ctl.mem.hash = app.hash /\ ctl.mem.phase = "Promoting"
         /\ ctl.mem.ref # NoRel /\ ctl.mem.ref = ReleaseName(ctl.mem)
         /\ ctl.mem.stage = CurrentStage(app) + 1
         /\ ctl.mem.ref = <<app.hash, CurrentStage(app) + 1>>
<1>1. app \in App /\ ctl.mem \in App /\ ctl.mem = Ahead(app)
  BY MemTyped DEF TypeOK, Promoted
<1>2. /\ ctl.mem.hash = app.hash /\ ctl.mem.phase = "Promoting"
      /\ ctl.mem.stage = CurrentStage(app) + 1 /\ ctl.mem.ref = <<app.hash, CurrentStage(app) + 1>>
  BY <1>1 DEF Ahead, App
<1>3. CurrentStage(app) \in Nat /\ CurrentStage(app) + 1 # 0
  BY <1>1, NameTyped, RingAssumption DEF Rings
<1>4. ctl.mem.ref = ReleaseName(ctl.mem)
  BY <1>2, <1>3 DEF ReleaseName, CurrentStage
<1>5. ctl.mem.ref \in Rel
  BY <1>1, <1>4, NameTyped
<1> QED
  BY <1>1, <1>2, <1>4, <1>5, SourceAssumption

(* Each way to store, or give up storing, a promotion *)
LEMMA RingPromotedDelivers ==
  ASSUME TypeOK, NEW f, DeliveryInv(f), RingPromoted
  PROVE  DeliveryInv(f)'
<1>1. ctl.pc = "advance" /\ Promoted /\ UNCHANGED <<ann, rel, live, rb, head>> /\ Patch(ctl.mem, "cas")
  BY Begun DEF RingPromoted, world, CopyInv
<1>2. /\ ctl.mem \in App /\ ctl.mem.hash = app.hash /\ ctl.mem.phase = "Promoting"
      /\ ctl.mem.ref # NoRel
  BY <1>1, AheadFields
<1>3. app' = ctl.mem /\ ctl'.pc = "cas" /\ ctl'.mem = ctl.mem /\ ctl'.manual = "no"
  BY <1>1, <1>2, Begun, Written DEF Points
<1>4. QuietInv'
  BY <1>1, <1>2, <1>3, Begun, QuietKept
<1>5. CopyInv'
  BY <1>3 DEF CopyInv, Reading
<1>6. FlowInv(f)'
  <2>1. Cur = ctl.mem /\ Cur' = ctl.mem /\ FlowInv(f)
    BY <1>1, <1>3, Begun DEF Cur, Reaching
  <2>2. Covered(f, Cur)'
    BY <1>1, <2>1, CoveredSame DEF FlowInv
  <2>3. Refers(Cur)' /\ Refers(app)'
    BY <1>1, <1>3, <2>1 DEF FlowInv, Refers, Exists, ReleaseName, CurrentStage
  <2> QED
    BY <1>1, <1>3, <2>1, <2>2, <2>3, FlowCarried
<1>7. SourceInv(f)'
  BY <1>1, <1>2, <1>3, Begun DEF SourceInv, Upto, Before
<1> QED
  BY <1>4, <1>5, <1>6, <1>7 DEF DeliveryInv

LEMMA RingPromotedFailsDelivers ==
  ASSUME TypeOK, NEW f, DeliveryInv(f), RingPromotedFails
  PROVE  DeliveryInv(f)'
<1>1. ctl.pc = "advance" /\ Promoted /\ UNCHANGED <<ann, rel, live, rb, head>> /\ Goto("cas")
  BY Begun DEF RingPromotedFails, CopyInv
<1>2. app' = app /\ ctl'.pc = "cas" /\ ctl'.mem = ctl.mem /\ ctl'.manual = "no"
  BY <1>1, Begun, GoesOn DEF Points
<1>3. ctl'.done = ctl.done
  BY <1>1 DEF Goto, At, TypeOK, Ctl
<1>4. QuietInv'
  BY <1>1, <1>2, Begun, QuietKept
<1>5. CopyInv'
  <2>1. Promoted'
    BY <1>1, <1>2, <1>3 DEF Promoted, Ahead, ReleaseName, CurrentStage
  <2> QED
    BY <1>2, <2>1 DEF CopyInv, Reading
<1>6. FlowInv(f)'
  <2>1. Cur = ctl.mem /\ Cur' = ctl.mem /\ FlowInv(f)
    BY <1>1, <1>2, Begun DEF Cur, Reaching
  <2>2. Covered(f, Cur)'
    BY <1>1, <2>1, CoveredSame DEF FlowInv
  <2>3. Refers(Cur)' /\ Refers(app)'
    BY <1>1, <1>2, <2>1 DEF FlowInv, Refers, Exists, ReleaseName, CurrentStage
  <2> QED
    BY <1>1, <1>2, <2>1, <2>2, <2>3, FlowCarried
<1>7. SourceInv(f)'
  BY <1>1, <1>2, Begun DEF SourceInv, Upto, Before
<1> QED
  BY <1>4, <1>5, <1>6, <1>7 DEF DeliveryInv

LEMMA PersistDelivers ==
  ASSUME TypeOK, NEW f, DeliveryInv(f), PersistRingAdvance
  PROVE  DeliveryInv(f)'
<1>1. /\ ctl.pc = "cas" /\ (ctl.mem = app \/ Promoted) /\ UNCHANGED <<ann, rel, live, rb, head>>
      /\ ctl' = Idle
  BY Begun DEF PersistRingAdvance, world, CopyInv
<1>2. ctl'.pc = "idle" /\ ctl'.manual = "no"
  BY <1>1 DEF Idle
<1>3. app'.ref = ctl.mem.ref /\ app'.hash = app.hash /\ app'.phase = app.phase
      /\ app'.stage = ctl.mem.stage /\ ctl.mem.hash = app.hash
  <2>1. CASE ctl.mem = app
    BY <2>1, Begun DEF PersistRingAdvance, App
  <2>2. CASE Promoted
    <3>1. app' = [app EXCEPT !.stage = ctl.mem.stage, !.ref = ctl.mem.ref]
      BY <2>2 DEF PersistRingAdvance, Promoted
    <3> QED
      BY <2>2, <3>1, Begun, AheadFields DEF App
  <2> QED
    BY <1>1, <2>1, <2>2
<1>4. QuietInv'
  BY <1>1, <1>2, <1>3, Begun, QuietKept
<1>5. CopyInv'
  BY <1>2 DEF CopyInv, Reading
<1>6. FlowInv(f)'
  <2>1. Cur = ctl.mem /\ Cur' = app' /\ FlowInv(f)
    BY <1>1, <1>2, Begun DEF Cur, Reaching
  <2>2. Covered(f, Cur)'
    BY <1>1, <1>3, <2>1, CoveredSame DEF FlowInv
  <2>3. Refers(app)'
    <3>1. CASE ctl.mem = app
      BY <1>1, <1>3, <2>1, <3>1 DEF FlowInv, Refers, Exists, ReleaseName, CurrentStage
    <3>2. CASE Promoted
      <4>1. ctl.mem.ref # NoRel /\ ctl.mem.ref = ReleaseName(ctl.mem)
        BY <3>2, AheadFields
      <4> QED
        BY <1>1, <1>3, <2>1, <4>1 DEF FlowInv, Refers, Exists, ReleaseName, CurrentStage
    <3> QED
      BY <1>1, <3>1, <3>2
  <2>4. Refers(Cur)'
    BY <2>1, <2>3 DEF Refers, Exists, ReleaseName, CurrentStage
  <2> QED
    BY <1>1, <1>3, <2>1, <2>2, <2>3, <2>4, FlowCarried
<1>7. SourceInv(f)'
  BY <1>1, <1>2, <1>3, Begun DEF SourceInv, Upto, Before
<1> QED
  BY <1>4, <1>5, <1>6, <1>7 DEF DeliveryInv

(* Outside the window nothing starts *)
LEMMA BlockedDelivers ==
  ASSUME TypeOK, NEW f, DeliveryInv(f), NewFlowBlocked
  PROVE  DeliveryInv(f)'
<1>1. ctl.pc = "supersede" /\ ctl.mem = app /\ UNCHANGED <<ann, rel, live, rb, head>> /\ Patch(app, "idle")
  BY Begun DEF NewFlowBlocked, Blocked, world, CopyInv, Reading
<1>2. app' = app /\ ctl'.pc = "idle" /\ ctl'.manual = "no"
  BY <1>1, Begun, Written DEF Points
<1>3. QuietInv'
  BY <1>1, <1>2, Begun, QuietKept
<1>4. CopyInv'
  BY <1>2 DEF CopyInv, Reading
<1>5. FlowInv(f)'
  BY <1>1, <1>2, Begun, SamePlace DEF Reaching
<1>6. SourceInv(f)'
  BY <1>1, <1>2, Begun DEF SourceInv, Upto, Before
<1> QED
  BY <1>3, <1>4, <1>5, <1>6 DEF DeliveryInv

(* A finished release is superseded, an unfinished one waited for *)
LEMMA SupersedeDelivers ==
  ASSUME TypeOK, NEW f, DeliveryInv(f), SupersedeCurrentRelease
  PROVE  DeliveryInv(f)'
<1>1. /\ ctl.pc = "supersede" /\ ctl.mem = app /\ UNCHANGED <<app, ann, live, rb, head>>
      /\ app.phase = "Healthy" /\ app.ref # NoRel /\ app.ref[1] # app.hash
      /\ app.ref \in Rel /\ HasRelease(app)
  BY Begun DEF SupersedeCurrentRelease, Superseding, world, CopyInv, Reading
<1>2. CASE rel[app.ref].phase \notin Terminal
  <2>1. ctl' = Idle /\ rel' = rel
    BY <1>1, <1>2 DEF SupersedeCurrentRelease
  <2>2. ctl'.pc = "idle" /\ ctl'.manual = "no"
    BY <2>1 DEF Idle
  <2>3. QuietInv'
    BY <1>1, <2>1, <2>2, Begun, QuietKept
  <2>4. CopyInv'
    BY <2>2 DEF CopyInv, Reading
  <2>5. FlowInv(f)'
    BY <1>1, <2>1, <2>2, Begun, SamePlace DEF Reaching
  <2>6. SourceInv(f)'
    BY <1>1, <2>2, Begun DEF SourceInv, Upto, Before
  <2> QED
    BY <2>3, <2>4, <2>5, <2>6 DEF DeliveryInv
<1>3. CASE rel[app.ref].phase \in Terminal
  <2> PICK a : a = [app EXCEPT !.ref = NoRel, !.stage = 0]
    OBVIOUS
  <2>1. a \in App
    <3>1. 0 \in 0..N /\ NoRel \in Refs /\ app \in App
      BY Begun, RingAssumption DEF Refs
    <3> QED
      BY <3>1 DEF App
  <2>2. rel' = [rel EXCEPT ![app.ref].phase = "Superseded"] /\ ctl' = At(Holding(a), "clear")
    <3>1. RestartRings([app EXCEPT !.ref = NoRel]) = a
      BY <1>1, Begun DEF RestartRings, App
    <3> QED
      BY <1>1, <1>3, <3>1 DEF SupersedeCurrentRelease
  <2>3. ctl'.pc = "clear" /\ ctl'.mem = a /\ ctl'.manual = "no"
    BY <2>1, <2>2, Begun, Moved DEF Points
  <2>4. /\ \A q \in Rel : q # app.ref => rel'[q] = rel[q]
        /\ rel'[app.ref].phase = "Superseded"
        /\ rel'[app.ref].resync = "no" /\ rel'[app.ref].rollback = "no"
    <3>1. rel \in [Rel -> Release] /\ rel[app.ref] \in Release
      BY <1>1 DEF TypeOK
    <3>2. rel' = [rel EXCEPT ![app.ref] = [rel[app.ref] EXCEPT !.phase = "Superseded"]]
      BY <2>2
    <3>3. rel[app.ref].resync = "no" /\ rel[app.ref].rollback = "no"
      BY <1>1, Begun DEF QuietInv
    <3> QED
      BY <1>1, <3>1, <3>2, <3>3 DEF Release
  <2>5. QuietInv'
    <3>1. \A q \in Rel : /\ rel'[q].resync = "no" /\ rel'[q].rollback = "no"
                         /\ rel'[q].phase \notin {"Failed", "RolledBack"}
      BY <2>4, Begun DEF QuietInv
    <3> QED
      BY <1>1, <2>3, <3>1, Begun DEF QuietInv
  <2>6. CopyInv'
    BY <1>1, <2>3, <2>4 DEF CopyInv, Reading
  <2>7. FlowInv(f)'
    <3>1. Cur = app /\ Cur' = app /\ FlowInv(f)
      BY <1>1, <2>3, Begun DEF Cur, Reaching
    <3>2. Refers(app)' /\ Refers(Cur)'
      BY <1>1, <2>3, <2>4, <3>1 DEF FlowInv, Refers, Exists, ReleaseName, CurrentStage
    <3>3. Deployed(app)' /\ Deployed(Cur)'
      BY <1>1, <2>4, <3>1 DEF Deployed, Applied
    <3>4. \A q \in Rel : Unfinished(q)' => q = Cur'.ref
      BY <2>4, <3>1 DEF FlowInv, Unfinished
    <3>5. \A q \in Rel : Exists(q)' => Exists(q)
      BY <1>1, <2>4, Begun DEF Exists
    <3>6. Covered(f, Cur)'
      BY <3>1, <3>5 DEF FlowInv, Covered
    <3> QED
      BY <3>2, <3>3, <3>4, <3>6 DEF FlowInv
  <2>8. SourceInv(f)'
    BY <1>1, <2>3, Begun DEF SourceInv, Upto, Before
  <2> QED
    BY <2>5, <2>6, <2>7, <2>8 DEF DeliveryInv
<1> QED
  BY <1>2, <1>3

(* The flow restarts: the superseded release was the last of its source *)
LEMMA RestartDelivers ==
  ASSUME TypeOK, NEW f, DeliveryInv(f), StartNewReleaseFlow
  PROVE  DeliveryInv(f)'
<1>1. /\ ctl.pc = "clear" /\ rel[app.ref].phase = "Superseded" /\ app.ref # NoRel
      /\ app.ref[1] # app.hash /\ ctl.mem = [app EXCEPT !.ref = NoRel, !.stage = 0]
      /\ UNCHANGED <<ann, rel, live, rb, head>> /\ ctl' = Idle
      /\ app' = [ctl.mem EXCEPT !.phase = "Pending"]
  BY Begun DEF StartNewReleaseFlow, world, CopyInv
<1>2. ctl'.pc = "idle" /\ ctl'.manual = "no"
  BY <1>1 DEF Idle
<1>3. app'.ref = NoRel /\ app'.hash = app.hash /\ app'.phase = "Pending"
  <2>1. ctl.mem \in App /\ ctl.mem.ref = NoRel /\ ctl.mem.hash = app.hash
    BY <1>1, Begun DEF App
  <2> QED
    BY <1>1, <2>1 DEF App
<1>4. QuietInv'
  BY <1>1, <1>2, <1>3, Begun, QuietKept
<1>5. CopyInv'
  BY <1>2 DEF CopyInv, Reading
<1>6. FlowInv(f)'
  <2>1. Cur = app /\ Cur' = app' /\ FlowInv(f)
    BY <1>1, <1>2, Begun DEF Cur, Reaching
  <2>2. Refers(app)' /\ Refers(Cur)'
    BY <1>3, <2>1 DEF Refers
  <2>3. Deployed(app)' /\ Deployed(Cur)'
    BY <1>3, <2>1 DEF Deployed
  <2>4. \A r \in Rel : ~Unfinished(r)'
    BY <1>1, <2>1 DEF FlowInv, Unfinished
  <2>5. Covered(f, Cur)'
    BY <1>1, <1>3, <2>1 DEF FlowInv, Covered, Exists, Before
  <2> QED
    BY <2>2, <2>3, <2>4, <2>5 DEF FlowInv
<1>7. SourceInv(f)'
  BY <1>1, <1>2, <1>3, Begun DEF SourceInv, Upto, Before
<1> QED
  BY <1>4, <1>5, <1>6, <1>7 DEF DeliveryInv

(* A flow has no release yet, and none of its source and ring exists, or   *)
(* it follows the one of its source and ring                               *)
LEMMA FlowBegun ==
  ASSUME TypeOK, NEW f, Advancing(f), DeliveryInv(f), InFlow
  PROVE  /\ ctl.pc = "flow" /\ ctl.mem = app /\ app.phase # "Healthy" /\ ~Reaching
         /\ ReleaseName(app) \in Rel
         /\ app.ref = NoRel => ~Exists(ReleaseName(app))
         /\ app.ref # NoRel => app.ref = ReleaseName(app) /\ rel[app.ref].phase # "Superseded"
<1>1. ctl.pc = "flow" /\ ctl.mem = app /\ app.phase # "Healthy" /\ ~Reaching
  BY Begun DEF InFlow, CopyInv, Reading, Reaching
<1>2. ReleaseName(app) \in Rel
  BY Begun, NameTyped
<1>3. app.ref # NoRel => app.ref = ReleaseName(app) /\ rel[app.ref].phase # "Superseded"
  BY <1>1, Begun
<1>4. ASSUME app.ref = NoRel, Exists(ReleaseName(app)) PROVE FALSE
  <2>1. Covered(f, app) /\ app.hash \in Hashes
    BY <1>1, Begun, StatusFields DEF FlowInv, Cur
  <2>2. ReleaseName(app)[1] = app.hash
    BY DEF ReleaseName
  <2>3. Before(f, app.hash, app.hash)
    BY <1>2, <1>4, <2>1, <2>2 DEF Covered
  <2> QED
    BY <2>1, <2>3, BeforeOrder
<1> QED
  BY <1>1, <1>2, <1>3, <1>4

(* A write of the flow that keeps its place *)
LEMMA FlowWrites ==
  ASSUME TypeOK, NEW f, Advancing(f), DeliveryInv(f), InFlow, UNCHANGED <<ann, rel, live, rb, head>>,
         NEW a \in App, a.ref = app.ref, a.hash = app.hash, a.stage = app.stage,
         NEW pc \in {"idle", "observeOnly"}, Patch(a, pc), a.phase \in {"Pending", "Promoting", "Healthy"},
         a.phase = "Healthy" => app.ref # NoRel, pc = "observeOnly" => a.phase = "Healthy"
  PROVE  DeliveryInv(f)'
<1>1. app' = a /\ ctl'.pc = pc /\ (pc # "idle" => ctl'.mem = a) /\ ctl'.manual = "no"
  BY Begun, Written DEF Points
<1>2. QuietInv'
  BY <1>1, Begun, QuietKept
<1>3. CopyInv'
  BY <1>1 DEF CopyInv, Reading
<1>4. FlowInv(f)'
  BY <1>1, FlowBegun, SamePlace DEF Reaching
<1>5. SourceInv(f)'
  BY <1>1, Begun DEF SourceInv, Upto, Before
<1> QED
  BY <1>2, <1>3, <1>4, <1>5 DEF DeliveryInv

LEMMA FollowDelivers ==
  ASSUME TypeOK, NEW f, Advancing(f), DeliveryInv(f), FollowRelease
  PROVE  DeliveryInv(f)'
<1>1. InFlow /\ Started(ctl.mem) /\ UNCHANGED <<rel, live, rb, head>>
  BY DEF FollowRelease, world
<1>2. ann' = ann
  BY Begun DEF FollowRelease, ClearManual
<1>3. app.ref # NoRel /\ ctl.mem = app /\ PhaseOf(app) # "Superseded"
  BY <1>1, Begun, FlowBegun DEF Started
<1> PICK x : x = AppPhase(PhaseOf(app))
  OBVIOUS
<1>4. x \in {"Promoting", "Healthy"} /\ (PhaseOf(app) = "Complete" => x = "Healthy")
  BY <1>3, Begun DEF AppPhase
<1> PICK a : a = [app EXCEPT !.phase = x]
  OBVIOUS
<1>5. a \in App /\ a.ref = app.ref /\ a.hash = app.hash /\ a.stage = app.stage /\ a.phase = x
  BY <1>4, Begun DEF App
<1>6. PICK pc \in {"idle", "observeOnly"} : Patch(a, pc) /\ (pc = "observeOnly" => x = "Healthy")
  BY <1>3, <1>4 DEF FollowRelease
<1> QED
  BY <1>1, <1>2, <1>3, <1>4, <1>5, <1>6, FlowWrites

LEMMA CreationBlockedDelivers ==
  ASSUME TypeOK, NEW f, Advancing(f), DeliveryInv(f), CreationBlocked
  PROVE  DeliveryInv(f)'
<1>1. InFlow /\ UNCHANGED <<ann, rel, live, rb, head>>
  BY DEF CreationBlocked, world
<1> PICK a : a = [app EXCEPT !.phase = "Pending"]
  OBVIOUS
<1>2. a \in App /\ a.ref = app.ref /\ a.hash = app.hash /\ a.stage = app.stage /\ a.phase = "Pending"
  BY Begun DEF App
<1>3. Patch(a, "idle")
  BY <1>1, FlowBegun DEF CreationBlocked
<1> QED
  BY <1>1, <1>2, <1>3, FlowWrites

LEMMA AdoptDelivers ==
  ASSUME TypeOK, NEW f, Advancing(f), DeliveryInv(f), AdoptRelease
  PROVE  DeliveryInv(f)'
<1>1. InFlow /\ ctl.mem = app /\ Exists(ReleaseName(app)) /\ UNCHANGED <<rel, live, rb, head>>
  BY FlowBegun DEF AdoptRelease, Creating, world
<1>2. ann' = ann
  BY Begun DEF AdoptRelease, ClearManual
<1>3. app.ref = ReleaseName(app) /\ app.ref # NoRel
  BY <1>1, FlowBegun
<1> PICK a : a = [app EXCEPT !.ref = ReleaseName(app), !.phase = "Promoting"]
  OBVIOUS
<1>4. a \in App /\ a.ref = app.ref /\ a.hash = app.hash /\ a.stage = app.stage /\ a.phase = "Promoting"
  BY <1>3, Begun DEF App
<1>5. Patch(a, "idle")
  BY <1>1 DEF AdoptRelease
<1> QED
  BY <1>1, <1>2, <1>4, <1>5, FlowWrites

(* A flow never meets an ended release of its source and ring *)
LEMMA NothingReadopted ==
  ASSUME TypeOK, NEW f, Advancing(f), DeliveryInv(f)
  PROVE  ~ParkExhausted /\ ~DecideResync
<1> SUFFICES ASSUME Creating, Exists(ReleaseName(ctl.mem)), rel[ReleaseName(ctl.mem)].phase \in Terminal
             PROVE  FALSE
  BY DEF ParkExhausted, DecideResync
<1>1. ctl.mem = app /\ app.ref = ReleaseName(app) /\ app.ref # NoRel
  BY FlowBegun DEF Creating
<1>2. rel[app.ref].phase = "new"
  BY <1>1, Begun DEF Creating, Started
<1> QED
  BY <1>1, <1>2 DEF Terminal

(* The release is created, and recorded by the next write *)
LEMMA CreateDelivers ==
  ASSUME TypeOK, NEW f, Advancing(f), DeliveryInv(f), CreateRelease
  PROVE  DeliveryInv(f)'
<1> PICK r : r = ReleaseName(app)
  OBVIOUS
<1>1. /\ ctl.mem = app /\ ~Reaching /\ app.phase # "Healthy" /\ r \in Rel /\ ~Exists(r) /\ Create(r)
      /\ UNCHANGED <<app, ann, live, rb, head>> /\ app \in App
  BY Begun, FlowBegun DEF CreateRelease, Creating, world
<1>2. app.ref = NoRel
  BY <1>1, Begun, FlowBegun DEF CreateRelease, Creating
<1> PICK m : m = [app EXCEPT !.ref = r, !.phase = "Promoting"]
  OBVIOUS
<1>3. m \in App /\ m.ref = r /\ m.hash = app.hash /\ m.stage = app.stage /\ m.phase = "Promoting"
  BY <1>1 DEF App, Refs
<1>4. ctl'.pc = "created" /\ ctl'.mem = m /\ ctl'.manual = "no"
  <2>1. ctl' = At(Holding(m), "created")
    BY <1>1 DEF CreateRelease
  <2> QED
    BY <1>3, <2>1, Begun, Moved DEF Points
<1>5. r = ReleaseName(m) /\ r[1] = app.hash
  BY <1>3 DEF ReleaseName, CurrentStage
<1>6. /\ FlowInv(f)' /\ \A q \in Rel : q # r => rel'[q] = rel[q]
      /\ rel'[r].phase = "new" /\ rel'[r].resync = "no" /\ rel'[r].rollback = "no"
  <2>1. Reaching'
    BY <1>4 DEF Reaching
  <2> QED
    BY <1>1, <1>2, <1>3, <1>4, <1>5, <2>1, NewRelease
<1>7. QuietInv'
  BY <1>1, <1>4, <1>6, Begun, NewQuiet
<1>8. CopyInv'
  <2>1. ctl'.mem = [app' EXCEPT !.ref = ReleaseName(app'), !.phase = "Promoting"]
    BY <1>1, <1>4
  <2> QED
    BY <1>1, <1>2, <1>4, <2>1 DEF CopyInv, Reading, ReleaseName, CurrentStage
<1>9. SourceInv(f)'
  BY <1>1, <1>4, Begun DEF SourceInv, Upto, Before
<1> QED
  BY <1>6, <1>7, <1>8, <1>9 DEF DeliveryInv

LEMMA CreatedDelivers ==
  ASSUME TypeOK, NEW f, DeliveryInv(f), ReleaseCreated
  PROVE  DeliveryInv(f)'
<1>1. /\ ctl.pc = "created" /\ ctl.mem = [app EXCEPT !.ref = ReleaseName(app), !.phase = "Promoting"]
      /\ UNCHANGED <<rel, live, rb, head>> /\ Patch(ctl.mem, "idle") /\ app \in App /\ ctl.mem \in App
  BY Begun DEF ReleaseCreated, world, CopyInv
<1>2. ann' = ann
  BY Begun DEF ReleaseCreated, ClearManual
<1>3. ctl.mem.hash = app.hash /\ ctl.mem.phase = "Promoting" /\ ctl.mem.ref # NoRel
  <2>1. ReleaseName(app) # NoRel
    BY <1>1, NameTyped, SourceAssumption
  <2> QED
    BY <1>1, <2>1 DEF App
<1>4. app' = ctl.mem /\ ctl'.pc = "idle" /\ ctl'.manual = "no"
  BY <1>1, <1>3, Written DEF Points
<1>5. QuietInv'
  BY <1>1, <1>2, <1>3, <1>4, Begun, QuietKept
<1>6. CopyInv'
  BY <1>4 DEF CopyInv, Reading
<1>7. FlowInv(f)'
  <2>1. Cur = ctl.mem /\ Cur' = ctl.mem /\ FlowInv(f)
    BY <1>1, <1>4, Begun DEF Cur, Reaching
  <2>2. Covered(f, Cur)'
    BY <1>1, <2>1, CoveredSame DEF FlowInv
  <2>3. Refers(Cur)' /\ Refers(app)'
    BY <1>1, <1>4, <2>1 DEF FlowInv, Refers, Exists, ReleaseName, CurrentStage
  <2> QED
    BY <1>1, <1>4, <2>1, <2>2, <2>3, FlowCarried
<1>8. SourceInv(f)'
  BY <1>1, <1>3, <1>4, Begun DEF SourceInv, Upto, Before
<1> QED
  BY <1>5, <1>6, <1>7, <1>8 DEF DeliveryInv

(* A release moves on: only the one the flow has reached can *)
LEMMA ReleaseMoves ==
  ASSUME TypeOK, NEW f, DeliveryInv(f), NEW r \in Rel, Unfinished(r),
         \A q \in Rel : q # r => rel'[q] = rel[q], rel'[r].resync = "no", rel'[r].rollback = "no",
         rel'[r].phase \in {"Pending", "active", "canarying", "applied", "Complete"},
         UNCHANGED <<app, ctl, ann, rb, head>>,
         \/ live' = [live EXCEPT ![r[2]] = r]
         \/ live' = live /\ (rel'[r].phase \in Applied => rel[r].phase \in Applied)
  PROVE  DeliveryInv(f)'
<1>1. FlowInv(f) /\ r = Cur.ref /\ r # NoRel /\ r[2] \in Rings /\ app \in App
  BY Begun, SourceAssumption DEF FlowInv, Rel
<1>2. Cur' = Cur /\ app' = app
  BY DEF Cur, Reaching
<1>3. app.ref # NoRel /\ app.ref # r => app.ref \in Rel /\ app.ref[2] # r[2]
  <2> SUFFICES ASSUME app.ref # NoRel, app.ref # r PROVE app.ref \in Rel /\ app.ref[2] # r[2]
    OBVIOUS
  <2>1. Promoted
    BY <1>1, Begun DEF Cur, Reaching, CopyInv
  <2>2. Cur = ctl.mem
    BY <1>1 DEF Cur
  <2>3. app.ref = <<app.hash, CurrentStage(app)>> /\ r = <<app.hash, CurrentStage(app) + 1>>
    BY <1>1, <2>1, <2>2, AheadFields DEF Promoted, ReleaseName
  <2>4. CurrentStage(app) \in Nat
    BY <1>1, NameTyped, RingAssumption DEF Rings
  <2> QED
    BY <1>1, <2>3, <2>4, Begun
<1>4. QuietInv'
  <2>1. \A q \in Rel : /\ rel'[q].resync = "no" /\ rel'[q].rollback = "no"
                       /\ rel'[q].phase \notin {"Failed", "RolledBack"}
    BY Begun DEF QuietInv
  <2> QED
    BY <2>1, Begun DEF QuietInv
<1>5. CopyInv'
  <2>1. CopyInv
    BY Begun
  <2>2. ctl.pc \in {"observe", "promote", "clear"} => rel'[app.ref].phase = rel[app.ref].phase
    <3>1. ctl.pc \in {"observe", "promote", "clear"} => app.ref # r /\ app.ref # NoRel
      BY <2>1, Begun DEF CopyInv, Unfinished
    <3> QED
      BY <3>1, Begun
  <2>3. ctl.pc \in {"advance", "cas"} => (Promoted <=> Promoted')
    BY <1>2 DEF Promoted, Ahead, ReleaseName, CurrentStage
  <2> QED
    BY <2>1, <2>2, <2>3 DEF CopyInv, Reading, ReleaseName, CurrentStage
<1>6. Refers(app)'
  BY <1>1, <1>3, Begun DEF FlowInv, Refers, Exists, ReleaseName, CurrentStage
<1>7. Refers(Cur)'
  BY <1>1, <1>2 DEF FlowInv, Refers, Exists, ReleaseName, CurrentStage
<1>8. rel'[r].phase \in Applied => live'[r[2]] = r
  BY <1>1 DEF FlowInv, Deployed, TypeOK
<1>9. Deployed(Cur)'
  BY <1>1, <1>2, <1>8 DEF Deployed
<1>10. Deployed(app)'
  <2>1. CASE app.ref = r
    BY <1>8, <2>1 DEF Deployed
  <2>2. CASE app.ref # r /\ app.ref # NoRel
    <3>1. app.ref[2] \in Rings /\ live'[app.ref[2]] = live[app.ref[2]]
      BY <1>1, <1>3, <2>2, StatusFields DEF TypeOK
    <3> QED
      BY <1>1, <1>3, <2>2, <3>1 DEF FlowInv, Deployed
  <2> QED
    BY <2>1, <2>2 DEF Deployed
<1>11. \A q \in Rel : Unfinished(q)' => q = Cur'.ref
  BY <1>1, <1>2 DEF FlowInv, Unfinished
<1>12. Covered(f, Cur)'
  <2>1. \A q \in Rel : Exists(q)' => Exists(q)
    BY DEF Exists, Unfinished
  <2> QED
    BY <1>1, <1>2, <2>1 DEF FlowInv, Covered
<1>13. FlowInv(f)'
  BY <1>6, <1>7, <1>9, <1>10, <1>11, <1>12 DEF FlowInv
<1>14. SourceInv(f)'
  BY Begun DEF SourceInv, Upto, Before
<1> QED
  BY <1>4, <1>5, <1>13, <1>14 DEF DeliveryInv

LEMMA ReleaseDelivers ==
  ASSUME TypeOK, NEW f, DeliveryInv(f), NEW r \in Rel, ReleaseStep(r)
  PROVE  DeliveryInv(f)'
<1>1. /\ rel[r].resync = "no" /\ rel[r].rollback = "no" /\ rel[r].phase # "Failed"
      /\ rb[r].at = "none"
      /\ rel \in [Rel -> Release] /\ rel[r] \in Release
  BY Begun DEF QuietInv, TypeOK
<1>2. /\ ~HandleResync(r) /\ ~RollbackBegin(r) /\ ~RollbackApply(r) /\ ~RollbackStamp(r)
      /\ ~MarkRolledBack(r) /\ ~PatchApplicationReleaseRef(r)
  BY <1>1 DEF HandleResync, RollbackBegin, ShouldRollback, RollbackApply, RollbackStamp,
     MarkRolledBack, PatchApplicationReleaseRef
<1>3. UNCHANGED <<app, ctl, ann, rb, head>>
  BY <1>2 DEF ReleaseStep, ParkRelease, InitiateRelease, ApplyManifests, FinishCanary,
     CompleteRelease, ctlVars, world
<1>4. CASE ParkRelease(r) \/ InitiateRelease(r) \/ FinishCanary(r)
  <2>1. PICK x \in {"Pending", "active", "applied"} :
            rel' = [rel EXCEPT ![r] = [rel[r] EXCEPT !.phase = x]]
    BY <1>4 DEF ParkRelease, InitiateRelease, FinishCanary
  <2>2. /\ \A q \in Rel : q # r => rel'[q] = rel[q]
        /\ rel'[r].phase = x /\ rel'[r].resync = "no" /\ rel'[r].rollback = "no"
    BY <1>1, <2>1 DEF Release
  <2>3. Unfinished(r) /\ live' = live /\ (x = "applied" => rel[r].phase = "canarying")
    <3>1. Unfinished(r) /\ live' = live
      BY <1>4 DEF ParkRelease, InitiateRelease, FinishCanary, Unfinished, world
    <3>2. ParkRelease(r) => rel'[r].phase = "Pending"
      BY <1>1 DEF ParkRelease, Release
    <3>3. InitiateRelease(r) => rel'[r].phase = "active"
      BY <1>1 DEF InitiateRelease, Release
    <3> QED
      BY <1>4, <2>2, <3>1, <3>2, <3>3 DEF FinishCanary
  <2>4. rel'[r].phase \in Applied => rel[r].phase \in Applied
    BY <2>2, <2>3 DEF Applied
  <2> QED
    BY <1>3, <2>2, <2>3, <2>4, ReleaseMoves
<1>5. CASE ApplyManifests(r)
  <2>1. PICK x \in {"canarying", "applied"} :
            rel' = [rel EXCEPT ![r] = [rel[r] EXCEPT !.phase = x, !.snapshot = "yes"]]
    BY <1>5 DEF ApplyManifests
  <2>2. /\ \A q \in Rel : q # r => rel'[q] = rel[q]
        /\ rel'[r].phase = x /\ rel'[r].resync = "no" /\ rel'[r].rollback = "no"
    BY <1>1, <2>1 DEF Release
  <2>3. Unfinished(r) /\ live' = [live EXCEPT ![r[2]] = r]
    BY <1>5 DEF ApplyManifests, Unfinished
  <2> QED
    BY <1>3, <2>2, <2>3, ReleaseMoves
<1>6. CASE CompleteRelease(r)
  <2>1. rel' = [rel EXCEPT ![r] = [rel[r] EXCEPT !.phase = "Complete", !.retries = 0]]
    BY <1>6 DEF CompleteRelease
  <2>2. /\ \A q \in Rel : q # r => rel'[q] = rel[q]
        /\ rel'[r].phase = "Complete" /\ rel'[r].resync = "no" /\ rel'[r].rollback = "no"
    BY <1>1, <2>1 DEF Release
  <2>3. Unfinished(r) /\ live' = live /\ rel[r].phase \in Applied
    BY <1>6 DEF CompleteRelease, Unfinished, Applied
  <2> QED
    BY <1>3, <2>2, <2>3, ReleaseMoves
<1> QED
  BY <1>2, <1>4, <1>5, <1>6 DEF ReleaseStep

(* The source, the trigger and the window move around the flow *)
LEMMA AroundDelivers ==
  ASSUME TypeOK, NEW f, Advancing(f), DeliveryInv(f), UNCHANGED <<app, ctl, rel, live, rb>>,
         ann'.manual = "no", head' = head \/ <<head, head'>> \in Commits
  PROVE  DeliveryInv(f)'
<1>1. QuietInv' /\ CopyInv'
  <2>1. CopyInv'
    <3>1. Promoted <=> Promoted'
      BY DEF Promoted, Ahead, ReleaseName, CurrentStage
    <3> QED
      BY <3>1, Begun DEF CopyInv, Reading, ReleaseName, CurrentStage
  <2> QED
    BY <2>1, Begun, QuietKept
<1>2. FlowInv(f)'
  <2>1. Cur' = Cur /\ FlowInv(f)
    BY Begun DEF Cur, Reaching
  <2>2. Covered(f, Cur)'
    BY <2>1, CoveredSame DEF FlowInv
  <2>3. Refers(Cur)' /\ Refers(app)'
    BY <2>1 DEF FlowInv, Refers, Exists, ReleaseName, CurrentStage
  <2> QED
    BY <2>1, <2>2, <2>3, FlowCarried
<1>3. SourceInv(f)'
  <2>1. head \in Sources /\ head \in Hashes /\ app.hash \in Hashes /\ ctl.seen \in Hashes /\ SourceInv(f)
    BY Begun, StatusFields, MemTyped DEF TypeOK
  <2>2. CASE head' = head
    BY <2>1, <2>2 DEF SourceInv, Upto, Before
  <2>3. CASE <<head, head'>> \in Commits
    <3>1. head' \in Sources /\ head' \in Hashes
      BY <2>3, SourceAssumption DEF Hashes
    <3>2. Before(f, head, head')
      <4>1. f[<<head, head'>>[1]] < f[<<head, head'>>[2]]
        BY <2>3 DEF Advancing
      <4> QED
        BY <2>1, <3>1, <4>1, SourceAssumption DEF Before
    <3>3. \A h \in Hashes : Upto(f, h, head) => Upto(f, h, head')
      BY <2>1, <3>1, <3>2, BeforeOrder DEF Upto
    <3> QED
      BY <2>1, <3>3 DEF SourceInv, Upto, Before
  <2> QED
    BY <2>2, <2>3
<1> QED
  BY <1>1, <1>2, <1>3 DEF DeliveryInv

(* Every step of an undisturbed delivery *)
LEMMA DeliveryStep ==
  ASSUME Undisturbed, NEW f, Advancing(f), TypeOK, PromoteInv, DeliveryInv(f), [Next]_vars
  PROVE  DeliveryInv(f)'
<1>1. CASE UNCHANGED vars
  BY <1>1, Begun, AroundDelivers DEF vars
<1>2. CASE AppStep
  <2>1. ctl.pc \notin {"resync", "syncPending", "adopt", "adoptPending"}
    BY Begun DEF CopyInv, Reading
  <2>2. ~RequestCurrentReleaseResync /\ ~FinishSyncTrigger /\ ~ResyncAdopted /\ ~FinishAdoption
    BY <2>1 DEF RequestCurrentReleaseResync, FinishSyncTrigger, ResyncAdopted, FinishAdoption
  <2> QED
    BY <1>2, <2>2, NothingReplaced, NothingReadopted, ReconcileDelivers, ConsumeDelivers,
       RecordDelivers, PollDelivers, ObserveDelivers, PromoteDelivers, RingPromotedDelivers,
       PersistDelivers, BlockedDelivers, SupersedeDelivers, RestartDelivers, FollowDelivers,
       CreationBlockedDelivers, CreateDelivers, CreatedDelivers, AdoptDelivers DEF AppStep
<1>3. ASSUME NEW r \in Rel, ReleaseStep(r) PROVE DeliveryInv(f)'
  BY <1>3, ReleaseDelivers
<1>5. CASE OpenWindow \/ CloseWindow \/ Commit
  <2>1. UNCHANGED <<app, ctl, rel, live, rb, ann>> /\ (head' = head \/ <<head, head'>> \in Commits)
    BY <1>5 DEF OpenWindow, CloseWindow, Commit, ctlVars
  <2> QED
    BY <2>1, Begun, AroundDelivers
<1>6. ASSUME NEW manual \in {"no", "yes"}, Sync(manual) PROVE DeliveryInv(f)'
  <2>1. manual = "no"
    BY <1>6 DEF Sync, Event, Undisturbed
  <2>2. UNCHANGED <<app, ctl, rel, live, rb, head>> /\ ann'.manual = "no"
    BY <1>6, <2>1, Begun DEF Sync
  <2> QED
    BY <2>2, AroundDelivers
<1>7. CASE RingPromotedFails
  BY <1>7, RingPromotedFailsDelivers
<1>8. /\ \A seen \in {"drift", "degraded", "analysis"} : ~Observe(seen)
      /\ ~AbortReconcile
      /\ \A r \in Rel : /\ ~FailRelease(r) /\ ~AbortRollback(r)
                        /\ ~RollbackRelease(r) /\ ~ResyncRelease(r)
  BY DEF Undisturbed, Observe, AbortReconcile, AbortRollback, FailRelease, RollbackRelease,
     ResyncRelease, Event
<1> QED
  BY <1>1, <1>2, <1>3, <1>5, <1>6, <1>7, <1>8 DEF Next, Environment

LEMMA DeliveryStart ==
  ASSUME NEW f, Init
  PROVE  DeliveryInv(f)
<1>1. app = NewApp /\ ctl = Idle /\ ann = NoAnn /\ head \in Sources
      /\ \A r \in Rel : rel[r] = Absent /\ rb[r].at = "none"
  BY DEF Init, NoRollback
<1>2. QuietInv /\ CopyInv
  BY <1>1 DEF QuietInv, CopyInv, Reading, NewApp, Idle, NoAnn, Absent
<1>3. FlowInv(f)
  <2>1. Cur = app /\ app.ref = NoRel /\ app.phase = "Pending"
    BY <1>1 DEF Cur, Reaching, Idle, NewApp
  <2>2. Refers(app) /\ Deployed(app)
    BY <2>1 DEF Refers, Deployed
  <2>3. \A r \in Rel : ~Exists(r) /\ ~Unfinished(r)
    BY <1>1 DEF Exists, Unfinished, Absent
  <2> QED
    BY <2>1, <2>2, <2>3 DEF FlowInv, Covered
<1>4. SourceInv(f)
  BY <1>1, SourceAssumption DEF SourceInv, Upto, Before, NewApp, Idle
<1> QED
  BY <1>2, <1>3, <1>4 DEF DeliveryInv

LEMMA DeliveryAlways ==
  ASSUME Undisturbed, NEW CONSTANT f, Advancing(f)
  PROVE  Spec => []DeliveryInv(f)
<1>1. BudgetInv /\ DeliveryInv(f) /\ [Next]_vars => DeliveryInv(f)'
  BY DeliveryStep DEF BudgetInv
<1>2. Init => DeliveryInv(f)
  BY DeliveryStart
<1> QED
  BY <1>1, <1>2, BudgetAlways, PTL DEF Spec

(* When the Application reports Healthy on a completed release, that       *)
(* release is what its ring runs, for any number of sources and rings and  *)
(* whatever commits, webhooks, closed windows and failing status writes    *)
(* come in between (promoteToNextRing, startNewReleaseFlow), as long as    *)
(* the source never returns to an earlier head and nobody asks a release   *)
(* to run again or to roll back.                                           *)
THEOREM DeployedWhenHealthy ==
  ASSUME Undisturbed, NoReturn
  PROVE  Spec => []HealthyMeansDeployed
<1>1. PICK f : Advancing(f)
  BY DEF NoReturn
<1>2. DeliveryInv(f) => HealthyMeansDeployed
  BY DEF DeliveryInv, FlowInv, Deployed, Applied, HealthyMeansDeployed, HasRelease, Settled
<1> QED
  BY <1>1, <1>2, DeliveryAlways, PTL

(* One ring deploys at a time, under the same assumptions: a flow for a    *)
(* new commit starts on the first ring only when nothing is unfinished.    *)
THEOREM OneRing ==
  ASSUME Undisturbed, NoReturn
  PROVE  Spec => []OneRingAtATime
<1>1. PICK f : Advancing(f)
  BY DEF NoReturn
<1>2. DeliveryInv(f) => OneRingAtATime
  BY DEF DeliveryInv, FlowInv, Unfinished, OneRingAtATime, InProgress
<1> QED
  BY <1>1, <1>2, DeliveryAlways, PTL
=============================================================================
