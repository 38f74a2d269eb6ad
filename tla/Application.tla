---------------------------- MODULE Application ----------------------------
(***************************************************************************)
(* The delivery flow of one Application: the Application controller        *)
(* (internal/controller/pipelines/application_controller.go) resolves the  *)
(* source, creates one Release per ring, follows it, promotes it ring by   *)
(* ring, and starts over when the source changes; the Release controller   *)
(* deploys, completes, fails and rolls back those Releases.                *)
(*                                                                         *)
(* Every write to the API server is a step.  The Application controller    *)
(* works on the copy of the Application it read when its reconcile began   *)
(* (ctl.mem) and its status writes replace the whole stored status, while  *)
(* the Release controller writes the same status at the end of a rollback. *)
(* Reads of Releases are taken at the write that follows them.             *)
(*                                                                         *)
(* A release is named by what the code hashes into its name: the recorded  *)
(* source identity and the ring.  Here a release is in progress from       *)
(* "active" to "applied"; its inner phases are the Release module's.       *)
(***************************************************************************)
EXTENDS Naturals, FiniteSets

CONSTANTS
    Sources,      \* resolved source identities (hash and revision)
    NoHash,       \* status.sourceHash is empty
    NoRel,        \* status.releaseRef is empty
    N,            \* number of rings, in ring order
    AutoPromote,  \* rings with autoPromote
    Commits,      \* pairs of sources: which head may replace which
    OnFailure,    \* spec.onFailure.action: "none" or "rollback"
    Inputs,       \* the users' and the cluster's inputs that may happen
    MaxRetries,   \* maxReleaseAutoRetries
    MaxEvents     \* bound on inputs

Rings == 1..N
Hashes == Sources \cup {NoHash}
Rel == Hashes \X Rings
Refs == Rel \cup {NoRel}

ASSUME RingAssumption == N \in Nat \ {0} /\ AutoPromote \subseteq Rings
ASSUME SourceAssumption == /\ IsFiniteSet(Sources)
                           /\ NoHash \notin Sources
                           /\ NoRel \notin Rel
                           /\ Commits \subseteq Sources \X Sources
ASSUME BoundAssumption == MaxRetries \in Nat \ {0} /\ MaxEvents \in Nat
ASSUME ActionAssumption == /\ OnFailure \in {"none", "rollback"}
                           /\ "rollback" \in Inputs => OnFailure = "rollback"

VARIABLES
    head,      \* what the source resolves to now
    window,    \* "open" or "closed": the sync window
    app,       \* the stored Application status
    ann,       \* its annotations: the sync trigger and manual-sync
    ctl,       \* the reconcile of the Application controller in progress
    rel,       \* [Rel -> release]
    live,      \* [Rings -> what was last applied to the ring]
    rb,        \* [Rel -> the rollback of it in progress]
    verified,  \* releases that completed (history)
    vetoed,    \* rolled back, and nobody asked for another run (history)
    overtaken, \* stamped between a retry's test and its write (history)
    events     \* inputs so far

vars == <<head, window, app, ann, ctl, rel, live, rb, verified, vetoed, overtaken,
          events>>
ctlVars == <<ctl, app, ann>>
world == <<head, window, live, rb, verified, vetoed, overtaken, events>>

(* Promoting stands for Promoting, Canarying and Verifying, which every    *)
(* handler treats alike.  stage 0: no current stage recorded.              *)
App == [phase : {"Pending", "Promoting", "Healthy", "Degraded", "RolledBack"},
        hash  : Hashes,
        stage : 0..N,
        ref   : Refs]

Ann == [sync : 0..MaxEvents, manual : {"no", "yes"}]

(* Where a reconcile is: what it does next. *)
Points == {"idle", "consume", "record", "resync", "syncPending", "healthy",
           "observe", "observeOnly", "promote", "advance", "cas", "supersede",
           "supersedeManually", "clear", "flow", "created", "adopt",
           "adoptPending"}

Ctl == [pc     : Points,
        mem    : App,
        sync   : 0..MaxEvents,
        manual : {"no", "yes"},
        seen   : Hashes,
        done   : Refs]

(* active: Promoting or AwaitingApproval; applied: Verifying. *)
Phases == {"absent", "new", "Pending", "active", "canarying", "applied",
           "Complete", "Failed", "RolledBack", "Superseded"}
Terminal == {"Complete", "Failed", "RolledBack", "Superseded"}

Release == [phase    : Phases,
            retries  : Nat,
            resync   : {"no", "auto", "drift", "manual"},
            rollback : {"no", "auto", "human"},
            snapshot : {"no", "yes"},
            born     : Nat]

Absent == [phase |-> "absent", retries |-> 0, resync |-> "no",
           rollback |-> "no", snapshot |-> "no", born |-> 0]
NewApp == [phase |-> "Pending", hash |-> NoHash, stage |-> 0, ref |-> NoRel]
NoAnn == [sync |-> 0, manual |-> "no"]
Idle == [pc |-> "idle", mem |-> NewApp, sync |-> 0, manual |-> "no",
         seen |-> NoHash, done |-> NoRel]

(* A rollback works on the copy of the release it began with; spent: that  *)
(* copy's retry counter is at the cap.                                     *)
Rollback == [at     : {"none", "begun", "applied", "stamped", "marked"},
             target : Refs,
             spent  : {"no", "yes"}]
NoRollback == [at |-> "none", target |-> NoRel, spent |-> "no"]

Init == /\ head \in Sources
        /\ window = "open"
        /\ app = NewApp
        /\ ann = NoAnn
        /\ ctl = Idle
        /\ rel = [r \in Rel |-> Absent]
        /\ live = [k \in Rings |-> NoRel]
        /\ rb = [r \in Rel |-> NoRollback]
        /\ verified = {}
        /\ vetoed = {}
        /\ overtaken = {}
        /\ events = 0

----------------------------------------------------------------------------
(* Inputs are bounded by MaxEvents. *)
Event(kind) == /\ kind \in Inputs
               /\ events < MaxEvents
               /\ events' = events + 1

Exists(r) == rel[r].phase # "absent"
HasRelease(a) == a.ref # NoRel /\ Exists(a.ref)
PhaseOf(a) == IF HasRelease(a) THEN rel[a.ref].phase ELSE "new"

(* currentStageIn: the recorded stage, or the lowest ring. *)
CurrentStageFirst(a) == 1                            \* mutant of CurrentStage
CurrentStage(a) == IF a.stage = 0 THEN 1 ELSE a.stage

(* applicationReleaseName *)
ReleaseName(a) == <<a.hash, CurrentStage(a)>>

(* releaseIdentityChanged *)
IdentityChanged(a) == a.ref # NoRel /\ a.ref # ReleaseName(a)

(* releaseAutoRetriesExhausted: the counter is at the cap and the release  *)
(* was built for the recorded source.                                      *)
NeverExhausted(a, r) == rel[r].retries > MaxRetries  \* mutant of Exhausted
Exhausted(a, r) == rel[r].retries >= MaxRetries /\ r[1] = a.hash

(* buildRelease and Create: creation order is kept in born. *)
Created == [Absent EXCEPT !.phase = "new",
                          !.born = 1 + Cardinality({r \in Rel : Exists(r)})]
Create(r) == rel' = IF Exists(r) THEN rel ELSE [rel EXCEPT ![r] = Created]

(* requestReleaseResync: ask for another run, withdraw a rollback request, *)
(* count the automatic ones.  The counter is not compared with the cap.    *)
Resynced(p, origin) ==
    [p EXCEPT !.resync = origin,
              !.rollback = "no",
              !.retries = IF origin = "manual" THEN 0 ELSE p.retries + 1]

(* patchAppStatusPreserving: the copy replaces the stored status, except   *)
(* that an empty reference never clears a stored one.                      *)
Preserving(a) == [a EXCEPT !.ref = IF a.ref = NoRel THEN app.ref ELSE a.ref]
At(c, pc) == IF pc = "idle" THEN Idle ELSE [c EXCEPT !.pc = pc]
Holding(a) == [ctl EXCEPT !.mem = a]
Patch(a, pc) == /\ app' = Preserving(a)
                /\ ctl' = At(Holding(Preserving(a)), pc)
Goto(pc) == /\ ctl' = At(ctl, pc)
            /\ UNCHANGED app

(* reconcileRelease's deferred clearManualSyncAnnotation *)
ClearManual == ann' = IF ctl.manual = "yes" THEN [ann EXCEPT !.manual = "no"]
                                            ELSE ann

----------------------------------------------------------------------------
(* Reconcile / reconcileApp: read the Application and pick the handler.    *)
(* handleSyncTrigger resolves the source before it consumes the trigger.   *)
Reconcile ==
    /\ ctl.pc = "idle"
    /\ ctl' = [Idle EXCEPT
                 !.pc = IF ann.sync # 0 THEN "consume"
                        ELSE IF app.phase \in {"Healthy", "RolledBack"}
                             THEN "healthy" ELSE "flow",
                 !.mem = app, !.sync = ann.sync, !.manual = ann.manual,
                 !.seen = head]
    /\ UNCHANGED <<app, ann, rel, world>>

(* handleSyncTrigger, consumeSyncTrigger: clear the trigger only if it     *)
(* still holds the handled value, and continue on the stored Application.  *)
ConsumeSyncTrigger ==
    /\ ctl.pc = "consume"
    /\ ann' = IF ann.sync = ctl.sync THEN [ann EXCEPT !.sync = 0] ELSE ann
    /\ ctl' = At(Holding(app),
                 IF ctl.mem.phase = "Healthy" THEN "record"
                 ELSE IF ctl.manual = "yes" THEN "resync" ELSE "idle")
    /\ UNCHANGED <<app, rel, world>>

(* finishSyncTriggerRefresh, recordResolvedSource *)
RecordSyncedSource ==
    /\ ctl.pc = "record"
    /\ LET a == [ctl.mem EXCEPT !.hash = ctl.seen]
           pc == IF ctl.mem.hash \notin {NoHash, ctl.seen} 
                 THEN IF ctl.manual = "yes" THEN "supersedeManually" ELSE "supersede"
                 ELSE IF ctl.manual = "yes" THEN "resync" ELSE "idle"
       IN  IF a = ctl.mem THEN Goto(pc) ELSE Patch(a, pc)
    /\ UNCHANGED <<ann, rel, world>>

(* finishSyncTrigger, first write: resync the current release.             *)
RequestCurrentReleaseResync ==
    /\ ctl.pc = "resync"
    /\ LET r == ctl.mem.ref
       IN  IF HasRelease(ctl.mem)
           THEN /\ rel' = [rel EXCEPT ![r] = Resynced(rel[r], "manual")]
                /\ vetoed' = vetoed \ {r}
                /\ overtaken' = overtaken \ {r}
           ELSE UNCHANGED <<rel, vetoed, overtaken>>
    /\ Goto("syncPending")
    /\ UNCHANGED <<ann, head, window, live, rb, verified, events>>

(* finishSyncTrigger, second write: phase Pending.                         *)
FinishSyncTrigger ==
    /\ ctl.pc = "syncPending"
    /\ Patch([ctl.mem EXCEPT !.phase = "Pending"], "idle")
    /\ UNCHANGED <<ann, rel, world>>
----------------------------------------------------------------------------
Replaceable(a) == /\ HasRelease(a)
                  /\ rel[a.ref].phase \in {"Superseded", "RolledBack"}
Held(a) == Replaceable(a) /\ ctl.manual = "no" /\ Exhausted(a, a.ref)

(* handleHealthyPhase: the active release is superseded or rolled back,    *)
(* and retries are left: replace it.                                       *)
ReplaceRelease ==
    /\ ctl.pc = "healthy"
    /\ Replaceable(ctl.mem) /\ ~Held(ctl.mem)
    /\ Goto("supersede")
    /\ UNCHANGED <<ann, rel, world>>

(* handleHealthyPhase, holdExhaustedRelease: poll the source; record it    *)
(* when it is new; a changed source or identity starts a new flow, and an  *)
(* unchanged one leaves the exhausted release held.                        *)
Polled(a) == [a EXCEPT !.hash = head,
                       !.phase = IF PhaseOf(a) = "Complete" THEN "Healthy" ELSE @]
PollSource ==
    /\ ctl.pc = "healthy"
    /\ Replaceable(ctl.mem) => Held(ctl.mem)
    /\ LET a == Polled(ctl.mem)
           changed == \/ ctl.mem.hash \notin {NoHash, head}
                      \/ IdentityChanged(a)
       IN  Patch(a, IF changed THEN "supersede"
                    ELSE IF Held(ctl.mem) THEN "idle"
                    ELSE IF PhaseOf(a) = "Complete" THEN "observe"
                                                    ELSE "observeOnly")
    /\ UNCHANGED <<ann, rel, world>>

(* handleAnalysisFailure: a failed run asks for a rollback unless one is   *)
(* pending; a pending resync is not looked at.                             *)
AnalysisFailed(p) ==
    IF p.rollback = "no" /\ OnFailure = "rollback"
    THEN [p EXCEPT !.rollback = "auto"] ELSE p

(* evaluateHealthyApplication: what analysis and self-heal ask of a        *)
(* completed release after observing it.  Both refuse a second request of  *)
(* their own kind; self-heal also waits for the other kind.                *)
Requested(p, seen) ==
    CASE seen = "drift" /\ p.resync = "no" /\ p.rollback = "no"
                        /\ window = "open"
             -> [p EXCEPT !.resync = "drift"]
      [] seen = "degraded" /\ p.resync = "no" /\ p.rollback = "no"
                           /\ window = "open" /\ OnFailure = "rollback"
             -> [p EXCEPT !.rollback = "auto"]
      [] seen = "analysis" -> AnalysisFailed(p)
      [] OTHER -> p

Promotable(a, seen) == /\ CurrentStage(a) < N
                       /\ CurrentStage(a) \in AutoPromote
                       /\ seen # "degraded"

(* finishCompletedRing / evaluateHealthyApplication, then the promotion    *)
(* decision of promoteToNextRing (ringPromotable).                         *)
Observe(seen) ==
    /\ ctl.pc \in {"observe", "observeOnly"}
    /\ IF seen = "ok" THEN UNCHANGED events ELSE Event(seen)
    /\ rel' = IF /\ PhaseOf(ctl.mem) = "Complete"
                 /\ ctl.mem.phase \in {"Healthy", "Degraded"}
              THEN [rel EXCEPT ![ctl.mem.ref] = Requested(@, seen)]
              ELSE rel
    /\ Patch(ctl.mem, IF ctl.pc = "observe" /\ Promotable(ctl.mem, seen)
                      THEN "promote" ELSE "idle")
    /\ UNCHANGED <<ann, head, window, live, rb, verified, vetoed, overtaken>>

(* promoteToNextRing, first write: create the next ring's release; one     *)
(* that exists already is taken as it is.                                  *)
PromoteToNextRing ==
    /\ ctl.pc = "promote"
    /\ LET next == CurrentStage(ctl.mem) + 1
           r == <<ctl.mem.hash, next>>
       IN  /\ Create(r)
           /\ ctl' = [Holding([ctl.mem EXCEPT !.stage = next, !.ref = r,
                                              !.phase = "Promoting"])
                      EXCEPT !.pc = "advance", !.done = ctl.mem.ref]
    /\ UNCHANGED <<app, ann, world>>

(* promoteToNextRing, second write: updatePhase. *)
RingPromoted ==
    /\ ctl.pc = "advance"
    /\ Patch(ctl.mem, "cas")
    /\ UNCHANGED <<ann, rel, world>>

(* ... whose failure is only logged. *)
RingPromotedFails ==
    /\ ctl.pc = "advance"
    /\ Event("apiError")
    /\ Goto("cas")
    /\ UNCHANGED <<ann, rel, head, window, live, rb, verified, vetoed, overtaken>>

(* promoteToNextRing, third write: persistRingAdvance.  A reference other  *)
(* than the completed release's is left in place.                          *)
PersistRingAdvance ==
    /\ ctl.pc = "cas"
    /\ app' = IF app.ref = ctl.done
              THEN [app EXCEPT !.stage = ctl.mem.stage, !.ref = ctl.mem.ref]
              ELSE app
    /\ ctl' = Idle
    /\ UNCHANGED <<ann, rel, world>>
----------------------------------------------------------------------------
Superseding == ctl.pc \in {"supersede", "supersedeManually"}
Blocked == window = "closed" /\ ctl.pc = "supersede"

(* startNewReleaseFlow outside the sync window: nothing starts. *)
NewFlowBlocked ==
    /\ Superseding /\ Blocked
    /\ Patch(ctl.mem, "idle")
    /\ UNCHANGED <<ann, rel, world>>

(* Mutant: a new flow forgets to restart at the first ring. *)
KeepStage(a) == a
(* startNewReleaseFlow: an automatic flow restarts at the first ring. *)
RestartRings(a) == [a EXCEPT !.stage = IF ctl.pc = "supersede" THEN 0 ELSE @]

(* Mutant: the new flow does not wait for a release in progress. *)
SupersedeWithoutWaiting ==
    /\ Superseding /\ ~Blocked
    /\ ctl' = At(Holding(RestartRings([ctl.mem EXCEPT !.ref = NoRel])), "clear")
    /\ UNCHANGED <<app, ann, rel, world>>

(* startNewReleaseFlow, supersedeCurrentRelease: a finished release is     *)
(* superseded; one still in progress ends the reconcile, nothing written.  *)
SupersedeCurrentRelease ==
    /\ Superseding /\ ~Blocked
    /\ LET a == RestartRings([ctl.mem EXCEPT !.ref = NoRel])
           r == ctl.mem.ref
       IN  IF HasRelease(ctl.mem)
           THEN IF rel[r].phase \in Terminal
                THEN /\ rel' = [rel EXCEPT ![r].phase = "Superseded"]
                     /\ ctl' = At(Holding(a), "clear")
                ELSE ctl' = Idle /\ UNCHANGED rel
           ELSE ctl' = At(Holding(a), "clear") /\ UNCHANGED rel
    /\ UNCHANGED <<app, ann, world>>

(* startNewReleaseFlow: patchAppStatusAllowingReleaseRefClear. *)
StartNewReleaseFlow ==
    /\ ctl.pc = "clear"
    /\ app' = [ctl.mem EXCEPT !.phase = "Pending"]
    /\ ctl' = Idle
    /\ UNCHANGED <<ann, rel, world>>
----------------------------------------------------------------------------
InFlow == ctl.pc = "flow"
Started(a) == PhaseOf(a) # "new"

(* handleActiveRelease: the release's phase as the Application's. *)
AppPhase(phase) ==
    CASE phase = "Complete"   -> "Healthy"
      [] phase = "Failed"     -> "Degraded"
      [] phase = "RolledBack" -> "RolledBack"
      [] OTHER                -> "Promoting"

(* reconcileRelease, handleActiveRelease: follow the current release.  A   *)
(* superseded one has no entry in the phase map and is only waited for.    *)
FollowRelease ==
    /\ InFlow /\ Started(ctl.mem)
    /\ LET ph == PhaseOf(ctl.mem)
       IN  IF ph = "Superseded" THEN Goto("idle")
           ELSE Patch([ctl.mem EXCEPT !.phase = AppPhase(ph)],
                      IF ph = "Complete" THEN "observeOnly" ELSE "idle")
    /\ ClearManual
    /\ UNCHANGED <<rel, world>>

(* reconcileRelease, releaseCreationGate: outside the sync window.         *)
CreationBlocked ==
    /\ InFlow /\ ~Started(ctl.mem)
    /\ window = "closed" /\ ctl.manual = "no"
    /\ Patch([ctl.mem EXCEPT !.phase = "Pending"], "idle")
    /\ UNCHANGED <<ann, rel, world>>

Creating == /\ InFlow /\ ~Started(ctl.mem)
            /\ window = "open" \/ ctl.manual = "yes"

(* reconcileRelease: create the release ... *)
CreateRelease ==
    /\ Creating
    /\ LET r == ReleaseName(ctl.mem)
       IN  /\ ~Exists(r)
           /\ Create(r)
           /\ ctl' = At(Holding([ctl.mem EXCEPT !.ref = r, !.phase = "Promoting"]),
                        "created")
    /\ UNCHANGED <<app, ann, world>>

(* ... and record it. *)
ReleaseCreated ==
    /\ ctl.pc = "created"
    /\ Patch(ctl.mem, "idle")
    /\ ClearManual
    /\ UNCHANGED <<rel, world>>

(* adoptExistingRelease: the release exists and is new or in progress.     *)
AdoptRelease ==
    /\ Creating
    /\ LET r == ReleaseName(ctl.mem)
       IN  /\ Exists(r) /\ rel[r].phase \notin Terminal
           /\ Patch([ctl.mem EXCEPT !.ref = r, !.phase = "Promoting"], "idle")
    /\ ClearManual
    /\ UNCHANGED <<rel, world>>

(* adoptExistingRelease: it ended and its retries are spent: park.         *)
ParkExhausted ==
    /\ Creating
    /\ LET r == ReleaseName(ctl.mem)
       IN  /\ Exists(r) /\ rel[r].phase \in Terminal
           /\ ctl.manual = "no" /\ Exhausted(ctl.mem, r)
           /\ Patch([ctl.mem EXCEPT !.ref = r, !.phase = "RolledBack"], "idle")
    /\ ClearManual
    /\ UNCHANGED <<rel, world>>

(* adoptExistingRelease: it ended, and an operator asks for it or retries  *)
(* are left in the copy just read: another run is decided.                 *)
DecideResync ==
    /\ Creating
    /\ LET r == ReleaseName(ctl.mem)
       IN  /\ Exists(r) /\ rel[r].phase \in Terminal
           /\ ctl.manual = "yes" \/ ~Exhausted(ctl.mem, r)
           /\ ctl' = At(Holding([ctl.mem EXCEPT !.ref = r]), "adopt")
    /\ UNCHANGED <<app, ann, rel, world>>

(* ... first write, requestReleaseResync: the release is read again, and   *)
(* its counter is raised without a second test ...                         *)
ResyncAdopted ==
    /\ ctl.pc = "adopt"
    /\ LET r == ctl.mem.ref
           origin == IF ctl.manual = "yes" THEN "manual" ELSE "auto"
           reset == IF origin = "manual" THEN {r} ELSE {}
       IN  /\ rel' = [rel EXCEPT ![r] = Resynced(rel[r], origin)]
           /\ vetoed' = vetoed \ reset
           /\ overtaken' = overtaken \ reset
    /\ Goto("adoptPending")
    /\ UNCHANGED <<ann, head, window, live, rb, verified, events>>

(* ... second write: phase Pending. *)
FinishAdoption ==
    /\ ctl.pc = "adoptPending"
    /\ Patch([ctl.mem EXCEPT !.phase = "Pending"], "idle")
    /\ ClearManual
    /\ UNCHANGED <<rel, world>>

(* The operator restarts, or a write of the reconcile fails for good: the  *)
(* copy is lost and the next reconcile starts over.                        *)
AbortReconcile ==
    /\ ctl.pc # "idle"
    /\ Event("crash")
    /\ ctl' = Idle
    /\ UNCHANGED <<app, ann, rel, head, window, live, rb, verified, vetoed, overtaken>>
----------------------------------------------------------------------------
(* The Release controller, one release of this Application at a time.      *)
InProgress(r) == rel[r].phase \in {"active", "canarying", "applied"}

(* hasActiveConcurrentRelease: a canarying release does not count. *)
Busy(r) == \E q \in Rel : /\ q # r /\ q[2] = r[2]
                         /\ rel[q].phase \in {"active", "applied"}

(* shouldRollback *)
ShouldRollback(r) ==
    /\ rel[r].phase \notin {"absent", "RolledBack", "Superseded"}
    /\ \/ rel[r].rollback # "no"
       \/ rel[r].phase = "Failed" /\ OnFailure = "rollback"

(* A handler of release r runs unless a resync or a rollback comes first,  *)
(* and no rollback of it is under way.                                     *)
Runs(r) == /\ rel[r].resync = "no"
           /\ ~ShouldRollback(r)
           /\ rb[r].at = "none"

(* handleResyncAnnotation: an ended release runs again. *)
HandleResync(r) ==
    /\ rel[r].resync # "no" /\ rb[r].at = "none"
    /\ rel' = [rel EXCEPT ![r].resync = "no",
                          ![r].phase = IF @ \in Terminal THEN "Pending" ELSE @]
    /\ UNCHANGED <<ctlVars, world>>

(* checkConcurrentRelease: a new release waits for the one in progress.    *)
ParkRelease(r) ==
    /\ rel[r].phase = "new" /\ Runs(r) /\ Busy(r)
    /\ rel' = [rel EXCEPT ![r].phase = "Pending"]
    /\ UNCHANGED <<ctlVars, world>>

(* initiateRelease, handlePendingPhase *)
InitiateRelease(r) ==
    /\ rel[r].phase \in {"new", "Pending"} /\ Runs(r) /\ ~Busy(r)
    /\ rel' = [rel EXCEPT ![r].phase = "active"]
    /\ UNCHANGED <<ctlVars, world>>

(* promote: apply the rendered manifests and keep their snapshot; a canary *)
(* is next where the stage has steps.                                      *)
ApplyManifests(r) ==
    /\ rel[r].phase = "active" /\ Runs(r)
    /\ \E next \in {"canarying", "applied"} :
           rel' = [rel EXCEPT ![r].phase = next, ![r].snapshot = "yes"]
    /\ live' = [live EXCEPT ![r[2]] = r]
    /\ UNCHANGED <<ctlVars, head, window, rb, verified, vetoed, overtaken, events>>

(* reconcileCanary: the canary is over. *)
FinishCanary(r) ==
    /\ rel[r].phase = "canarying" /\ Runs(r)
    /\ rel' = [rel EXCEPT ![r].phase = "applied"]
    /\ UNCHANGED <<ctlVars, world>>

(* Mutant of CompleteRelease: a release completes before it applied. *)
CompleteUnapplied(r) ==
    /\ rel[r].phase = "active" /\ Runs(r)
    /\ rel' = [rel EXCEPT ![r].phase = "Complete", ![r].retries = 0]
    /\ verified' = verified \cup {r}
    /\ overtaken' = overtaken \ {r}
    /\ UNCHANGED <<ctlVars, head, window, live, rb, vetoed, events>>

(* completeRelease: Complete, and the retry counter is cleared. *)
CompleteRelease(r) ==
    /\ rel[r].phase = "applied" /\ Runs(r)
    /\ rel' = [rel EXCEPT ![r].phase = "Complete", ![r].retries = 0]
    /\ verified' = verified \cup {r}
    /\ overtaken' = overtaken \ {r}
    /\ UNCHANGED <<ctlVars, head, window, live, rb, vetoed, events>>

(* failRelease: promotion, verification or canary analysis failed. *)
FailRelease(r) ==
    /\ InProgress(r) /\ Runs(r)
    /\ Event("failure")
    /\ rel' = [rel EXCEPT ![r].phase = "Failed"]
    /\ UNCHANGED <<ctlVars, head, window, live, rb, verified, vetoed, overtaken>>

(* findRollbackTarget: the newest Complete release of the same stage, else *)
(* the newest one with a snapshot that did not fail.                       *)
Candidates(r) == {q \in Rel : /\ q # r /\ q[2] = r[2]
                              /\ rel[q].phase \notin {"absent", "Failed"}
                              /\ rel[q].snapshot = "yes"}
Newest(S) == {q \in S : \A p \in S : rel[p].born <= rel[q].born}
RollbackTarget(r) ==
    LET complete == {q \in Candidates(r) : rel[q].phase = "Complete"}
    IN  IF complete # {} THEN Newest(complete)
        ELSE IF Candidates(r) # {} THEN Newest(Candidates(r)) ELSE {NoRel}

(* Mutant of Stamp: the budget is left alone.                              *)
StampNothing(p) == p
(* markRolledBack spends the automatic retry budget before the status.     *)
Stamp(p) == [p EXCEPT !.retries = MaxRetries]

(* rollback: read the release and find the target.  Without one nothing is *)
(* applied.                                                                *)
RollbackBegin(r) ==
    /\ rb[r].at = "none"
    /\ rel[r].resync = "no" /\ ShouldRollback(r)
    /\ \E t \in RollbackTarget(r) :
           rb' = [rb EXCEPT ![r] =
                    [at     |-> IF t = NoRel THEN "applied" ELSE "begun",
                     target |-> t,
                     spent  |-> IF rel[r].retries = MaxRetries THEN "yes" ELSE "no"]]
    /\ UNCHANGED <<ctlVars, rel, head, window, live, verified, vetoed, overtaken, events>>

(* rollback: apply the target's snapshot. *)
RollbackApply(r) ==
    /\ rb[r].at = "begun"
    /\ live' = [live EXCEPT ![r[2]] = rb[r].target]
    /\ rb' = [rb EXCEPT ![r].at = "applied"]
    /\ UNCHANGED <<ctlVars, rel, head, window, verified, vetoed, overtaken, events>>

(* Another run of r is decided and not yet asked for; it is either. *)
Decided(r) == ctl.pc = "adopt" /\ ctl.mem.ref = r
Asked(r) == rel[r].resync # "no" \/ Decided(r)

(* markRolledBack, first write: the stamp, a merge patch without a lock,   *)
(* left out when the copy is at the cap already.                           *)
RollbackStamp(r) ==
    /\ rb[r].at = "applied"
    /\ rel' = IF rb[r].spent = "yes" THEN rel ELSE [rel EXCEPT ![r] = Stamp(rel[r])]
    /\ rb' = [rb EXCEPT ![r].at = "stamped"]
    /\ vetoed' = IF Asked(r) THEN vetoed ELSE vetoed \cup {r}
    /\ overtaken' = IF Decided(r) THEN overtaken \cup {r} ELSE overtaken
    /\ UNCHANGED <<ctlVars, head, window, live, verified, events>>

(* markRolledBack: the status. *)
MarkRolledBack(r) ==
    /\ rb[r].at = "stamped"
    /\ rel' = [rel EXCEPT ![r].phase = "RolledBack"]
    /\ rb' = [rb EXCEPT ![r] = IF rb[r].target = NoRel THEN NoRollback
                               ELSE [rb[r] EXCEPT !.at = "marked"]]
    /\ UNCHANGED <<ctlVars, head, window, live, verified, vetoed, overtaken, events>>

(* patchApplicationReleaseRef: the Application points at the target. *)
PatchApplicationReleaseRef(r) ==
    /\ rb[r].at = "marked"
    /\ app' = [app EXCEPT !.ref = rb[r].target]
    /\ rb' = [rb EXCEPT ![r] = NoRollback]
    /\ UNCHANGED <<ctl, ann, rel, head, window, live, verified, vetoed, overtaken, events>>

(* The operator restarts, or a write fails, in the middle of a rollback. *)
AbortRollback(r) ==
    /\ rb[r].at # "none"
    /\ Event("crash")
    /\ rb' = [rb EXCEPT ![r] = NoRollback]
    /\ vetoed' = IF rb[r].at = "stamped" THEN vetoed \ {r} ELSE vetoed
    /\ UNCHANGED <<ctlVars, rel, head, window, live, verified, overtaken>>
----------------------------------------------------------------------------
(* The source moves. *)
Commit ==
    /\ Event("commit")
    /\ \E h \in Sources : <<head, h>> \in Commits /\ head' = h
    /\ UNCHANGED <<ctlVars, rel, window, live, rb, verified, vetoed, overtaken>>

(* A webhook sets the sync trigger; the sync API sets manual-sync too.     *)
Sync(manual) ==
    /\ Event(IF manual = "yes" THEN "manualSync" ELSE "sync")
    /\ ann' = [sync |-> events + 1,
               manual |-> IF manual = "yes" THEN "yes" ELSE ann.manual]
    /\ UNCHANGED <<ctl, app, rel, head, window, live, rb, verified, vetoed, overtaken>>

(* RollbackRelease of the API. *)
RollbackRelease(r) ==
    /\ Exists(r)
    /\ Event("rollback")
    /\ rel' = [rel EXCEPT ![r].rollback = "human"]
    /\ UNCHANGED <<ctlVars, head, window, live, rb, verified, vetoed, overtaken>>

(* An operator annotates paprika.io/resync on the release itself. *)
ResyncRelease(r) ==
    /\ Exists(r)
    /\ Event("resync")
    /\ rel' = [rel EXCEPT ![r].resync = "manual"]
    /\ vetoed' = vetoed \ {r}
    /\ UNCHANGED <<ctlVars, head, window, live, rb, verified, overtaken>>

CloseWindow ==
    /\ window = "open"
    /\ Event("window")
    /\ window' = "closed"
    /\ UNCHANGED <<ctlVars, rel, head, live, rb, verified, vetoed, overtaken>>

OpenWindow ==
    /\ window = "closed"
    /\ window' = "open"
    /\ UNCHANGED <<ctlVars, rel, head, live, rb, verified, vetoed, overtaken, events>>
----------------------------------------------------------------------------
AppStep ==
    \/ Reconcile
    \/ ConsumeSyncTrigger \/ RecordSyncedSource
    \/ RequestCurrentReleaseResync \/ FinishSyncTrigger
    \/ ReplaceRelease \/ PollSource \/ Observe("ok")
    \/ PromoteToNextRing \/ RingPromoted \/ PersistRingAdvance
    \/ NewFlowBlocked \/ SupersedeCurrentRelease \/ StartNewReleaseFlow
    \/ FollowRelease \/ CreationBlocked \/ CreateRelease \/ ReleaseCreated
    \/ AdoptRelease \/ ParkExhausted
    \/ DecideResync \/ ResyncAdopted \/ FinishAdoption

ReleaseStep(r) ==
    \/ HandleResync(r) \/ ParkRelease(r) \/ InitiateRelease(r)
    \/ ApplyManifests(r) \/ FinishCanary(r) \/ CompleteRelease(r)
    \/ RollbackBegin(r) \/ RollbackApply(r) \/ RollbackStamp(r)
    \/ MarkRolledBack(r) \/ PatchApplicationReleaseRef(r)

Environment ==
    \/ \E seen \in {"drift", "degraded", "analysis"} : Observe(seen)
    \/ RingPromotedFails \/ AbortReconcile
    \/ \E r \in Rel : \/ FailRelease(r) \/ AbortRollback(r)
                      \/ RollbackRelease(r) \/ ResyncRelease(r)
    \/ Commit
    \/ \E manual \in {"no", "yes"} : Sync(manual)
    \/ CloseWindow

Next == \/ AppStep
        \/ \E r \in Rel : ReleaseStep(r)
        \/ OpenWindow
        \/ Environment

(* Both controllers requeue what they have not finished, and a closed sync *)
(* window opens again.                                                     *)
Fairness == /\ WF_vars(AppStep)
            /\ \A r \in Rel : WF_vars(ReleaseStep(r))
            /\ WF_vars(OpenWindow)

Spec == Init /\ [][Next]_vars
FairSpec == Spec /\ Fairness
----------------------------------------------------------------------------
TypeOK ==
    /\ head \in Sources
    /\ window \in {"open", "closed"}
    /\ app \in App
    /\ ann \in Ann
    /\ ctl \in Ctl
    /\ rel \in [Rel -> Release]
    /\ live \in [Rings -> Refs]
    /\ rb \in [Rel -> Rollback]
    /\ verified \subseteq Rel
    /\ vetoed \subseteq Rel
    /\ overtaken \subseteq Rel
    /\ events \in 0..MaxEvents

(* What reaches a ring was verified on the ring before it: whatever        *)
(* crashes, failures, rollbacks and sync windows come in between, a        *)
(* release is created for ring k + 1 only if the same source completed a   *)
(* release of ring k (promoteToNextRing; the reset in startNewReleaseFlow).*)
RingOrder == \A r \in Rel : (Exists(r) /\ r[2] > 1) => <<r[1], r[2] - 1>> \in verified

(* A release that was rolled back runs again only when an operator asks    *)
(* for it, unless its next run was already asked for or decided when the   *)
(* rollback stamped the cap: no later interleaving of the rollback's       *)
(* writes, a crash or another rollback with the replacement flow           *)
(* resurrects it (markRolledBack stamps the cap before the status).        *)
NoAutoResurrection ==
    \A r \in vetoed : rb[r].at = "stamped" \/ rel[r].phase \in {"RolledBack", "Superseded"}

(* The counter of automatic retries stays within the cap, which is not     *)
(* tested where it is raised: only a stamp that falls between a retry's    *)
(* test and its write lets it pass the cap, and then by one run            *)
(* (releaseAutoRetriesExhausted, requestReleaseResync, markRolledBack).    *)
RetryCap ==
    \A r \in Rel : \/ rel[r].retries <= MaxRetries
                  \/ (r \in overtaken /\ rel[r].retries = MaxRetries + 1)

(* The inductive forms.  The ring a promotion starts from is not the last. *)
(* A decided retry has budget left, unless a stamp overtook it.  While a   *)
(* rollback nobody joined is under way its release stays rolled back by    *)
(* request, and its counter as the copy has it.  A vetoed release has its  *)
(* budget spent and no run asked for: it has ended, or its rollback is     *)
(* about to be recorded and cannot be joined by a drift resync.            *)
PromoteInv == ctl.pc = "promote" => CurrentStage(ctl.mem) < N
DecidedInv ==
    \A r \in Rel : Decided(r) =>
        /\ Exists(r)
        /\ \/ ctl.manual = "yes"
           \/ rel[r].retries < MaxRetries
           \/ (r \in overtaken /\ rel[r].retries <= MaxRetries)
RollbackInv ==
    \A r \in Rel : rb[r].at \in {"begun", "applied", "stamped"} =>
        /\ Exists(r)
        /\ rel[r].resync = "no" =>
              /\ rel[r].phase = "Complete" => rel[r].rollback # "no"
              /\ rb[r].spent = "yes" => rel[r].retries = MaxRetries
VetoInv ==
    \A r \in vetoed :
        /\ rel[r].retries = MaxRetries
        /\ rel[r].resync = "no"
        /\ Decided(r) => ctl.manual = "yes"
        /\ rb[r].at = "stamped" \/ rel[r].phase \in {"RolledBack", "Superseded"}
BudgetInv == TypeOK /\ PromoteInv /\ RetryCap /\ DecidedInv /\ RollbackInv /\ VetoInv

(* The ring a status copy records was reached by its source.  A resting    *)
(* status may name a newer source than the release it refers to: nothing   *)
(* is created from it before the flow restarts at the first ring.          *)
Reached(a) == a.stage > 1 => <<a.hash, a.stage - 1>> \in verified
Resting(a) == a.phase \in {"Healthy", "RolledBack"}

CompletedInv ==
    /\ \A r \in Rel : rel[r].phase = "Complete" => r \in verified
    /\ \A r \in Rel : rb[r].at # "none" => Exists(r)
StageInv ==
    /\ Resting(app) \/ Reached(app)
    /\ ctl.pc \in {"flow", "created", "adopt", "adoptPending", "advance", "cas", "clear"}
          => Reached(ctl.mem)
    /\ ctl.pc \in {"healthy", "record", "supersede", "observe", "observeOnly", "promote"}
          => Resting(ctl.mem)
    /\ ctl.pc = "consume" => app.phase = ctl.mem.phase
    /\ ctl.pc \in {"observe", "promote"} => ReleaseName(ctl.mem) \in verified
    /\ ctl.pc \in {"observe", "promote", "advance", "cas"} => app.hash = ctl.mem.hash

(* A manual sync keeps the ring, so these hold where none happens. *)
UnattendedInv == /\ ann.manual = "no" /\ ctl.manual = "no"
                 /\ ctl.pc \notin {"resync", "syncPending", "supersedeManually"}
RingInv == UnattendedInv /\ CompletedInv /\ StageInv /\ RingOrder

Settled(r) == /\ rel[r].phase = "Complete"
              /\ rel[r].resync = "no" /\ rel[r].rollback = "no"
              /\ rb[r].at = "none"

(* When the Application reports Healthy on a completed release with no     *)
(* request pending, that release is what its ring runs.                    *)
HealthyMeansDeployed ==
    (app.phase = "Healthy" /\ HasRelease(app) /\ Settled(app.ref)) =>
        live[app.ref[2]] = app.ref

Delivered == /\ app.phase = "Healthy"
             /\ \A k \in Rings : live[k] = <<head, k>>

(* Once the inputs cease, the application rests Healthy on the last ring   *)
(* and every ring runs the newest source, whatever flow the commits,       *)
(* triggers and failing writes interrupted (handleHealthyPhase,            *)
(* promoteToNextRing).                                                     *)
DeliversEverywhere == <>[]Delivered

(* One ring deploys at a time: a flow for a new commit never starts on the *)
(* first ring while a later one is still deploying (startNewReleaseFlow    *)
(* waits for the release in progress).                                     *)
OneRingAtATime == \A p, q \in Rel : (InProgress(p) /\ InProgress(q)) => p[2] = q[2]
=============================================================================
