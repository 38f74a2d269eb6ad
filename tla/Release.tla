------------------------------ MODULE Release ------------------------------
(***************************************************************************)
(* The Release controller (internal/controller/pipelines/                  *)
(* release_controller.go, canary_readiness.go) on the releases of one      *)
(* stage: admission, the approval gate, promotion, the canary ladder,      *)
(* verification, resync and rollback.                                      *)
(*                                                                         *)
(* The controller reconciles different releases concurrently (five         *)
(* workers), one release by one worker at a time.  A worker's step ends at *)
(* every write to the API server or to the target cluster, so that other   *)
(* workers, operators and crashes come in between.  A release's status is  *)
(* written by its own worker, and by the Application that supersedes it.   *)
(*                                                                         *)
(* Time is abstracted to the progress deadline having passed or not; the   *)
(* step interval is waiting.  Whatever returns an error or a requeue       *)
(* without writing anything is a step that does not happen.                *)
(***************************************************************************)
EXTENDS Naturals

CONSTANTS
    R,          \* number of releases; they are numbered in creation order
    L,          \* length of the stage's canary.steps; 0: no canary
    Weights,    \* canary.steps
    Gate,       \* "manual": a required manual approval gate, or "none"
    Checks,     \* canary.analysis: "none", "report" or "rollbackOnFail"
    OnFailure,  \* spec.onFailure.action: "none" or "rollback"
    Inputs,     \* the operators', the cluster's and the platform's inputs
    MaxEvents   \* bound on inputs

ASSUME CountAssumption == R \in Nat \ {0} /\ MaxEvents \in Nat
ASSUME StepsAssumption == L \in Nat /\ Weights \in [1..L -> 0..100]
ASSUME ConfigAssumption == /\ Gate \in {"none", "manual"}
                           /\ Checks \in {"none", "report", "rollbackOnFail"}
                           /\ OnFailure \in {"none", "rollback"}

Releases == 1..R
Steps == 0..L
Percent == 0..100

VARIABLES
    rel,      \* [Releases -> the stored release]
    wrk,      \* [Releases -> the worker reconciling it]
    gate,     \* the gate's entry in the Application's status.gates
    appCopy,  \* the entry in the copy an Application reconcile works on
    stage,    \* what was last applied to the stage
    late,     \* [Releases -> whether the progress deadline has passed]
    vouched,  \* steps of this attempt seen converged by the gate (history)
    flunked,  \* releases with a failed analysis in this attempt (history)
    skipped,  \* releases that lost their ladder in this attempt (history)
    said,     \* the operators' decisions on the gate (history)
    events    \* inputs so far

vars == <<rel, wrk, gate, appCopy, stage, late, vouched, flunked, skipped, said, events>>

Phases == {"absent", "new", "Pending", "Promoting", "AwaitingApproval", "Canarying",
           "Verifying", "Complete", "Failed", "RolledBack", "Superseded"}

(* isReleaseTerminal *)
Terminal == {"Complete", "Failed", "RolledBack", "Superseded"}

GateStatus == {"unset", "Pending", "Approved", "Rejected"}

(* idx, weight, started: canaryStepIndex, canaryWeight, and whether        *)
(* canaryStepStartedAt is set.                                             *)
Status == [phase    : Phases,
           idx      : Steps,
           weight   : Percent,
           started  : {"no", "yes"},
           snapshot : {"no", "yes"},
           resync   : {"no", "yes"},
           rollback : {"no", "yes"}]

(* pc names what the worker has done and not recorded yet. *)
Worker == [pc     : {"idle", "resyncing", "admitted", "gates", "approved", "applied",
                     "stepped", "promote", "promoted", "restored"},
           seen   : GateStatus,
           target : 0..R]

Absent == [phase |-> "absent", idx |-> 0, weight |-> 0, started |-> "no",
           snapshot |-> "no", resync |-> "no", rollback |-> "no"]
Idle == [pc |-> "idle", seen |-> "unset", target |-> 0]

Init == /\ rel = [r \in Releases |-> Absent]
        /\ wrk = [r \in Releases |-> Idle]
        /\ gate = "unset"
        /\ appCopy = "unset"
        /\ stage = [rel |-> 0, weight |-> 0, ready |-> "yes"]
        /\ late = [r \in Releases |-> "no"]
        /\ vouched = [r \in Releases |-> {}]
        /\ flunked = {}
        /\ skipped = {}
        /\ said = {}
        /\ events = 0
----------------------------------------------------------------------------
(* Inputs are bounded by MaxEvents. *)
Event(kind) == /\ kind \in Inputs
               /\ events < MaxEvents
               /\ events' = events + 1

In(r, phase) == rel[r].phase = phase
At(r, pc) == wrk[r].pc = pc
Write(r, status) == rel' = [rel EXCEPT ![r] = status]
Goto(r, pc) == wrk' = [wrk EXCEPT ![r] = [@ EXCEPT !.pc = pc]]
Finish(r) == wrk' = [wrk EXCEPT ![r] = Idle]
Fail(r) == Write(r, [rel[r] EXCEPT !.phase = "Failed"])
Apply(r, w) == stage' = [rel |-> r, weight |-> w, ready |-> "no"]
approvals == <<gate, appCopy, said>>
canary == <<stage, late, vouched, flunked, skipped>>

(* shouldRollback.  rollback = "yes" is the annotation together with the   *)
(* rollback action, which RollbackRelease sets along with it.              *)
ShouldRollback(r) ==
    /\ rel[r].phase \notin {"absent", "RolledBack", "Superseded"}
    /\ rel[r].rollback = "yes" \/ (In(r, "Failed") /\ OnFailure = "rollback")

(* reconcileReleasePhase: a resync and a rollback come before the phases. *)
Runs(r) == At(r, "idle") /\ rel[r].resync = "no" /\ ~ShouldRollback(r)

(* handleResyncAnnotation, the new attempt's status. *)
Restarted(p) == [p EXCEPT !.phase = "Pending", !.idx = 0, !.weight = 0, !.started = "no"]

(* handleResyncAnnotation, first write: an ended release starts over; a    *)
(* running one is left alone.                                              *)
HandleResync(r) ==
    /\ At(r, "idle") /\ rel[r].resync = "yes"
    /\ IF rel[r].phase \in Terminal
       THEN /\ Write(r, Restarted(rel[r]))
            /\ vouched' = [vouched EXCEPT ![r] = {}]
            /\ flunked' = flunked \ {r}
            /\ skipped' = skipped \ {r}
       ELSE UNCHANGED <<rel, vouched, flunked, skipped>>
    /\ Goto(r, "resyncing")
    /\ UNCHANGED <<approvals, stage, late, events>>

(* handleResyncAnnotation, second write: the annotation is removed. *)
ClearResync(r) ==
    /\ At(r, "resyncing")
    /\ Write(r, [rel[r] EXCEPT !.resync = "no"])
    /\ Finish(r)
    /\ UNCHANGED <<approvals, canary, events>>
----------------------------------------------------------------------------
(* Mutant of Busy: a release that only waits is counted too. *)
BusyIfAnyWaits(r) == \E q \in Releases \ {r} : rel[q].phase \notin Terminal \cup {"absent"}

(* hasActiveConcurrentRelease: a canarying release is not counted. *)
Busy(r) == \E q \in Releases \ {r} :
    rel[q].phase \in {"Promoting", "Verifying", "AwaitingApproval"}

(* checkConcurrentRelease: a new release behind an active one is parked.   *)
Park(r) ==
    /\ Runs(r) /\ In(r, "new") /\ Busy(r)
    /\ Write(r, [rel[r] EXCEPT !.phase = "Pending"])
    /\ UNCHANGED <<wrk, approvals, canary, events>>

(* handlePendingPhase, initiateRelease: the list shows no active release.. *)
CheckConcurrent(r) ==
    /\ Runs(r) /\ rel[r].phase \in {"new", "Pending"} /\ ~Busy(r)
    /\ Goto(r, "admitted")
    /\ UNCHANGED <<rel, approvals, canary, events>>

(* .. and the release is promoted on the strength of that list.            *)
Admit(r) ==
    /\ At(r, "admitted")
    /\ Write(r, [rel[r] EXCEPT !.phase = "Promoting"])
    /\ Finish(r)
    /\ UNCHANGED <<approvals, canary, events>>

(* Mutant of Evaluate: a gate without a status passes. *)
EvaluateOpen(status) == IF status = "unset" THEN "Approved" ELSE status

(* ApprovalGateEvaluator.Evaluate of a manual gate. *)
Evaluate(status) == IF status \in {"Approved", "Rejected"} THEN status ELSE "Pending"

(* checkApprovalGates: read the Application and evaluate the gate ..       *)
CheckApprovalGates(r) ==
    /\ Runs(r) /\ rel[r].phase \in {"Promoting", "AwaitingApproval"}
    /\ wrk' = [wrk EXCEPT ![r] =
                 IF Gate = "manual" THEN [@ EXCEPT !.pc = "gates", !.seen = Evaluate(gate)]
                                    ELSE [@ EXCEPT !.pc = "approved"]]
    /\ UNCHANGED <<rel, approvals, canary, events>>

(* Mutant of AfterGates: only a rejection is looked at. *)
AfterGatesUnlessRejected(seen) == IF seen = "Rejected" THEN "Failed" ELSE "Promoting"

(* handlePromotingPhase, handleAwaitingApprovalPhase: the phase a gate     *)
(* result leads to.                                                        *)
AfterGates(seen) == CASE seen = "Approved" -> "Promoting"
                      [] seen = "Rejected" -> "Failed"
                      [] OTHER             -> "AwaitingApproval"

(* .. syncApplicationGateStatus overwrites the stored statuses with the    *)
(* evaluated ones.  A promoting release goes on to its promotion.          *)
SyncApplicationGateStatus(r) ==
    /\ At(r, "gates")
    /\ LET seen == wrk[r].seen
           after == AfterGates(seen)
       IN  /\ gate' = seen
           /\ Write(r, [rel[r] EXCEPT !.phase = after])
           /\ IF In(r, "Promoting") /\ after = "Promoting"
              THEN Goto(r, "approved") ELSE Finish(r)
    /\ UNCHANGED <<appCopy, said, canary, events>>
----------------------------------------------------------------------------
(* promote: render, snapshot, and apply the steady-state manifests.        *)
Promote(r) ==
    /\ At(r, "approved")
    /\ Apply(r, 100)
    /\ Goto(r, "applied")
    /\ UNCHANGED <<rel, approvals, late, vouched, flunked, skipped, events>>

(* promote takes the snapshot before it applies; what it then writes, a    *)
(* wait or a failure, records it.                                          *)
Unfinished(r, phase) ==
    /\ wrk[r].pc \in {"approved", "applied"}
    /\ \E snapshot \in IF At(r, "applied") THEN {"yes"} ELSE {rel[r].snapshot, "yes"} :
          Write(r, [rel[r] EXCEPT !.phase = phase, !.snapshot = snapshot])
    /\ Finish(r)

(* promote waits for hooks, sync waves, management policies or the         *)
(* conftest gate, advanceAfterPromotion for the rollout's policies: the    *)
(* release stays Promoting.                                                *)
PromoteWaits(r) ==
    /\ Unfinished(r, "Promoting")
    /\ Event("wait")
    /\ UNCHANGED <<approvals, canary>>

(* promote or the gates' lookup fails, before or after the apply.          *)
PromotionFails(r) ==
    /\ Unfinished(r, "Failed")
    /\ Event("failure")
    /\ UNCHANGED <<approvals, canary>>

(* advanceAfterPromotion: the canary ladder, or straight to verification.  *)
Promoted(p) ==
    IF L = 0 THEN [p EXCEPT !.phase = "Verifying", !.snapshot = "yes"]
    ELSE [p EXCEPT !.phase = "Canarying", !.snapshot = "yes",
                   !.idx = 0, !.weight = Weights[1]]

AdvanceAfterPromotion(r) ==
    /\ At(r, "applied")
    /\ Write(r, Promoted(rel[r]))
    /\ Finish(r)
    /\ UNCHANGED <<approvals, canary, events>>

(* advanceAfterPromotion when the Stage cannot be read, or has no canary   *)
(* steps any more: stageErr is not looked at again, and the release is     *)
(* verified without a ladder.                                              *)
AdvanceWithoutStage(r) ==
    /\ At(r, "applied")
    /\ Event("stage")
    /\ Write(r, [rel[r] EXCEPT !.phase = "Verifying", !.snapshot = "yes"])
    /\ skipped' = skipped \cup {r}
    /\ Finish(r)
    /\ UNCHANGED <<approvals, stage, late, vouched, flunked>>

(* reconcileCanary, transitionToVerifying: the Stage's canary steps were   *)
(* removed while the release climbed them.                                 *)
TransitionToVerifying(r) ==
    /\ Runs(r) /\ In(r, "Canarying")
    /\ Event("stage")
    /\ Write(r, [rel[r] EXCEPT !.phase = "Verifying"])
    /\ skipped' = skipped \cup {r}
    /\ UNCHANGED <<wrk, approvals, stage, late, vouched, flunked>>
----------------------------------------------------------------------------
(* Mutant of GateOpen: the workloads are not looked at. *)
GateAlwaysOpen(r) == TRUE

(* gateCanaryAdvance: nothing applied yet, or the workloads converged.     *)
GateOpen(r) == rel[r].started = "no" \/ stage.ready = "yes"

(* What the open gate has shown: the current step runs and is ready.       *)
Vouch(r) == vouched' = IF rel[r].started = "yes" /\ stage.rel = r
                          /\ stage.weight = rel[r].weight /\ stage.ready = "yes"
                       THEN [vouched EXCEPT ![r] = @ \cup {rel[r].idx}]
                       ELSE vouched

Climbing(r) == Runs(r) /\ In(r, "Canarying") /\ rel[r].idx < L

(* reconcileCanary, advanceCanaryStep: the gate is open; the analysis of   *)
(* the step before, if any, passed or is only reported; the next weight is *)
(* applied.                                                                *)
ApplyCanaryWeight(r) ==
    /\ Climbing(r) /\ GateOpen(r)
    /\ Apply(r, Weights[rel[r].idx + 1])
    /\ Goto(r, "stepped")
    /\ Vouch(r)
    /\ \/ UNCHANGED <<flunked, events>>
       \/ /\ Checks = "report" /\ rel[r].idx > 0
          /\ Event("analysis")
          /\ flunked' = flunked \cup {r}
    /\ UNCHANGED <<rel, approvals, late, skipped>>

(* Mutant of HandleAnalysisRollback: the failure is only reported. *)
AnalysisOnlyReported(r) ==
    /\ Climbing(r) /\ GateOpen(r)
    /\ Checks = "rollbackOnFail" /\ rel[r].idx > 0
    /\ Event("analysis")
    /\ flunked' = flunked \cup {r}
    /\ Vouch(r)
    /\ UNCHANGED <<rel, wrk, approvals, stage, late, skipped>>

(* handleAnalysisRollback: a failed check fails the release. *)
HandleAnalysisRollback(r) ==
    /\ Climbing(r) /\ GateOpen(r)
    /\ Checks = "rollbackOnFail" /\ rel[r].idx > 0
    /\ Event("analysis")
    /\ flunked' = flunked \cup {r}
    /\ Fail(r)
    /\ Vouch(r)
    /\ UNCHANGED <<wrk, approvals, stage, late, skipped>>

(* advanceCanaryStep: the step is recorded before any promotion. *)
Stepped(p) == [p EXCEPT !.weight = Weights[p.idx + 1], !.idx = p.idx + 1,
                        !.started = "yes"]

(* canPromoteCanary: the last step, or full weight. *)
CanPromote(idx) == idx >= L \/ Weights[idx] >= 100

PersistStep(r) ==
    /\ At(r, "stepped")
    /\ Write(r, Stepped(rel[r]))
    /\ late' = [late EXCEPT ![r] = "no"]
    /\ IF CanPromote(rel[r].idx + 1) THEN Goto(r, "promote") ELSE Finish(r)
    /\ UNCHANGED <<approvals, stage, vouched, flunked, skipped, events>>

(* handleCanaryPromotion runs right after the last step, or, when it had   *)
(* to wait, in a later reconcile.                                          *)
AtPromotion(r) == \/ At(r, "promote")
                  \/ Runs(r) /\ In(r, "Canarying") /\ rel[r].idx >= L

(* promoteCanary: the steady-state manifests, and the canary is removed.   *)
PromoteCanary(r) ==
    /\ AtPromotion(r) /\ GateOpen(r)
    /\ Apply(r, 100)
    /\ Goto(r, "promoted")
    /\ Vouch(r)
    /\ UNCHANGED <<rel, approvals, late, flunked, skipped, events>>

(* handleCanaryPromotion: the workloads are not ready; try again later.    *)
PromotionWaits(r) ==
    /\ At(r, "promote") /\ ~GateOpen(r) /\ late[r] = "no"
    /\ Finish(r)
    /\ UNCHANGED <<rel, approvals, canary, events>>

(* handleCanaryPromotion: promoteCanary fails. *)
CanaryPromotionFails(r) ==
    /\ AtPromotion(r) /\ GateOpen(r)
    /\ Event("failure")
    /\ Fail(r)
    /\ Finish(r)
    /\ UNCHANGED <<approvals, canary>>

(* handleCanaryPromotion: the promotion is recorded. *)
PersistPromotion(r) ==
    /\ At(r, "promoted")
    /\ Write(r, [rel[r] EXCEPT !.phase = "Verifying", !.weight = 100])
    /\ Finish(r)
    /\ UNCHANGED <<approvals, canary, events>>

(* failCanaryProgressDeadline *)
FailCanaryProgressDeadline(r) ==
    /\ Climbing(r) \/ AtPromotion(r)
    /\ ~GateOpen(r) /\ late[r] = "yes"
    /\ Fail(r)
    /\ Finish(r)
    /\ UNCHANGED <<approvals, canary, events>>

(* handleVerifyingPhase, completeRelease *)
CompleteRelease(r) ==
    /\ Runs(r) /\ In(r, "Verifying")
    /\ Write(r, [rel[r] EXCEPT !.phase = "Complete"])
    /\ UNCHANGED <<wrk, approvals, canary, events>>

(* handleVerifyingPhase, failRelease: a verification gate failed. *)
VerificationFails(r) ==
    /\ Runs(r) /\ In(r, "Verifying")
    /\ Event("failure")
    /\ Fail(r)
    /\ UNCHANGED <<wrk, approvals, canary>>
----------------------------------------------------------------------------
(* collectRollbackCandidates: another release of the stage that did not    *)
(* fail and has a snapshot.                                                *)
Candidates(r) == {q \in Releases \ {r} : /\ rel[q].phase \notin {"absent", "Failed"}
                                         /\ rel[q].snapshot = "yes"}
Newest(S) == {q \in S : \A p \in S : p <= q}

(* findRollbackTarget: the newest complete one, else the newest, else none *)
(* (0).                                                                    *)
RollbackTarget(r) ==
    LET complete == {q \in Candidates(r) : In(q, "Complete")}
    IN  IF complete # {} THEN Newest(complete)
        ELSE IF Candidates(r) # {} THEN Newest(Candidates(r)) ELSE {0}

(* rollback: the target's snapshot is applied .. *)
Rollback(r) ==
    /\ At(r, "idle") /\ rel[r].resync = "no" /\ ShouldRollback(r)
    /\ \E t \in RollbackTarget(r) :
           /\ IF t = 0 THEN UNCHANGED stage ELSE Apply(t, 100)
           /\ wrk' = [wrk EXCEPT ![r] = [@ EXCEPT !.pc = "restored", !.target = t]]
    /\ UNCHANGED <<rel, approvals, late, vouched, flunked, skipped, events>>

(* .. and markRolledBack records it. *)
MarkRolledBack(r) ==
    /\ At(r, "restored")
    /\ Write(r, [rel[r] EXCEPT !.phase = "RolledBack"])
    /\ Finish(r)
    /\ UNCHANGED <<approvals, canary, events>>

(* The operator process restarts while it reconciles the release. *)
Crash(r) ==
    /\ ~At(r, "idle")
    /\ Event("crash")
    /\ Finish(r)
    /\ UNCHANGED <<rel, approvals, canary>>
----------------------------------------------------------------------------
(* An Application flow or a bundle publisher creates the next release. *)
CreateRelease(r) ==
    /\ In(r, "absent")
    /\ \A q \in Releases : q < r => ~In(q, "absent")
    /\ Event("create")
    /\ Write(r, [rel[r] EXCEPT !.phase = "new"])
    /\ UNCHANGED <<wrk, approvals, canary>>

(* supersedeCurrentRelease: an ended release gives way to a newer flow.    *)
Supersede(r) ==
    /\ rel[r].phase \in Terminal \ {"Superseded"}
    /\ Event("supersede")
    /\ Write(r, [rel[r] EXCEPT !.phase = "Superseded"])
    /\ UNCHANGED <<wrk, approvals, canary>>

(* requestReleaseResync removes the rollback annotation; an operator who   *)
(* annotates the Release directly leaves it.                               *)
RequestResync(r) ==
    /\ ~In(r, "absent")
    /\ Event("resync")
    /\ \E rollback \in {rel[r].rollback, "no"} :
          Write(r, [rel[r] EXCEPT !.resync = "yes", !.rollback = rollback])
    /\ UNCHANGED <<wrk, approvals, canary>>

RollbackRelease(r) ==
    /\ ~In(r, "absent")
    /\ Event("rollback")
    /\ Write(r, [rel[r] EXCEPT !.rollback = "yes"])
    /\ UNCHANGED <<wrk, approvals, canary>>

(* ApproveGate, RejectGate: the gate must be listed.  Approving counts for *)
(* the releases that wait.                                                 *)
DecideGate(status) ==
    /\ gate # "unset"
    /\ Event("gate")
    /\ gate' = status
    /\ said' = said \cup {status}
    /\ UNCHANGED <<rel, wrk, appCopy, canary>>

(* An Application reconcile reads the Application ..                       *)
ReadApplication ==
    /\ Event("app")
    /\ appCopy' = gate
    /\ UNCHANGED <<rel, wrk, gate, said, canary>>

(* .. and writes its whole status back; adoptConcurrentStatus keeps the    *)
(* stored gates only if the copy has none.                                 *)
WriteApplication ==
    /\ appCopy # "unset"
    /\ gate' = appCopy
    /\ appCopy' = "unset"
    /\ UNCHANGED <<rel, wrk, said, canary, events>>

(* The workloads of what was last applied become ready, or break. *)
Converge ==
    /\ stage.ready = "no"
    /\ stage' = [stage EXCEPT !.ready = "yes"]
    /\ UNCHANGED <<rel, wrk, approvals, late, vouched, flunked, skipped, events>>

Break ==
    /\ stage.ready = "yes"
    /\ Event("break")
    /\ stage' = [stage EXCEPT !.ready = "no"]
    /\ UNCHANGED <<rel, wrk, approvals, late, vouched, flunked, skipped>>

DeadlinePasses(r) ==
    /\ In(r, "Canarying") /\ rel[r].started = "yes" /\ late[r] = "no"
    /\ late' = [late EXCEPT ![r] = "yes"]
    /\ UNCHANGED <<rel, wrk, approvals, stage, vouched, flunked, skipped, events>>
----------------------------------------------------------------------------
WorkerStep(r) ==
    \/ HandleResync(r) \/ ClearResync(r)
    \/ Park(r) \/ CheckConcurrent(r) \/ Admit(r)
    \/ CheckApprovalGates(r) \/ SyncApplicationGateStatus(r)
    \/ Promote(r) \/ AdvanceAfterPromotion(r)
    \/ ApplyCanaryWeight(r) \/ PersistStep(r)
    \/ PromoteCanary(r) \/ PromotionWaits(r) \/ PersistPromotion(r)
    \/ FailCanaryProgressDeadline(r)
    \/ CompleteRelease(r)
    \/ Rollback(r) \/ MarkRolledBack(r)

Mishap(r) ==
    \/ PromoteWaits(r) \/ PromotionFails(r) \/ HandleAnalysisRollback(r)
    \/ CanaryPromotionFails(r) \/ VerificationFails(r) \/ Crash(r)
    \/ AdvanceWithoutStage(r) \/ TransitionToVerifying(r)

Request(r) ==
    \/ CreateRelease(r) \/ Supersede(r) \/ RequestResync(r) \/ RollbackRelease(r)

Next == \/ \E r \in Releases : \/ WorkerStep(r) \/ Mishap(r) \/ Request(r)
                               \/ DeadlinePasses(r)
        \/ \E status \in {"Approved", "Rejected"} : DecideGate(status)
        \/ ReadApplication \/ WriteApplication
        \/ Converge \/ Break

(* Every release that has not ended is requeued, and time passes.  Nothing *)
(* obliges workloads to converge or operators to decide.                   *)
Fairness == /\ \A r \in Releases : WF_vars(WorkerStep(r)) /\ WF_vars(DeadlinePasses(r))
            /\ WF_vars(WriteApplication)

Spec == Init /\ [][Next]_vars
FairSpec == Spec /\ Fairness
----------------------------------------------------------------------------
TypeOK ==
    /\ rel \in [Releases -> Status]
    /\ wrk \in [Releases -> Worker]
    /\ gate \in GateStatus
    /\ appCopy \in GateStatus
    /\ stage \in [rel : 0..R, weight : Percent, ready : {"no", "yes"}]
    /\ late \in [Releases -> {"no", "yes"}]
    /\ vouched \in [Releases -> SUBSET Steps]
    /\ flunked \in SUBSET Releases
    /\ skipped \in SUBSET Releases
    /\ said \in SUBSET {"Approved", "Rejected"}
    /\ events \in 0..MaxEvents

Climbed(r) == (rel[r].phase \in {"Verifying", "Complete"} /\ L > 0 /\ r \notin skipped) =>
                  CanPromote(rel[r].idx) /\ vouched[r] = 1..rel[r].idx

(* A canary reaches verification only up the whole ladder: in this         *)
(* attempt, every step to the promoting one ran and was seen converged,    *)
(* whatever crashes, resyncs and broken workloads came in between          *)
(* (gateCanaryAdvance before each advance and before the promotion; the    *)
(* resets of handleResyncAnnotation).  The one way round is a Stage that   *)
(* cannot be read after the promotion, or whose steps are removed.  Stated *)
(* of a release alone on its stage.                                        *)
LadderClimbed == \A r \in Releases : Climbed(r)

(* Every release ends: it waits for no release that waits for it, and a    *)
(* canary whose workloads never converge meets its deadline.               *)
EveryReleaseEnds ==
    \A r \in Releases : (~In(r, "absent")) ~> (rel[r].phase \in Terminal)

(* The workers' overwrites of status.gates, with whatever they read        *)
(* before, never invent a decision, and nothing is deployed before an      *)
(* operator approved.                                                      *)
NoInventedDecision ==
    /\ gate \in {"Approved", "Rejected"} => gate \in said
    /\ (Gate = "manual" /\ stage.rel # 0) => "Approved" \in said

PastGate(r) == \/ rel[r].snapshot = "yes"
               \/ rel[r].phase = "Canarying"
               \/ wrk[r].pc \in {"approved", "applied", "stepped", "promote", "promoted"}
Known(status) == status \in {"Approved", "Rejected"} => status \in said

(* The inductive form.  What a worker or an Application reconcile holds of *)
(* the gate was once decided; whatever is past the gate, or has deployed   *)
(* once, was approved once (checkApprovalGates, syncApplicationGateStatus).*)
GateInv ==
    /\ Known(gate) /\ Known(appCopy)
    /\ \A r \in Releases : Known(wrk[r].seen)
    /\ Gate = "manual" => \A r \in Releases : PastGate(r) => "Approved" \in said
    /\ (Gate = "manual" /\ stage.rel # 0) => "Approved" \in said

(* A weight applied and not yet recorded is below the top of the ladder.   *)
SteppedInv == \A r \in Releases : wrk[r].pc = "stepped" => rel[r].idx < L

(* What a worker is about to record belongs to the phase it found, though  *)
(* it read that phase some writes ago: nobody else moves a running release.*)
(* Only a manual gate is waited for.                                       *)
PhaseHeld(r) ==
    /\ rel[r].phase = "AwaitingApproval" \/ wrk[r].pc = "gates" => Gate = "manual"
    /\ wrk[r].pc = "admitted" => rel[r].phase \in {"new", "Pending"}
    /\ wrk[r].pc = "gates" => rel[r].phase \in {"Promoting", "AwaitingApproval"}
    /\ wrk[r].pc \in {"approved", "applied"} => rel[r].phase = "Promoting"
    /\ wrk[r].pc \in {"stepped", "promote", "promoted"} => rel[r].phase = "Canarying"
PhasesHeld == \A r \in Releases : PhaseHeld(r)

(* With rollbackOnFail a failed check that was recorded ends the attempt:  *)
(* no requeue, lost ladder or other worker lets the canary go on past it   *)
(* (handleAnalysisRollback).  A measurement whose write fails is taken     *)
(* again.                                                                  *)
FailedChecksStop == \A r \in flunked : rel[r].phase \in Terminal

(* The inductive form of LadderClimbed: the attempt has not begun, or the  *)
(* steps below the current one were seen converged, and the current one    *)
(* was too or is what runs on the stage.  A weight that was applied and    *)
(* not recorded is the next one up.                                        *)
NotBegun(r) == rel[r].idx = 0 /\ rel[r].started = "no" /\ vouched[r] = {}
Begun(r) == /\ rel[r].started = "yes" /\ rel[r].idx >= 1
            /\ rel[r].weight = Weights[rel[r].idx]
            /\ \/ vouched[r] = 1..rel[r].idx
               \/ /\ vouched[r] = 1..(rel[r].idx - 1)
                  /\ stage.rel = r /\ stage.weight = rel[r].weight
OnLadder(r) ==
    /\ rel[r].phase \in {"absent", "new", "Pending", "Promoting", "AwaitingApproval"}
          => NotBegun(r)
    /\ rel[r].phase = "Canarying" => L > 0 /\ (NotBegun(r) \/ Begun(r))
    /\ wrk[r].pc = "stepped" => /\ vouched[r] = 1..rel[r].idx
                               /\ stage.rel = r
                               /\ stage.weight = Weights[rel[r].idx + 1]
    /\ wrk[r].pc \in {"promote", "promoted"} => Begun(r) /\ CanPromote(rel[r].idx)
    /\ wrk[r].pc = "promoted" => vouched[r] = 1..rel[r].idx
LadderInv == (\A r \in Releases : OnLadder(r)) /\ LadderClimbed

(* The invariant of the controller: types, ladder bound, gate, phases; of  *)
(* a stage whose failed checks stop, the checks; of a release alone on its *)
(* stage, the ladder.                                                      *)
ReleaseInv == /\ TypeOK /\ SteppedInv /\ GateInv /\ PhasesHeld
              /\ Checks # "report" => FailedChecksStop
              /\ R = 1 => LadderInv
=============================================================================
