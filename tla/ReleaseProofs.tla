--------------------------- MODULE ReleaseProofs ---------------------------
(* Proofs about the Release controller, for any number of releases, any    *)
(* canary ladder and any configuration of the gate, the checks and the     *)
(* failure action.                                                         *)
EXTENDS Release, TLAPS

(* The updates of a release's status keep it well typed. *)
LEMMA StatusTyped ==
  ASSUME NEW p \in Status
  PROVE  /\ \A x \in Phases : [p EXCEPT !.phase = x] \in Status
         /\ \A x \in {"no", "yes"} : /\ [p EXCEPT !.resync = x] \in Status
                                     /\ [p EXCEPT !.rollback = x] \in Status
         /\ [p EXCEPT !.phase = "Verifying", !.weight = 100] \in Status
         /\ \A x \in Phases, y \in {"no", "yes"} : [p EXCEPT !.phase = x, !.snapshot = y] \in Status
         /\ \A x \in {"no", "yes"} : [p EXCEPT !.resync = "yes", !.rollback = x] \in Status
         /\ Restarted(p) \in Status
<1>1. 0 \in Steps /\ 0 \in Percent /\ 100 \in Percent
  BY StepsAssumption DEF Steps, Percent
<1>2. \A x \in Phases : [p EXCEPT !.phase = x] \in Status
  BY DEF Status
<1>3. \A x \in {"no", "yes"} : /\ [p EXCEPT !.resync = x] \in Status
                              /\ [p EXCEPT !.rollback = x] \in Status
  BY DEF Status
<1>4. [p EXCEPT !.phase = "Verifying", !.weight = 100] \in Status
  BY <1>1 DEF Status, Phases
<1>5. Restarted(p) \in Status
  BY <1>1 DEF Status, Phases, Restarted
<1>6. \A x \in Phases, y \in {"no", "yes"} : [p EXCEPT !.phase = x, !.snapshot = y] \in Status
  BY DEF Status
<1>7. \A x \in {"no", "yes"} : [p EXCEPT !.resync = "yes", !.rollback = x] \in Status
  BY DEF Status
<1> QED
  BY <1>2, <1>3, <1>4, <1>5, <1>6, <1>7

(* So do the end of a promotion and a step up the ladder. *)
LEMMA LadderTyped ==
  ASSUME NEW p \in Status
  PROVE  /\ Promoted(p) \in Status
         /\ p.idx < L => Stepped(p) \in Status
<1>1. 0 \in Steps /\ \A i \in 1..L : Weights[i] \in Percent
  BY StepsAssumption DEF Steps, Percent
<1>2. Promoted(p) \in Status
  <2>1. CASE L = 0
    BY <2>1 DEF Promoted, Status, Phases
  <2>2. CASE L # 0
    <3>1. Weights[1] \in Percent
      BY <1>1, <2>2, StepsAssumption
    <3> QED
      BY <1>1, <2>2, <3>1 DEF Promoted, Status, Phases
  <2> QED
    BY <2>1, <2>2
<1>3. ASSUME p.idx < L PROVE Stepped(p) \in Status
  <2>1. p.idx \in Steps
    BY DEF Status
  <2>2. p.idx + 1 \in 1..L /\ p.idx + 1 \in Steps
    BY <1>3, <2>1, StepsAssumption DEF Steps
  <2>3. Weights[p.idx + 1] \in Percent
    BY <1>1, <2>2
  <2> QED
    BY <2>2, <2>3 DEF Stepped, Status, Phases
<1> QED
  BY <1>2, <1>3

(* The updates of a worker keep it well typed. *)
LEMMA WorkerTyped ==
  ASSUME NEW w \in Worker
  PROVE  /\ \A x \in {"idle", "resyncing", "admitted", "gates", "approved", "applied",
                      "stepped", "promote", "promoted", "restored"} :
                [w EXCEPT !.pc = x] \in Worker
         /\ \A g \in GateStatus : [w EXCEPT !.pc = "gates", !.seen = g] \in Worker
         /\ \A t \in 0..R : [w EXCEPT !.pc = "restored", !.target = t] \in Worker
BY DEF Worker

(* An idle worker is a worker. *)
LEMMA IdleTyped == Idle \in Worker
BY CountAssumption DEF Idle, Worker, GateStatus

(* The steps' common writes keep the variables they write well typed. *)
LEMMA WriteTyped ==
  ASSUME TypeOK, NEW r \in Releases, NEW p \in Status, Write(r, p)
  PROVE  rel' \in [Releases -> Status]
BY DEF TypeOK, Write

(* Setting the phase keeps a release well typed. *)
LEMMA PhaseTyped ==
  ASSUME TypeOK, NEW r \in Releases, NEW x \in Phases, Write(r, [rel[r] EXCEPT !.phase = x])
  PROVE  rel' \in [Releases -> Status]
<1>1. rel[r] \in Status
  BY DEF TypeOK
<1>2. [rel[r] EXCEPT !.phase = x] \in Status
  BY <1>1, StatusTyped
<1> QED
  BY <1>2, WriteTyped

(* Failing a release keeps the releases well typed. *)
LEMMA FailTyped ==
  ASSUME TypeOK, NEW r \in Releases, Fail(r)
  PROVE  rel' \in [Releases -> Status]
<1>1. "Failed" \in Phases
  BY DEF Phases
<1> QED
  BY <1>1, PhaseTyped DEF Fail

(* So does a promotion that is not finished. *)
LEMMA UnfinishedTyped ==
  ASSUME TypeOK, NEW r \in Releases, NEW x \in Phases, Unfinished(r, x)
  PROVE  rel' \in [Releases -> Status]
<1>1. rel[r] \in Status /\ rel[r].snapshot \in {"no", "yes"}
  BY DEF TypeOK, Status
<1>2. PICK y \in {"no", "yes"} : Write(r, [rel[r] EXCEPT !.phase = x, !.snapshot = y])
  BY <1>1 DEF Unfinished
<1>3. [rel[r] EXCEPT !.phase = x, !.snapshot = y] \in Status
  BY <1>1, StatusTyped
<1> QED
  BY <1>2, <1>3, WriteTyped

(* Moving a worker on keeps the workers well typed. *)
LEMMA GotoTyped ==
  ASSUME TypeOK, NEW r \in Releases,
         NEW x \in {"idle", "resyncing", "admitted", "gates", "approved", "applied",
                    "stepped", "promote", "promoted", "restored"},
         Goto(r, x)
  PROVE  wrk' \in [Releases -> Worker]
BY WorkerTyped DEF TypeOK, Goto

(* Ending a reconcile keeps the workers well typed. *)
LEMMA FinishTyped ==
  ASSUME TypeOK, NEW r \in Releases, Finish(r)
  PROVE  wrk' \in [Releases -> Worker]
BY IdleTyped DEF TypeOK, Finish

Deployments == [rel : 0..R, weight : Percent, ready : {"no", "yes"}]

(* Applying a weight keeps the stage well typed. *)
LEMMA ApplyTyped ==
  ASSUME NEW r \in 0..R, NEW w \in Percent, Apply(r, w)
  PROVE  stage' \in Deployments
BY DEF Apply, Deployments

(* The weights of the ladder are percentages. *)
LEMMA WeightTyped ==
  ASSUME NEW i \in Steps, i < L
  PROVE  Weights[i + 1] \in Percent
<1>1. i + 1 \in 1..L
  BY StepsAssumption DEF Steps
<1> QED
  BY <1>1, StepsAssumption DEF Percent

(* An input stays within the bound. *)
LEMMA EventTyped ==
  ASSUME TypeOK, NEW kind, Event(kind)
  PROVE  events' \in 0..MaxEvents
BY CountAssumption DEF TypeOK, Event

(* Vouching for the current step keeps the history well typed. *)
LEMMA VouchTyped ==
  ASSUME TypeOK, NEW r \in Releases, Vouch(r)
  PROVE  vouched' \in [Releases -> SUBSET Steps]
<1>1. rel[r].idx \in Steps
  BY DEF TypeOK, Status
<1> QED
  BY <1>1 DEF TypeOK, Vouch

(* Every step keeps the types. *)
LEMMA TypedStep == TypeOK /\ SteppedInv /\ [Next]_vars => TypeOK'
<1> SUFFICES ASSUME TypeOK, SteppedInv, [Next]_vars PROVE TypeOK'
  OBVIOUS
<1> USE DEF TypeOK, approvals, canary
<1>1. CASE UNCHANGED vars
  BY <1>1 DEF vars
<1>2. ASSUME NEW r \in Releases, WorkerStep(r) PROVE TypeOK'
  <2>1. CASE HandleResync(r)
    <3>1. Restarted(rel[r]) \in Status
      BY StatusTyped DEF TypeOK
    <3>2. rel' \in [Releases -> Status]
      BY <2>1, <3>1, WriteTyped DEF HandleResync, TypeOK
    <3>3. wrk' \in [Releases -> Worker]
      BY <2>1, GotoTyped DEF HandleResync
    <3> QED
      BY <2>1, <3>2, <3>3 DEF HandleResync
  <2>2. CASE ClearResync(r)
    <3>1. [rel[r] EXCEPT !.resync = "no"] \in Status
      BY <2>2, StatusTyped DEF TypeOK
    <3>2. rel' \in [Releases -> Status]
      BY <2>2, <3>1, WriteTyped DEF ClearResync
    <3> QED
      BY <2>2, <3>2, FinishTyped DEF ClearResync
  <2>3. CASE Park(r)
    <3>1. "Pending" \in Phases
      BY DEF Phases
    <3>2. rel' \in [Releases -> Status]
      BY <2>3, <3>1, PhaseTyped DEF Park
    <3> QED
      BY <2>3, <3>2 DEF Park
  <2>4. CASE CheckConcurrent(r)
    BY <2>4, GotoTyped DEF CheckConcurrent
  <2>5. CASE Admit(r)
    <3>1. "Promoting" \in Phases
      BY DEF Phases
    <3>2. rel' \in [Releases -> Status]
      BY <2>5, <3>1, PhaseTyped DEF Admit
    <3> QED
      BY <2>5, <3>2, FinishTyped DEF Admit
  <2>6. CASE CheckApprovalGates(r)
    <3>1. Evaluate(gate) \in GateStatus
      BY DEF Evaluate, GateStatus, TypeOK
    <3>2. wrk' \in [Releases -> Worker]
      BY <2>6, <3>1, WorkerTyped DEF CheckApprovalGates, TypeOK
    <3> QED
      BY <2>6, <3>2 DEF CheckApprovalGates
  <2>7. CASE SyncApplicationGateStatus(r)
    <3>1. wrk[r].seen \in GateStatus
      BY DEF TypeOK, Worker
    <3>2. AfterGates(wrk[r].seen) \in Phases
      BY DEF AfterGates, Phases
    <3>3. rel' \in [Releases -> Status]
      BY <2>7, <3>2, PhaseTyped DEF SyncApplicationGateStatus
    <3>4. wrk' \in [Releases -> Worker]
      BY <2>7, GotoTyped, FinishTyped DEF SyncApplicationGateStatus
    <3> QED
      BY <2>7, <3>1, <3>3, <3>4 DEF SyncApplicationGateStatus
  <2>8. CASE Promote(r)
    <3>1. stage' \in Deployments
      BY <2>8, ApplyTyped, CountAssumption DEF Promote, Releases, Percent
    <3> QED
      BY <2>8, <3>1, GotoTyped DEF Promote, Deployments
  <2>9. CASE AdvanceAfterPromotion(r)
    <3>1. Promoted(rel[r]) \in Status
      BY <2>9, LadderTyped DEF TypeOK
    <3>2. rel' \in [Releases -> Status]
      BY <2>9, <3>1, WriteTyped DEF AdvanceAfterPromotion
    <3> QED
      BY <2>9, <3>2, FinishTyped DEF AdvanceAfterPromotion
  <2>10. CASE ApplyCanaryWeight(r)
    <3>1. rel[r].idx \in Steps /\ rel[r].idx < L
      BY <2>10 DEF ApplyCanaryWeight, Climbing, TypeOK, Status
    <3>2. Weights[rel[r].idx + 1] \in Percent
      BY <3>1, WeightTyped
    <3>3. stage' \in Deployments
      BY <2>10, <3>2, ApplyTyped, CountAssumption DEF ApplyCanaryWeight, Releases
    <3>4. flunked' \in SUBSET Releases /\ events' \in 0..MaxEvents
      BY <2>10, EventTyped DEF ApplyCanaryWeight, TypeOK
    <3> QED
      BY <2>10, <3>3, <3>4, GotoTyped, VouchTyped DEF ApplyCanaryWeight, Deployments
  <2>11. CASE PersistStep(r)
    <3>1. rel[r].idx \in Steps
      BY DEF TypeOK, Status
    <3>2. rel[r].idx < L
      BY <2>11 DEF PersistStep, SteppedInv, At
    <3>3. Stepped(rel[r]) \in Status
      BY <3>2, LadderTyped DEF TypeOK
    <3>4. rel' \in [Releases -> Status]
      BY <2>11, <3>3, WriteTyped DEF PersistStep
    <3>5. wrk' \in [Releases -> Worker]
      BY <2>11, GotoTyped, FinishTyped DEF PersistStep
    <3> QED
      BY <2>11, <3>4, <3>5 DEF PersistStep
  <2>12. CASE PromoteCanary(r)
    <3>1. stage' \in Deployments
      BY <2>12, ApplyTyped, CountAssumption DEF PromoteCanary, Releases, Percent
    <3> QED
      BY <2>12, <3>1, GotoTyped, VouchTyped DEF PromoteCanary, Deployments
  <2>13. CASE PromotionWaits(r)
    BY <2>13, FinishTyped DEF PromotionWaits
  <2>14. CASE PersistPromotion(r)
    <3>1. [rel[r] EXCEPT !.phase = "Verifying", !.weight = 100] \in Status
      BY <2>14, StatusTyped DEF TypeOK
    <3>2. rel' \in [Releases -> Status]
      BY <2>14, <3>1, WriteTyped DEF PersistPromotion
    <3> QED
      BY <2>14, <3>2, FinishTyped DEF PersistPromotion
  <2>15. CASE FailCanaryProgressDeadline(r)
    BY <2>15, FailTyped, FinishTyped DEF FailCanaryProgressDeadline
  <2>16. CASE CompleteRelease(r)
    <3>1. "Complete" \in Phases
      BY DEF Phases
    <3>2. rel' \in [Releases -> Status]
      BY <2>16, <3>1, PhaseTyped DEF CompleteRelease
    <3> QED
      BY <2>16, <3>2 DEF CompleteRelease
  <2>17. CASE Rollback(r)
    <3>1. PICK t \in RollbackTarget(r) :
              /\ IF t = 0 THEN UNCHANGED stage ELSE Apply(t, 100)
              /\ wrk' = [wrk EXCEPT ![r] = [@ EXCEPT !.pc = "restored", !.target = t]]
      BY <2>17 DEF Rollback
    <3>2. t \in 0..R
      BY CountAssumption DEF RollbackTarget, Newest, Candidates, Releases
    <3>3. stage' \in Deployments
      BY <3>1, <3>2, ApplyTyped DEF TypeOK, Deployments, Percent
    <3>4. wrk' \in [Releases -> Worker]
      BY <3>1, <3>2, WorkerTyped DEF TypeOK
    <3> QED
      BY <2>17, <3>3, <3>4 DEF Rollback, Deployments
  <2>18. CASE MarkRolledBack(r)
    <3>1. "RolledBack" \in Phases
      BY DEF Phases
    <3>2. rel' \in [Releases -> Status]
      BY <2>18, <3>1, PhaseTyped DEF MarkRolledBack
    <3> QED
      BY <2>18, <3>2, FinishTyped DEF MarkRolledBack
  <2> QED
    BY <1>2, <2>1, <2>2, <2>3, <2>4, <2>5, <2>6, <2>7, <2>8, <2>9, <2>10, <2>11,
       <2>12, <2>13, <2>14, <2>15, <2>16, <2>17, <2>18 DEF WorkerStep
<1>3. ASSUME NEW r \in Releases, Mishap(r) PROVE TypeOK'
  <2>1. CASE PromoteWaits(r)
    <3>1. "Promoting" \in Phases
      BY DEF Phases
    <3>2. rel' \in [Releases -> Status]
      BY <2>1, <3>1, UnfinishedTyped DEF PromoteWaits
    <3> QED
      BY <2>1, <3>2, FinishTyped, EventTyped DEF PromoteWaits, Unfinished
  <2>2. CASE PromotionFails(r)
    <3>1. "Failed" \in Phases
      BY DEF Phases
    <3>2. rel' \in [Releases -> Status]
      BY <2>2, <3>1, UnfinishedTyped DEF PromotionFails
    <3> QED
      BY <2>2, <3>2, FinishTyped, EventTyped DEF PromotionFails, Unfinished
  <2>3. CASE HandleAnalysisRollback(r)
    BY <2>3, FailTyped, EventTyped, VouchTyped DEF HandleAnalysisRollback
  <2>4. CASE CanaryPromotionFails(r)
    BY <2>4, FailTyped, FinishTyped, EventTyped DEF CanaryPromotionFails
  <2>5. CASE VerificationFails(r)
    BY <2>5, FailTyped, EventTyped DEF VerificationFails
  <2>6. CASE Crash(r)
    BY <2>6, FinishTyped, EventTyped DEF Crash
  <2>7. CASE AdvanceWithoutStage(r)
    <3>1. "Verifying" \in Phases /\ rel[r] \in Status
      BY DEF Phases, TypeOK
    <3>2. [rel[r] EXCEPT !.phase = "Verifying", !.snapshot = "yes"] \in Status
      BY <3>1, StatusTyped
    <3>3. rel' \in [Releases -> Status]
      BY <2>7, <3>2, WriteTyped DEF AdvanceWithoutStage
    <3> QED
      BY <2>7, <3>3, FinishTyped, EventTyped DEF AdvanceWithoutStage
  <2>8. CASE TransitionToVerifying(r)
    <3>1. "Verifying" \in Phases
      BY DEF Phases
    <3>2. rel' \in [Releases -> Status]
      BY <2>8, <3>1, PhaseTyped DEF TransitionToVerifying
    <3> QED
      BY <2>8, <3>2, EventTyped DEF TransitionToVerifying
  <2> QED
    BY <1>3, <2>1, <2>2, <2>3, <2>4, <2>5, <2>6, <2>7, <2>8 DEF Mishap
<1>4. ASSUME NEW r \in Releases, Request(r) PROVE TypeOK'
  <2>1. CASE CreateRelease(r)
    <3>1. "new" \in Phases
      BY DEF Phases
    <3>2. rel' \in [Releases -> Status]
      BY <2>1, <3>1, PhaseTyped DEF CreateRelease
    <3> QED
      BY <2>1, <3>2, EventTyped DEF CreateRelease
  <2>2. CASE Supersede(r)
    <3>1. "Superseded" \in Phases
      BY DEF Phases
    <3>2. rel' \in [Releases -> Status]
      BY <2>2, <3>1, PhaseTyped DEF Supersede
    <3> QED
      BY <2>2, <3>2, EventTyped DEF Supersede
  <2>3. CASE RequestResync(r)
    <3>1. PICK x \in {"no", "yes"} : Write(r, [rel[r] EXCEPT !.resync = "yes", !.rollback = x])
      BY <2>3 DEF RequestResync, TypeOK, Status
    <3>2. [rel[r] EXCEPT !.resync = "yes", !.rollback = x] \in Status
      BY StatusTyped DEF TypeOK
    <3>3. rel' \in [Releases -> Status]
      BY <3>1, <3>2, WriteTyped
    <3> QED
      BY <2>3, <3>3, EventTyped DEF RequestResync
  <2>4. CASE RollbackRelease(r)
    <3>1. [rel[r] EXCEPT !.rollback = "yes"] \in Status
      BY <2>4, StatusTyped DEF TypeOK
    <3>2. rel' \in [Releases -> Status]
      BY <2>4, <3>1, WriteTyped DEF RollbackRelease
    <3> QED
      BY <2>4, <3>2, EventTyped DEF RollbackRelease
  <2> QED
    BY <1>4, <2>1, <2>2, <2>3, <2>4 DEF Request
<1>5. ASSUME NEW r \in Releases, DeadlinePasses(r) PROVE TypeOK'
  BY <1>5 DEF DeadlinePasses
<1>6. ASSUME NEW status \in {"Approved", "Rejected"}, DecideGate(status) PROVE TypeOK'
  BY <1>6, EventTyped DEF DecideGate, GateStatus
<1>7. CASE ReadApplication
  BY <1>7, EventTyped DEF ReadApplication
<1>8. CASE WriteApplication
  BY <1>8 DEF WriteApplication, GateStatus
<1>9. CASE Converge
  BY <1>9 DEF Converge
<1>10. CASE Break
  BY <1>10, EventTyped DEF Break
<1> QED
  BY <1>1, <1>2, <1>3, <1>4, <1>5, <1>6, <1>7, <1>8, <1>9, <1>10 DEF Next

(* A weight applied and not yet recorded stays below the top of the ladder. *)
LEMMA SteppedStep == TypeOK /\ SteppedInv /\ [Next]_vars => SteppedInv'
<1> SUFFICES ASSUME TypeOK, SteppedInv, [Next]_vars PROVE SteppedInv'
  OBVIOUS
<1> USE DEF TypeOK, Status, Worker, SteppedInv, Write, Goto, Finish, Fail, Idle, At, Runs
<1>1. CASE UNCHANGED vars
  BY <1>1 DEF vars
<1>2. ASSUME NEW r \in Releases, WorkerStep(r) PROVE SteppedInv'
  <2>1. CASE HandleResync(r)
    BY <2>1 DEF HandleResync, Restarted
  <2>2. CASE ClearResync(r)
    BY <2>2 DEF ClearResync
  <2>3. CASE Park(r)
    BY <2>3 DEF Park
  <2>4. CASE CheckConcurrent(r)
    BY <2>4 DEF CheckConcurrent
  <2>5. CASE Admit(r)
    BY <2>5 DEF Admit
  <2>6. CASE CheckApprovalGates(r)
    BY <2>6 DEF CheckApprovalGates
  <2>7. CASE SyncApplicationGateStatus(r)
    BY <2>7 DEF SyncApplicationGateStatus
  <2>8. CASE Promote(r)
    BY <2>8 DEF Promote
  <2>9. CASE AdvanceAfterPromotion(r)
    BY <2>9 DEF AdvanceAfterPromotion, Promoted
  <2>10. CASE ApplyCanaryWeight(r)
    BY <2>10 DEF ApplyCanaryWeight, Climbing
  <2>11. CASE PersistStep(r)
    BY <2>11 DEF PersistStep, Stepped
  <2>12. CASE PromoteCanary(r)
    BY <2>12 DEF PromoteCanary
  <2>13. CASE PromotionWaits(r)
    BY <2>13 DEF PromotionWaits
  <2>14. CASE PersistPromotion(r)
    BY <2>14 DEF PersistPromotion
  <2>15. CASE FailCanaryProgressDeadline(r)
    BY <2>15 DEF FailCanaryProgressDeadline
  <2>16. CASE CompleteRelease(r)
    BY <2>16 DEF CompleteRelease
  <2>17. CASE Rollback(r)
    BY <2>17 DEF Rollback
  <2>18. CASE MarkRolledBack(r)
    BY <2>18 DEF MarkRolledBack
  <2> QED
    BY <1>2, <2>1, <2>2, <2>3, <2>4, <2>5, <2>6, <2>7, <2>8, <2>9, <2>10, <2>11,
       <2>12, <2>13, <2>14, <2>15, <2>16, <2>17, <2>18 DEF WorkerStep
<1>3. ASSUME NEW r \in Releases, Mishap(r) PROVE SteppedInv'
  <2>1. CASE PromoteWaits(r)
    BY <2>1 DEF PromoteWaits, Unfinished
  <2>2. CASE PromotionFails(r)
    BY <2>2 DEF PromotionFails, Unfinished
  <2>3. CASE HandleAnalysisRollback(r)
    BY <2>3 DEF HandleAnalysisRollback
  <2>4. CASE CanaryPromotionFails(r)
    BY <2>4 DEF CanaryPromotionFails
  <2>5. CASE VerificationFails(r)
    BY <2>5 DEF VerificationFails
  <2>6. CASE Crash(r)
    BY <2>6 DEF Crash
  <2>7. CASE AdvanceWithoutStage(r)
    BY <2>7 DEF AdvanceWithoutStage
  <2>8. CASE TransitionToVerifying(r)
    BY <2>8 DEF TransitionToVerifying
  <2> QED
    BY <1>3, <2>1, <2>2, <2>3, <2>4, <2>5, <2>6, <2>7, <2>8 DEF Mishap
<1>4. ASSUME NEW r \in Releases, Request(r) PROVE SteppedInv'
  <2>1. CASE CreateRelease(r)
    BY <2>1 DEF CreateRelease
  <2>2. CASE Supersede(r)
    BY <2>2 DEF Supersede
  <2>3. CASE RequestResync(r)
    BY <2>3 DEF RequestResync
  <2>4. CASE RollbackRelease(r)
    BY <2>4 DEF RollbackRelease
  <2> QED
    BY <1>4, <2>1, <2>2, <2>3, <2>4 DEF Request
<1>5. ASSUME NEW r \in Releases, DeadlinePasses(r) PROVE SteppedInv'
  BY <1>5 DEF DeadlinePasses
<1>6. ASSUME NEW status \in {"Approved", "Rejected"}, DecideGate(status) PROVE SteppedInv'
  BY <1>6 DEF DecideGate
<1>7. CASE ReadApplication
  BY <1>7 DEF ReadApplication
<1>8. CASE WriteApplication
  BY <1>8 DEF WriteApplication
<1>9. CASE Converge
  BY <1>9 DEF Converge
<1>10. CASE Break
  BY <1>10 DEF Break
<1> QED
  BY <1>1, <1>2, <1>3, <1>4, <1>5, <1>6, <1>7, <1>8, <1>9, <1>10 DEF Next

(* A new attempt keeps the snapshot and is Pending. *)
LEMMA RestartedFrame ==
  ASSUME NEW p \in Status
  PROVE  Restarted(p).snapshot = p.snapshot /\ Restarted(p).phase = "Pending"
BY DEF Status, Restarted

(* What is held of the gate was decided, and what is past it was approved. *)
LEMMA GateStep == TypeOK /\ GateInv /\ [Next]_vars => GateInv'
<1> SUFFICES ASSUME TypeOK, GateInv, [Next]_vars PROVE GateInv'
  OBVIOUS
<1> USE DEF TypeOK, Status, Worker, GateInv, Known, PastGate, Write, Goto, Finish, Fail,
        Idle, At, In, Runs, Apply, approvals, canary
<1>1. CASE UNCHANGED vars
  BY <1>1 DEF vars
<1>2. ASSUME NEW r \in Releases, WorkerStep(r) PROVE GateInv'
  <2>1. CASE HandleResync(r)
    <3>1. rel' = rel \/ rel' = [rel EXCEPT ![r] = Restarted(rel[r])]
      BY <2>1 DEF HandleResync
    <3>2. \A q \in Releases : /\ rel'[q].snapshot = rel[q].snapshot
                              /\ rel'[q].phase = "Canarying" => rel[q].phase = "Canarying"
      BY <3>1, RestartedFrame
    <3>3. /\ UNCHANGED <<gate, appCopy, said, stage>>
          /\ wrk' = [wrk EXCEPT ![r] = [wrk[r] EXCEPT !.pc = "resyncing"]]
      BY <2>1 DEF HandleResync
    <3>4. \A q \in Releases : /\ wrk'[q].seen = wrk[q].seen
                              /\ wrk'[q].pc \in {wrk[q].pc, "resyncing"}
      BY <3>3
    <3>5. \A q \in Releases : PastGate(q)' => PastGate(q)
      BY <3>2, <3>4
    <3> QED
      BY <3>3, <3>4, <3>5
  <2>2. CASE ClearResync(r)
    BY <2>2 DEF ClearResync
  <2>3. CASE Park(r)
    BY <2>3 DEF Park
  <2>4. CASE CheckConcurrent(r)
    BY <2>4 DEF CheckConcurrent
  <2>5. CASE Admit(r)
    BY <2>5 DEF Admit
  <2>6. CASE CheckApprovalGates(r)
    BY <2>6 DEF CheckApprovalGates, Evaluate
  <2>7. CASE SyncApplicationGateStatus(r)
    <3>1. AfterGates(wrk[r].seen) = "Promoting" => wrk[r].seen = "Approved"
      BY DEF AfterGates
    <3>2. AfterGates(wrk[r].seen) # "Canarying"
      BY DEF AfterGates
    <3>3. Known(gate)' /\ Known(appCopy)' /\ \A q \in Releases : Known(wrk[q].seen)'
      <4>1. gate' = wrk[r].seen /\ UNCHANGED <<appCopy, said>>
        BY <2>7 DEF SyncApplicationGateStatus
      <4>2. \A q \in Releases : wrk'[q].seen \in {wrk[q].seen, "unset"}
        BY <2>7 DEF SyncApplicationGateStatus
      <4> QED
        BY <4>1, <4>2
    <3>4. Gate = "manual" => \A q \in Releases : PastGate(q)' => "Approved" \in said'
      BY <2>7, <3>1, <3>2 DEF SyncApplicationGateStatus
    <3> QED
      BY <2>7, <3>3, <3>4 DEF SyncApplicationGateStatus
  <2>8. CASE Promote(r)
    BY <2>8 DEF Promote
  <2>9. CASE AdvanceAfterPromotion(r)
    BY <2>9 DEF AdvanceAfterPromotion, Promoted
  <2>10. CASE ApplyCanaryWeight(r)
    BY <2>10 DEF ApplyCanaryWeight, Climbing
  <2>11. CASE PersistStep(r)
    BY <2>11 DEF PersistStep, Stepped
  <2>12. CASE PromoteCanary(r)
    BY <2>12 DEF PromoteCanary, AtPromotion
  <2>13. CASE PromotionWaits(r)
    BY <2>13 DEF PromotionWaits
  <2>14. CASE PersistPromotion(r)
    BY <2>14 DEF PersistPromotion
  <2>15. CASE FailCanaryProgressDeadline(r)
    BY <2>15 DEF FailCanaryProgressDeadline
  <2>16. CASE CompleteRelease(r)
    BY <2>16 DEF CompleteRelease
  <2>17. CASE Rollback(r)
    BY <2>17 DEF Rollback, RollbackTarget, Newest, Candidates
  <2>18. CASE MarkRolledBack(r)
    BY <2>18 DEF MarkRolledBack
  <2> QED
    BY <1>2, <2>1, <2>2, <2>3, <2>4, <2>5, <2>6, <2>7, <2>8, <2>9, <2>10, <2>11,
       <2>12, <2>13, <2>14, <2>15, <2>16, <2>17, <2>18 DEF WorkerStep
<1>3. ASSUME NEW r \in Releases, Mishap(r) PROVE GateInv'
  <2>1. CASE PromoteWaits(r)
    BY <2>1 DEF PromoteWaits, Unfinished
  <2>2. CASE PromotionFails(r)
    BY <2>2 DEF PromotionFails, Unfinished
  <2>3. CASE HandleAnalysisRollback(r)
    BY <2>3 DEF HandleAnalysisRollback
  <2>4. CASE CanaryPromotionFails(r)
    BY <2>4 DEF CanaryPromotionFails
  <2>5. CASE VerificationFails(r)
    BY <2>5 DEF VerificationFails
  <2>6. CASE Crash(r)
    BY <2>6 DEF Crash
  <2>7. CASE AdvanceWithoutStage(r)
    BY <2>7 DEF AdvanceWithoutStage
  <2>8. CASE TransitionToVerifying(r)
    BY <2>8 DEF TransitionToVerifying
  <2> QED
    BY <1>3, <2>1, <2>2, <2>3, <2>4, <2>5, <2>6, <2>7, <2>8 DEF Mishap
<1>4. ASSUME NEW r \in Releases, Request(r) PROVE GateInv'
  <2>1. CASE CreateRelease(r)
    BY <2>1 DEF CreateRelease
  <2>2. CASE Supersede(r)
    BY <2>2 DEF Supersede
  <2>3. CASE RequestResync(r)
    BY <2>3 DEF RequestResync
  <2>4. CASE RollbackRelease(r)
    BY <2>4 DEF RollbackRelease
  <2> QED
    BY <1>4, <2>1, <2>2, <2>3, <2>4 DEF Request
<1>5. ASSUME NEW r \in Releases, DeadlinePasses(r) PROVE GateInv'
  BY <1>5 DEF DeadlinePasses
<1>6. ASSUME NEW status \in {"Approved", "Rejected"}, DecideGate(status) PROVE GateInv'
  BY <1>6 DEF DecideGate
<1>7. CASE ReadApplication
  BY <1>7 DEF ReadApplication
<1>8. CASE WriteApplication
  BY <1>8 DEF WriteApplication
<1>9. CASE Converge
  BY <1>9 DEF Converge
<1>10. CASE Break
  BY <1>10 DEF Break
<1> QED
  BY <1>1, <1>2, <1>3, <1>4, <1>5, <1>6, <1>7, <1>8, <1>9, <1>10 DEF Next

(* A worker's phase is the one it found until it records the next. *)
LEMMA PhasesStep == TypeOK /\ PhasesHeld /\ [Next]_vars => PhasesHeld'
<1> SUFFICES ASSUME TypeOK, PhasesHeld, [Next]_vars PROVE PhasesHeld'
  OBVIOUS
<1> USE DEF TypeOK, Status, Worker, PhasesHeld, PhaseHeld, Write, Goto, Finish, Fail, Idle,
        At, In, Runs, approvals, canary
<1>1. CASE UNCHANGED vars
  BY <1>1 DEF vars
<1>2. ASSUME NEW r \in Releases, WorkerStep(r) PROVE PhasesHeld'
  <2>1. CASE HandleResync(r)
    <3>1. \A q \in Releases : rel'[q].phase \in {rel[q].phase, "Pending"}
      BY <2>1, RestartedFrame DEF HandleResync
    <3>2. wrk' = [wrk EXCEPT ![r] = [wrk[r] EXCEPT !.pc = "resyncing"]]
      BY <2>1 DEF HandleResync
    <3>3. \A q \in Releases \ {r} : rel'[q] = rel[q]
      BY <2>1 DEF HandleResync
    <3> QED
      BY <3>1, <3>2, <3>3
  <2>2. CASE ClearResync(r)
    BY <2>2 DEF ClearResync
  <2>3. CASE Park(r)
    BY <2>3 DEF Park
  <2>4. CASE CheckConcurrent(r)
    BY <2>4 DEF CheckConcurrent
  <2>5. CASE Admit(r)
    BY <2>5 DEF Admit
  <2>6. CASE CheckApprovalGates(r)
    <3>1. CASE Gate = "manual"
      BY <2>6, <3>1 DEF CheckApprovalGates
    <3>2. CASE Gate # "manual"
      BY <2>6, <3>2 DEF CheckApprovalGates
    <3> QED
      BY <3>1, <3>2
  <2>7. CASE SyncApplicationGateStatus(r)
    BY <2>7 DEF SyncApplicationGateStatus, AfterGates
  <2>8. CASE Promote(r)
    BY <2>8 DEF Promote
  <2>9. CASE AdvanceAfterPromotion(r)
    BY <2>9 DEF AdvanceAfterPromotion, Promoted
  <2>10. CASE ApplyCanaryWeight(r)
    BY <2>10 DEF ApplyCanaryWeight, Climbing
  <2>11. CASE PersistStep(r)
    BY <2>11 DEF PersistStep, Stepped
  <2>12. CASE PromoteCanary(r)
    BY <2>12 DEF PromoteCanary, AtPromotion
  <2>13. CASE PromotionWaits(r)
    BY <2>13 DEF PromotionWaits
  <2>14. CASE PersistPromotion(r)
    BY <2>14 DEF PersistPromotion
  <2>15. CASE FailCanaryProgressDeadline(r)
    BY <2>15 DEF FailCanaryProgressDeadline, Climbing, AtPromotion
  <2>16. CASE CompleteRelease(r)
    BY <2>16 DEF CompleteRelease
  <2>17. CASE Rollback(r)
    BY <2>17 DEF Rollback
  <2>18. CASE MarkRolledBack(r)
    BY <2>18 DEF MarkRolledBack
  <2> QED
    BY <1>2, <2>1, <2>2, <2>3, <2>4, <2>5, <2>6, <2>7, <2>8, <2>9, <2>10, <2>11,
       <2>12, <2>13, <2>14, <2>15, <2>16, <2>17, <2>18 DEF WorkerStep
<1>3. ASSUME NEW r \in Releases, Mishap(r) PROVE PhasesHeld'
  <2>1. CASE PromoteWaits(r)
    BY <2>1 DEF PromoteWaits, Unfinished
  <2>2. CASE PromotionFails(r)
    BY <2>2 DEF PromotionFails, Unfinished
  <2>3. CASE HandleAnalysisRollback(r)
    BY <2>3 DEF HandleAnalysisRollback, Climbing
  <2>4. CASE CanaryPromotionFails(r)
    BY <2>4 DEF CanaryPromotionFails, AtPromotion
  <2>5. CASE VerificationFails(r)
    BY <2>5 DEF VerificationFails
  <2>6. CASE Crash(r)
    BY <2>6 DEF Crash
  <2>7. CASE AdvanceWithoutStage(r)
    BY <2>7 DEF AdvanceWithoutStage
  <2>8. CASE TransitionToVerifying(r)
    BY <2>8 DEF TransitionToVerifying
  <2> QED
    BY <1>3, <2>1, <2>2, <2>3, <2>4, <2>5, <2>6, <2>7, <2>8 DEF Mishap
<1>4. ASSUME NEW r \in Releases, Request(r) PROVE PhasesHeld'
  <2>1. CASE CreateRelease(r)
    BY <2>1 DEF CreateRelease
  <2>2. CASE Supersede(r)
    BY <2>2 DEF Supersede, Terminal
  <2>3. CASE RequestResync(r)
    BY <2>3 DEF RequestResync
  <2>4. CASE RollbackRelease(r)
    BY <2>4 DEF RollbackRelease
  <2> QED
    BY <1>4, <2>1, <2>2, <2>3, <2>4 DEF Request
<1>5. ASSUME NEW r \in Releases, DeadlinePasses(r) PROVE PhasesHeld'
  BY <1>5 DEF DeadlinePasses
<1>6. ASSUME NEW status \in {"Approved", "Rejected"}, DecideGate(status) PROVE PhasesHeld'
  BY <1>6 DEF DecideGate
<1>7. CASE ReadApplication
  BY <1>7 DEF ReadApplication
<1>8. CASE WriteApplication
  BY <1>8 DEF WriteApplication
<1>9. CASE Converge
  BY <1>9 DEF Converge
<1>10. CASE Break
  BY <1>10 DEF Break
<1> QED
  BY <1>1, <1>2, <1>3, <1>4, <1>5, <1>6, <1>7, <1>8, <1>9, <1>10 DEF Next

(* A failed check that is not only reported ends the attempt. *)
LEMMA ChecksStep ==
  TypeOK /\ PhasesHeld /\ Checks # "report" /\ FailedChecksStop /\ [Next]_vars
    => FailedChecksStop'
<1> SUFFICES ASSUME TypeOK, PhasesHeld, Checks # "report", FailedChecksStop, [Next]_vars
             PROVE  FailedChecksStop'
  OBVIOUS
<1> USE DEF TypeOK, Status, PhasesHeld, PhaseHeld, FailedChecksStop, Terminal, Write,
        Fail, At, In, Runs, approvals, canary
<1>1. CASE UNCHANGED vars
  BY <1>1 DEF vars
<1>2. ASSUME NEW r \in Releases, WorkerStep(r) PROVE FailedChecksStop'
  <2>1. CASE HandleResync(r)
    BY <2>1 DEF HandleResync, Restarted
  <2>2. CASE ClearResync(r)
    BY <2>2 DEF ClearResync
  <2>3. CASE Park(r)
    BY <2>3 DEF Park
  <2>4. CASE CheckConcurrent(r)
    BY <2>4 DEF CheckConcurrent
  <2>5. CASE Admit(r)
    BY <2>5 DEF Admit
  <2>6. CASE CheckApprovalGates(r)
    BY <2>6 DEF CheckApprovalGates
  <2>7. CASE SyncApplicationGateStatus(r)
    BY <2>7 DEF SyncApplicationGateStatus
  <2>8. CASE Promote(r)
    BY <2>8 DEF Promote
  <2>9. CASE AdvanceAfterPromotion(r)
    BY <2>9 DEF AdvanceAfterPromotion, Promoted
  <2>10. CASE ApplyCanaryWeight(r)
    BY <2>10 DEF ApplyCanaryWeight, Climbing
  <2>11. CASE PersistStep(r)
    BY <2>11 DEF PersistStep, Stepped
  <2>12. CASE PromoteCanary(r)
    BY <2>12 DEF PromoteCanary, AtPromotion
  <2>13. CASE PromotionWaits(r)
    BY <2>13 DEF PromotionWaits
  <2>14. CASE PersistPromotion(r)
    BY <2>14 DEF PersistPromotion
  <2>15. CASE FailCanaryProgressDeadline(r)
    BY <2>15 DEF FailCanaryProgressDeadline, Climbing, AtPromotion
  <2>16. CASE CompleteRelease(r)
    BY <2>16 DEF CompleteRelease
  <2>17. CASE Rollback(r)
    BY <2>17 DEF Rollback
  <2>18. CASE MarkRolledBack(r)
    BY <2>18 DEF MarkRolledBack
  <2> QED
    BY <1>2, <2>1, <2>2, <2>3, <2>4, <2>5, <2>6, <2>7, <2>8, <2>9, <2>10, <2>11,
       <2>12, <2>13, <2>14, <2>15, <2>16, <2>17, <2>18 DEF WorkerStep
<1>3. ASSUME NEW r \in Releases, Mishap(r) PROVE FailedChecksStop'
  <2>1. CASE PromoteWaits(r)
    BY <2>1 DEF PromoteWaits, Unfinished
  <2>2. CASE PromotionFails(r)
    BY <2>2 DEF PromotionFails, Unfinished
  <2>3. CASE HandleAnalysisRollback(r)
    BY <2>3 DEF HandleAnalysisRollback, Climbing
  <2>4. CASE CanaryPromotionFails(r)
    BY <2>4 DEF CanaryPromotionFails, AtPromotion
  <2>5. CASE VerificationFails(r)
    BY <2>5 DEF VerificationFails
  <2>6. CASE Crash(r)
    BY <2>6 DEF Crash
  <2>7. CASE AdvanceWithoutStage(r)
    BY <2>7 DEF AdvanceWithoutStage
  <2>8. CASE TransitionToVerifying(r)
    BY <2>8 DEF TransitionToVerifying
  <2> QED
    BY <1>3, <2>1, <2>2, <2>3, <2>4, <2>5, <2>6, <2>7, <2>8 DEF Mishap
<1>4. ASSUME NEW r \in Releases, Request(r) PROVE FailedChecksStop'
  <2>1. CASE CreateRelease(r)
    BY <2>1 DEF CreateRelease
  <2>2. CASE Supersede(r)
    BY <2>2 DEF Supersede
  <2>3. CASE RequestResync(r)
    BY <2>3 DEF RequestResync
  <2>4. CASE RollbackRelease(r)
    BY <2>4 DEF RollbackRelease
  <2> QED
    BY <1>4, <2>1, <2>2, <2>3, <2>4 DEF Request
<1>5. ASSUME NEW r \in Releases, DeadlinePasses(r) PROVE FailedChecksStop'
  BY <1>5 DEF DeadlinePasses
<1>6. ASSUME NEW status \in {"Approved", "Rejected"}, DecideGate(status) PROVE FailedChecksStop'
  BY <1>6 DEF DecideGate
<1>7. CASE ReadApplication
  BY <1>7 DEF ReadApplication
<1>8. CASE WriteApplication
  BY <1>8 DEF WriteApplication
<1>9. CASE Converge
  BY <1>9 DEF Converge
<1>10. CASE Break
  BY <1>10 DEF Break
<1> QED
  BY <1>1, <1>2, <1>3, <1>4, <1>5, <1>6, <1>7, <1>8, <1>9, <1>10 DEF Next

(* The next step of a ladder. *)
LEMMA NextRung ==
  ASSUME NEW n \in Nat
  PROVE  /\ 1..(n + 1) = (1..n) \cup {n + 1}
         /\ 1..0 = {}
         /\ n >= 1 => (1..(n - 1)) \cup {n} = 1..n
         /\ n >= 1 => (1..n) \cup {n} = 1..n
OBVIOUS

(* A release alone has nothing to roll back to: its stage stays. *)
LEMMA AloneTarget ==
  ASSUME R = 1, NEW r \in Releases
  PROVE  RollbackTarget(r) = {0}
<1>1. Releases \ {r} = {}
  BY DEF Releases
<1> QED
  BY <1>1 DEF RollbackTarget, Candidates

(* The gate that opens on a begun ladder has seen the current step. *)
LEMMA VouchesCurrent ==
  ASSUME TypeOK, NEW r \in Releases, Begun(r), GateOpen(r), Vouch(r)
  PROVE  vouched'[r] = 1..rel[r].idx
<1>1. rel[r].idx \in Nat /\ rel[r].idx >= 1
  BY StepsAssumption DEF TypeOK, Status, Steps, Begun
<1>2. stage.ready = "yes" /\ rel[r].started = "yes"
  BY DEF GateOpen, Begun
<1>3. /\ (1..(rel[r].idx - 1)) \cup {rel[r].idx} = 1..rel[r].idx
      /\ (1..rel[r].idx) \cup {rel[r].idx} = 1..rel[r].idx
  BY <1>1, NextRung
<1>4. CASE vouched[r] = 1..rel[r].idx
  <2>1. vouched'[r] \in {vouched[r], vouched[r] \cup {rel[r].idx}}
    BY DEF Vouch, TypeOK
  <2> QED
    BY <1>3, <1>4, <2>1
<1>5. CASE /\ vouched[r] = 1..(rel[r].idx - 1)
           /\ stage.rel = r /\ stage.weight = rel[r].weight
  <2>1. vouched'[r] = vouched[r] \cup {rel[r].idx}
    BY <1>2, <1>5 DEF Vouch, TypeOK
  <2> QED
    BY <1>3, <1>5, <2>1
<1> QED
  BY <1>4, <1>5 DEF Begun

(* A gate that opens before the first step has nothing to see. *)
LEMMA VouchesNothing ==
  ASSUME NEW r \in Releases, NotBegun(r), Vouch(r)
  PROVE  vouched' = vouched
BY DEF NotBegun, Vouch

(* A release alone on its stage stays on its ladder. *)
LEMMA LadderStep ==
  R = 1 /\ TypeOK /\ SteppedInv /\ PhasesHeld /\ LadderInv /\ [Next]_vars => LadderInv'
<1> SUFFICES ASSUME R = 1, TypeOK, SteppedInv, PhasesHeld, LadderInv, [Next]_vars
             PROVE  LadderInv'
  OBVIOUS
<1>a. \A q, r \in Releases : q = r
  BY DEF Releases
<1>b. \A r \in Releases : OnLadder(r) /\ Climbed(r) /\ PhaseHeld(r)
  BY DEF LadderInv, LadderClimbed, PhasesHeld
<1> USE DEF TypeOK, Status, Worker, OnLadder, Climbed, NotBegun, Begun, PhaseHeld, Write,
        Goto, Finish, Fail, Idle, At, In, Runs, Apply, approvals, canary, CanPromote
<1>1. CASE UNCHANGED vars
  BY <1>1, <1>b DEF vars, LadderInv, LadderClimbed
<1>2. ASSUME NEW r \in Releases, WorkerStep(r) PROVE LadderInv'
  <2>1. CASE HandleResync(r)
    <3>2. wrk'[r].pc = "resyncing" /\ stage' = stage
      BY <2>1 DEF HandleResync
    <3>3. CASE rel[r].phase \in Terminal
      <4>1. vouched'[r] = {} /\ rel'[r] = Restarted(rel[r])
        BY <2>1, <3>3 DEF HandleResync
      <4>2. /\ rel'[r].idx = 0 /\ rel'[r].started = "no"
            /\ rel'[r].phase = "Pending"
        BY <4>1 DEF Restarted
      <4>3. OnLadder(r)' /\ Climbed(r)'
        BY <3>2, <4>1, <4>2
      <4> QED
        BY <1>a, <4>3 DEF LadderInv, LadderClimbed
    <3>4. CASE rel[r].phase \notin Terminal
      <4>1. vouched' = vouched /\ rel' = rel /\ skipped' = skipped
        BY <2>1, <3>4 DEF HandleResync
      <4>2. OnLadder(r)' /\ Climbed(r)'
        BY <1>b, <3>2, <4>1
      <4> QED
        BY <1>a, <4>2 DEF LadderInv, LadderClimbed
    <3> QED
      BY <3>3, <3>4
  <2>2. CASE ClearResync(r)
    BY <2>2, <1>a, <1>b DEF ClearResync, LadderInv, LadderClimbed
  <2>3. CASE Park(r)
    BY <2>3, <1>a, <1>b DEF Park, LadderInv, LadderClimbed
  <2>4. CASE CheckConcurrent(r)
    BY <2>4, <1>a, <1>b DEF CheckConcurrent, LadderInv, LadderClimbed
  <2>5. CASE Admit(r)
    BY <2>5, <1>a, <1>b DEF Admit, LadderInv, LadderClimbed
  <2>6. CASE CheckApprovalGates(r)
    BY <2>6, <1>a, <1>b DEF CheckApprovalGates, LadderInv, LadderClimbed
  <2>7. CASE SyncApplicationGateStatus(r)
    <3>1. /\ rel' = [rel EXCEPT ![r] = [rel[r] EXCEPT !.phase = AfterGates(wrk[r].seen)]]
          /\ UNCHANGED <<stage, vouched>> /\ wrk'[r].pc \in {"approved", "idle"}
      BY <2>7 DEF SyncApplicationGateStatus
    <3>2. AfterGates(wrk[r].seen) \in {"Promoting", "Failed", "AwaitingApproval"}
      BY DEF AfterGates
    <3>3. NotBegun(r)
      BY <1>b, <2>7 DEF SyncApplicationGateStatus
    <3>4. OnLadder(r)' /\ Climbed(r)'
      BY <3>1, <3>2, <3>3
    <3> QED
      BY <1>a, <3>4 DEF LadderInv, LadderClimbed
  <2>8. CASE Promote(r)
    BY <2>8, <1>a, <1>b DEF Promote, LadderInv, LadderClimbed
  <2>9. CASE AdvanceAfterPromotion(r)
    <3>1. /\ rel' = [rel EXCEPT ![r] = Promoted(rel[r])]
          /\ UNCHANGED <<stage, vouched>> /\ wrk'[r].pc = "idle"
      BY <2>9 DEF AdvanceAfterPromotion
    <3>2. NotBegun(r)
      BY <1>b, <2>9 DEF AdvanceAfterPromotion
    <3>3. L = 0 \/ L > 0
      BY StepsAssumption
    <3>4. CASE L = 0
      BY <1>a, <3>1, <3>2, <3>4 DEF Promoted, LadderInv, LadderClimbed
    <3>5. CASE L > 0
      <4>1. /\ rel'[r].phase = "Canarying" /\ rel'[r].idx = 0
            /\ rel'[r].started = rel[r].started
        BY <3>1, <3>5 DEF Promoted
      <4>2. OnLadder(r)' /\ Climbed(r)'
        BY <3>1, <3>2, <3>5, <4>1
      <4> QED
        BY <1>a, <4>2 DEF LadderInv, LadderClimbed
    <3> QED
      BY <3>3, <3>4, <3>5
  <2>10. CASE ApplyCanaryWeight(r)
    <3>1. /\ rel' = rel /\ wrk'[r].pc = "stepped"
          /\ stage' = [rel |-> r, weight |-> Weights[rel[r].idx + 1], ready |-> "no"]
          /\ Vouch(r) /\ GateOpen(r) /\ rel[r].phase = "Canarying"
      BY <2>10 DEF ApplyCanaryWeight, Climbing
    <3>2. vouched'[r] = 1..rel[r].idx
      <4>1. CASE NotBegun(r)
        BY <3>1, <4>1, VouchesNothing, NextRung
      <4>2. CASE Begun(r)
        BY <3>1, <4>2, VouchesCurrent
      <4> QED
        BY <1>b, <3>1, <4>1, <4>2
    <3>3. OnLadder(r)' /\ Climbed(r)'
      <4>1. CASE NotBegun(r)
        BY <1>b, <3>1, <3>2, <4>1, NextRung
      <4>2. CASE Begun(r)
        BY <1>b, <3>1, <3>2, <4>2
      <4> QED
        BY <1>b, <3>1, <4>1, <4>2
    <3> QED
      BY <1>a, <3>3 DEF LadderInv, LadderClimbed
  <2>11. CASE PersistStep(r)
    <3>1. /\ rel' = [rel EXCEPT ![r] = Stepped(rel[r])]
          /\ UNCHANGED <<stage, vouched>> /\ wrk[r].pc = "stepped"
          /\ wrk'[r].pc = IF CanPromote(rel[r].idx + 1) THEN "promote" ELSE "idle"
      BY <2>11 DEF PersistStep
    <3>2. rel[r].idx \in Nat /\ rel[r].idx < L
      BY <3>1, StepsAssumption DEF Steps, SteppedInv
    <3>3. /\ rel'[r].idx = rel[r].idx + 1 /\ rel'[r].started = "yes"
          /\ rel'[r].weight = Weights[rel[r].idx + 1] /\ rel'[r].phase = "Canarying"
      BY <1>b, <3>1 DEF Stepped
    <3>a. L \in Nat /\ \A n \in Nat : (n + 1) - 1 = n /\ n + 1 >= 1
      BY StepsAssumption
    <3>4. rel'[r].idx - 1 = rel[r].idx /\ rel'[r].idx >= 1 /\ L > 0
      <4>1. rel'[r].idx = rel[r].idx + 1
        BY <3>3
      <4> HIDE DEF TypeOK, Status, Worker, OnLadder, Climbed, NotBegun, Begun, PhaseHeld
      <4> QED
        BY <3>2, <3>a, <4>1
    <3>5. Begun(r)'
      BY <1>b, <3>1, <3>3, <3>4
    <3>6. OnLadder(r)' /\ Climbed(r)'
      BY <3>1, <3>3, <3>4, <3>5
    <3> QED
      BY <1>a, <3>6 DEF LadderInv, LadderClimbed
  <2>12. CASE PromoteCanary(r)
    <3>1. /\ rel' = rel /\ wrk'[r].pc = "promoted"
          /\ stage'.rel = r /\ Vouch(r) /\ GateOpen(r)
      BY <2>12 DEF PromoteCanary
    <3>2. Begun(r) /\ CanPromote(rel[r].idx) /\ rel[r].phase = "Canarying" /\ L > 0
      BY <1>b, <2>12, StepsAssumption DEF PromoteCanary, AtPromotion, Steps
    <3>3. vouched'[r] = 1..rel[r].idx
      BY <3>1, <3>2, VouchesCurrent
    <3>4. OnLadder(r)' /\ Climbed(r)'
      BY <3>1, <3>2, <3>3
    <3> QED
      BY <1>a, <3>4 DEF LadderInv, LadderClimbed
  <2>13. CASE PromotionWaits(r)
    BY <2>13, <1>a, <1>b DEF PromotionWaits, LadderInv, LadderClimbed
  <2>14. CASE PersistPromotion(r)
    BY <2>14, <1>a, <1>b DEF PersistPromotion, LadderInv, LadderClimbed
  <2>15. CASE FailCanaryProgressDeadline(r)
    BY <2>15, <1>a, <1>b DEF FailCanaryProgressDeadline, Climbing, AtPromotion, LadderInv, LadderClimbed
  <2>16. CASE CompleteRelease(r)
    BY <2>16, <1>a, <1>b DEF CompleteRelease, LadderInv, LadderClimbed
  <2>17. CASE Rollback(r)
    <3>1. UNCHANGED <<rel, stage, vouched, skipped>> /\ wrk'[r].pc = "restored"
      BY <2>17, AloneTarget DEF Rollback
    <3>2. OnLadder(r)' /\ Climbed(r)'
      BY <1>b, <3>1
    <3> QED
      BY <1>a, <3>2 DEF LadderInv, LadderClimbed
  <2>18. CASE MarkRolledBack(r)
    BY <2>18, <1>a, <1>b DEF MarkRolledBack, LadderInv, LadderClimbed
  <2> QED
    BY <1>2, <2>1, <2>2, <2>3, <2>4, <2>5, <2>6, <2>7, <2>8, <2>9, <2>10, <2>11,
       <2>12, <2>13, <2>14, <2>15, <2>16, <2>17, <2>18 DEF WorkerStep
<1>3. ASSUME NEW r \in Releases, Mishap(r) PROVE LadderInv'
  <2>1. CASE PromoteWaits(r)
    BY <2>1, <1>a, <1>b DEF PromoteWaits, Unfinished, LadderInv, LadderClimbed
  <2>2. CASE PromotionFails(r)
    BY <2>2, <1>a, <1>b DEF PromotionFails, Unfinished, LadderInv, LadderClimbed
  <2>3. CASE HandleAnalysisRollback(r)
    BY <2>3, <1>a, <1>b DEF HandleAnalysisRollback, Climbing, LadderInv, LadderClimbed
  <2>4. CASE CanaryPromotionFails(r)
    BY <2>4, <1>a, <1>b DEF CanaryPromotionFails, AtPromotion, LadderInv, LadderClimbed
  <2>5. CASE VerificationFails(r)
    BY <2>5, <1>a, <1>b DEF VerificationFails, LadderInv, LadderClimbed
  <2>6. CASE Crash(r)
    BY <2>6, <1>a, <1>b DEF Crash, LadderInv, LadderClimbed
  <2>7. CASE AdvanceWithoutStage(r)
    BY <2>7, <1>a, <1>b DEF AdvanceWithoutStage, LadderInv, LadderClimbed
  <2>8. CASE TransitionToVerifying(r)
    BY <2>8, <1>a, <1>b DEF TransitionToVerifying, LadderInv, LadderClimbed
  <2> QED
    BY <1>3, <2>1, <2>2, <2>3, <2>4, <2>5, <2>6, <2>7, <2>8 DEF Mishap
<1>4. ASSUME NEW r \in Releases, Request(r) PROVE LadderInv'
  <2>1. CASE CreateRelease(r)
    BY <2>1, <1>a, <1>b DEF CreateRelease, LadderInv, LadderClimbed
  <2>2. CASE Supersede(r)
    BY <2>2, <1>a, <1>b DEF Supersede, Terminal, LadderInv, LadderClimbed
  <2>3. CASE RequestResync(r)
    BY <2>3, <1>a, <1>b DEF RequestResync, LadderInv, LadderClimbed
  <2>4. CASE RollbackRelease(r)
    BY <2>4, <1>a, <1>b DEF RollbackRelease, LadderInv, LadderClimbed
  <2> QED
    BY <1>4, <2>1, <2>2, <2>3, <2>4 DEF Request
<1>5. ASSUME NEW r \in Releases, DeadlinePasses(r) PROVE LadderInv'
  BY <1>5, <1>b DEF DeadlinePasses, LadderInv, LadderClimbed
<1>6. ASSUME NEW status \in {"Approved", "Rejected"}, DecideGate(status) PROVE LadderInv'
  BY <1>6, <1>b DEF DecideGate, LadderInv, LadderClimbed
<1>7. CASE ReadApplication
  BY <1>7, <1>b DEF ReadApplication, LadderInv, LadderClimbed
<1>8. CASE WriteApplication
  BY <1>8, <1>b DEF WriteApplication, LadderInv, LadderClimbed
<1>9. CASE Converge
  BY <1>9, <1>b DEF Converge, LadderInv, LadderClimbed
<1>10. CASE Break
  BY <1>10, <1>b DEF Break, LadderInv, LadderClimbed
<1> QED
  BY <1>1, <1>2, <1>3, <1>4, <1>5, <1>6, <1>7, <1>8, <1>9, <1>10 DEF Next

(* Every state the controller, its operators and the cluster can reach is  *)
(* well typed, keeps a step that is not recorded yet inside the ladder,    *)
(* knows of no gate decision that was not taken, and never moves a release *)
(* under the worker that reconciles it.                                    *)
THEOREM ReleaseInvariant == Spec => []ReleaseInv
<1>1. Init => TypeOK
  BY CountAssumption, StepsAssumption, IdleTyped
  DEF Init, TypeOK, Absent, Status, Phases, GateStatus, Steps, Percent
<1>2. Init => SteppedInv
  BY DEF Init, SteppedInv, Idle
<1>3. Init => GateInv
  BY DEF Init, GateInv, Known, PastGate, Absent, Idle
<1>4. Init => PhasesHeld
  BY DEF Init, PhasesHeld, PhaseHeld, Absent, Idle
<1>5. Init => FailedChecksStop
  BY DEF Init, FailedChecksStop
<1>6. Init => LadderInv
  BY DEF Init, LadderInv, LadderClimbed, Climbed, OnLadder, NotBegun, Absent, Idle
<1>7. Init => ReleaseInv
  BY <1>1, <1>2, <1>3, <1>4, <1>5, <1>6 DEF ReleaseInv
<1>8. ReleaseInv /\ [Next]_vars => ReleaseInv'
  BY TypedStep, SteppedStep, GateStep, PhasesStep, ChecksStep, LadderStep DEF ReleaseInv
<1> QED
  BY <1>7, <1>8, PTL DEF Spec

(* No interleaving of the workers' and the Application's overwrites of     *)
(* status.gates invents a decision, and with a manual gate nothing reaches *)
(* the stage before an operator approved, for any number of releases, any  *)
(* ladder and any inputs.                                                  *)
THEOREM DecisionsAreReal == Spec => []NoInventedDecision
<1>1. ReleaseInv => NoInventedDecision
  BY DEF ReleaseInv, GateInv, Known, NoInventedDecision
<1> QED
  BY <1>1, ReleaseInvariant, PTL

(* Where a failed analysis is not only reported, it ends the attempt: for  *)
(* any number of releases and any ladder, no crash, resync, rollback or    *)
(* other worker lets a release go on past it (handleAnalysisRollback).     *)
THEOREM ChecksAreFinal ==
  ASSUME Checks # "report"
  PROVE  Spec => []FailedChecksStop
<1>1. ReleaseInv => FailedChecksStop
  BY DEF ReleaseInv
<1> QED
  BY <1>1, ReleaseInvariant, PTL

(* A release alone on its stage is verified only after every step up to    *)
(* the promoting one ran and was seen converged in this attempt, for any   *)
(* ladder, gate, checks and inputs (gateCanaryAdvance,                     *)
(* handleCanaryPromotion, handleResyncAnnotation).                         *)
THEOREM LadderIsClimbed ==
  ASSUME R = 1
  PROVE  Spec => []LadderClimbed
<1>1. ReleaseInv => LadderClimbed
  BY DEF ReleaseInv, LadderInv
<1> QED
  BY <1>1, ReleaseInvariant, PTL
=============================================================================
