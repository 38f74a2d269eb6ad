SPECIFICATION Spec
CONSTANTS
  R = 1
  L = 4
  Weights <- FourSteps
  Gate = "manual"
  Checks = "rollbackOnFail"
  OnFailure = "rollback"
  Inputs = {"create", "gate", "app", "crash", "break", "analysis", "failure", "wait", "stage", "resync", "rollback", "supersede"}
  MaxEvents = 8
INVARIANTS ReleaseInv LadderClimbed FailedChecksStop NoInventedDecision
CHECK_DEADLOCK FALSE
