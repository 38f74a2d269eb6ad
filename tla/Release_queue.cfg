SPECIFICATION FairSpec
CONSTANTS
  R = 2
  L = 2
  Weights <- TwoSteps
  Gate = "none"
  Checks = "report"
  OnFailure = "rollback"
  Inputs = {"create", "crash", "rollback", "analysis"}
  MaxEvents = 4
PROPERTIES EveryReleaseEnds
CHECK_DEADLOCK FALSE
