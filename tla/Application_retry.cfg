SPECIFICATION MCSpec
CONSTANTS
  c1 = c1
  c2 = c2
  Sources = {c1, c2}
  NoHash = NoHash
  NoRel = NoRel
  N = 2
  AutoPromote = {1}
  Commits <- Back
  OnFailure = "rollback"
  Inputs = {"commit", "manualSync", "crash", "rollback", "failure"}
  MaxRetries = 2
  MaxEvents = 3
INVARIANTS NoAutoResurrection RetryCap
