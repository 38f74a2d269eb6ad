SPECIFICATION MCSpec
CONSTANTS
  c1 = c1
  c2 = c2
  Sources = {c1, c2}
  NoHash = NoHash
  NoRel = NoRel
  N = 2
  AutoPromote = {1}
  Commits <- Forward
  OnFailure = "rollback"
  Inputs = {"commit", "sync", "crash", "failure", "window", "rollback", "resync", "apiError", "degraded", "drift", "analysis"}
  MaxRetries = 2
  MaxEvents = 3
INVARIANTS RingOrder
