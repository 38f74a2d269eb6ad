SPECIFICATION MCFairSpec
CONSTANTS
  c1 = c1
  c2 = c2
  Sources = {c1, c2}
  NoHash = NoHash
  NoRel = NoRel
  N = 2
  AutoPromote = {1}
  Commits <- Forward
  OnFailure = "none"
  Inputs = {"commit", "sync", "window", "apiError"}
  MaxRetries = 2
  MaxEvents = 4
PROPERTIES DeliversEverywhere
INVARIANTS HealthyMeansDeployed OneRingAtATime
