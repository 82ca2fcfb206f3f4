SPECIFICATION Spec
CONSTANTS
  Workflows <- OneWorkflow
  w1 = w1
  w2 = w2
  MaxRuns = 1
  Retriggered = {w1}
  Person = ann
  Scores = {55, 100}
  Weight <- Whole
  Gating = {w1}
  Minimum <- Sixty
  Threshold = 50
  GatingMode = TRUE
  MaxTime = 1
  Hooks = {h1, h2}
  Scorers = {s1}
  Scans = {k1}
  Unlocks = {u1}
  Requests = {r1}
  Author <- SamePerson
  Reviewers = {ann}
  Updates = {v1}
  LateScores = TRUE
  UnseenEnds = TRUE
  MaxMishaps = 1
  None = None
CHECK_DEADLOCK FALSE
INVARIANTS
  GateKept
  PassedOnMerit
