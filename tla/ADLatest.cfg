SPECIFICATION FairSpec
CONSTANTS
  Workflows <- AllWorkflows
  w1 = w1
  w2 = w2
  MaxRuns = 2
  Retriggered = {w1}
  Person = ann
  Scores = {100}
  Weight <- HalfEach
  Gating = {w1}
  Minimum <- Sixty
  Threshold = 40
  GatingMode = TRUE
  MaxTime = 4
  Hooks = {h1}
  Scorers = {}
  Scans = {}
  Unlocks = {}
  Requests = {}
  Author <- SamePerson
  Reviewers = {ann}
  Updates = {}
  LateScores = FALSE
  UnseenEnds = FALSE
  MaxMishaps = 0
  None = None
CHECK_DEADLOCK FALSE
INVARIANTS
  DecisionCurrent
  RetriggerSupersedes
PROPERTIES
  DecidedInTheEnd
