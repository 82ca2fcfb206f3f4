SPECIFICATION Spec
CONSTANTS
  Phases = {1, 2}
  Users = {member}
  Machines = {}
  Overrun = {}
  Parallel = {}
  MaxBars = 0
  contest = contest
  checkpoint = checkpoint
  Kinds = {contest, checkpoint}
  SubmissionPhase <- InPhase
  TargetPhases <- Targets
  MaxSubs = 2
  SubCalls = {c1, c2}
  Batch = 1
  Creatable <- SomeCreatable
  Nobody = Nobody
  Reviewers = {r1, r2}
  Scores = {0, 6001, 10000}
  ReviewValues <- SomeReviews
  MinScore = 6001
  SumReviewPhase = 1
  LastPhase = 2
  NeedsPerfect = FALSE
  Gens = {g1, g2}
  SumStarts <- SomeBudgets
CHECK_DEADLOCK FALSE
INVARIANTS
  CountersFollow
  ActiveRunsStay
  OneSummationEach
  SummationFollowsReviews
PROPERTIES
  StaleIsScanned
