SPECIFICATION Spec
CONSTANTS
  Phases = {1, 2, 3}
  Users = {rev, sub, cop, m2m}
  Machines = {m2m}
  rev = rev
  cop = cop
  m2m = m2m
  Overrun = {2, 3}
  Parallel = {}
  MaxBars = 0
  ReviewPhase = 1
  Owner = rev
  Copilots = {cop}
  Admins = {}
  Questions = {q1}
  Answers = {1, 2}
  Share <- All
  Starts <- OneAppeal
  Calls = {c1, c2}
  Requests <- SomeRequests
  MaxAsks = 2
  MaxMishaps = 1
  None = None
  AppealsPhase = 2
  ResponsePhase = 3
  Submitter = sub
  AppealCalls = {a1, a2}
  MaxAppealAsks = 3
CHECK_DEADLOCK FALSE
INVARIANT PendingFollowsAppeals
