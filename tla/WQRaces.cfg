SPECIFICATION Spec
CONSTANTS
  Submissions = {s1}
  Workflows = {w1}
  Runs = {r1}
  GitIds = {1, 2, 3}
  Consumers = {c1}
  Guards = {g1}
  Hooks = {h1}
  Admins = {}
  Conclusions = {"success", "other"}
  Switchable = {}
  MaxRetries = 1
  DispatchEnabled = TRUE
  IsF2F = FALSE
  Bodies = {}
  MaxByCaller = 0
  MaxJobs = 1
  MaxFaults = 1
  None = None
SYMMETRY Symmetry
INVARIANTS
  ResultHonest
  NoForgottenRun
  DispatchOnce
PROPERTIES
  BudgetKept
