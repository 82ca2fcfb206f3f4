SPECIFICATION Spec
CONSTANTS
  Submissions = {s1}
  Workflows = {w1}
  Runs = {r1, r2}
  GitIds = {1, 2}
  Consumers = {c1, c2}
  Guards = {}
  Hooks = {h1}
  Admins = {a1}
  Conclusions = {"failure"}
  Switchable = {}
  MaxRetries = 1
  DispatchEnabled = TRUE
  IsF2F = FALSE
  Bodies <- TakesOver
  MaxByCaller = 1
  MaxJobs = 1
  MaxFaults = 0
  None = None
SYMMETRY Symmetry
INVARIANTS
  QueuedOnce
  GitRunIdOwned
