SPECIFICATION GuardedSpec
CONSTANTS
  Submissions = {s1}
  Workflows = {w1}
  Runs = {r1}
  GitIds = {1, 2}
  Consumers = {c1}
  Guards = {g1}
  Hooks = {h1}
  Admins = {}
  Conclusions = {"failure"}
  Switchable = {w1}
  MaxRetries = 1
  DispatchEnabled = TRUE
  IsF2F = FALSE
  Bodies = {}
  MaxByCaller = 0
  MaxJobs = 1
  MaxFaults = 0
  None = None
PROPERTIES
  EveryRunCompletes
