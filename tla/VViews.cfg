SPECIFICATION ViewSpec
CONSTANTS
  Phases = {1, 2, 3, 4, 5}
  Users = {ann, bob, cy, dan, eve, fay, gil, hal, ian, jo, kim, m2m}
  ann = ann
  bob = bob
  cy = cy
  dan = dan
  eve = eve
  fay = fay
  gil = gil
  hal = hal
  ian = ian
  jo = jo
  kim = kim
  m2m = m2m
  Machines = {m2m}
  Overrun = {4}
  Parallel = {2}
  MaxBars = 1
  Roles <- SomeRoles
  Layouts <- SomeLayouts
  Passed <- SomePassed
CHECK_DEADLOCK FALSE
INVARIANTS
  ReviewersApart
  ListedIsReadable
  SubmissionShowsNoMore
  AiListedIsReadable
