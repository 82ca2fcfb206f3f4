SPECIFICATION Spec
CONSTANTS
  Members = {m1}
  primary = primary
  secondary = secondary
  regular = regular
  AppRoles = {primary, secondary, regular}
  dev = dev
  reg = reg
  Types = {dev, reg}
  TypeOf <- MCTypeOf
  reviewer = reviewer
  iterativeReviewer = iterativeReviewer
  ResourceRoleOf <- MCResourceRoleOf
  Regular = {regular}
  Iterative = iterativeReviewer
  AppCalls = {c1, c2}
  NoApp = NoApp
  w1 = w1
  w2 = w2
  AiWorkflows = {w1, w2}
  Weightings <- MCWeightings
  Legacy = {w2}
  Templates = {t1}
  ConfigCalls = {k1, k2}
  Nil = Nil
  i1 = i1
  i2 = i2
  Items = {i1, i2}
  WeightOf <- MCWeightOf
  ItemScores = {0, 2}
  Remarks = {remark}
  Managers = {pm, copilot}
  Machine = machine
  ItemCalls = {e1, e2}
  NoScore = NoScore
  Copies = {1, 2}
  CommentOfItem <- MCCommentOfItem
  InEs = {1}
  Deltas <- MCDeltas
  RowIds = {1, 2}
  Owners = {jo}
  Lineups <- SomeLineups
  LimitValues <- SomeLimits
  MaxClock = 3
  Absent = Absent
  Stages = {1, 2}
  Assignees = {1, 2}
  Cards = {1, 2}
  Challenges <- SomeChallenges
  Unlockers = {u1, u2}
  Ensurers = {n1}
CHECK_DEADLOCK FALSE
INVARIANTS
  DecisionsFollow
  OneResourceEach
  ConfigsServe
  EditsHold
  OneRowEach
  FullRunMakesWhole
  RefusedIsShown
  UnlockedIsReviewed
