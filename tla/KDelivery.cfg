SPECIFICATION KafkaSpec
CONSTANTS
  Instances = {i1, i2}
  Payloads = {p}
  Garbled = Garbled
  Length = 3
  ConfiguredRetries = 1
  DlqInstances = {i1}
  MaxFaults = 2
  None = None
  MaxAttempts = 2
  MaxTroubles = 3
  Tasks = {1, 2}
CHECK_DEADLOCK FALSE
INVARIANTS
  NothingSkipped
  GivenUpAfterRetries
  OneLoop
PROPERTIES
  EveryMessageSettled
  ConsumesOrAdmits
