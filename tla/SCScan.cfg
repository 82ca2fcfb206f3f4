SPECIFICATION ScanFairSpec
CONSTANTS
  Instances = {i1, i2}
  Payloads <- Scans
  Garbled = Garbled
  Length = 2
  ConfiguredRetries = 1
  DlqInstances = {i1, i2}
  MaxFaults = 1
  None = None
  Submissions = {s1}
  KnownResults = {"clean", "infected", "nourl"}
  Setups <- AnySetup
  MaxMishaps = 1
CHECK_DEADLOCK FALSE
INVARIANTS
  HandledMeansDone
  EventRepeatsAreFaults
PROPERTIES
  ShortTroubleSurvived
