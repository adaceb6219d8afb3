SPECIFICATION PartsSpec
CONSTANTS
  Steps = {a, b, c}
  Gates = {c}
  MaxConcurrentSteps = 2
  MaxItems = 3
  Limits = {1, 2}
  MaxRetries = 3
  Calls = {"stream", "send", "tool"}
  Caps = {0, 1}
  MaxFlips = 1
  MaxCalls = 2
  Triggers = {1, 2}
  Specs <- SomeTriggers
  Slots = {1, 2, 3}
  MaxRefusals = 1
  Runs = {r1, r2, r3}
  MaxAllowed = 1
  Retention = 1
  Rewrites = {}
  MaxClock = 2
  MaxUid = 6
  MaxChanges = 1
  MaxOthers = 1
  MaxEdits = 2
  MaxOwnerEdits = 1
  MaxFaults = 1
  Replicas = {x, y}
  MaxKeys = 4
  MaxMishaps = 1
INVARIANTS
  PartsTypeOK NilMeansSucceeded CallSound  OneReader ServedIsTrusted
PROPERTIES
  KeepsPromise ForEachSound StepsEnd CallsAnswered TriggersConverge
  CapReached WriterHeals ExposureFollows CertsSettle
CHECK_DEADLOCK FALSE
