SPECIFICATION PartsSpec
CONSTANTS
  Steps = {a, b, c}
  Callers = {p, q}
  MaxConfig = 3
  MaxTicks = 2
  Grace = 1
  MaxCalls = 1
  MaxIterations = 1
  RunNs = "run"
  Worlds <- SomeWorlds
  MaxRefDepth = 2
  Jobs = {j1, j2}
  MaxPods = 2
  MaxVersions = 2
  Messages = {m1}
  Handlers = {h1, h2}
  Window = 2
  DedupWindow = 4
  Delay = 1
  Burst = 1
  MaxTime = 5
  MaxEditions = 2
  Names <- SomeNames
  Submissions <- SomeSubmissions
  Runs = {r1, r2, r3}
  MaxAllowed = 1
  Retention = 1
  Rewrites <- SomeRewrites
  MaxClock = 3
  MaxUid = 8
  MaxChanges = 1
  MaxEdits = 2
  MaxOthers = 1
  MaxFaults = 1
  MaxRuns = 2
  NSteps = 3
  LaterSteps = 1
  MaxCrashes = 1
  Children = {c1, c2}
  Executors = {x1, x2}
  Paths = {"p", "q"}
  Asks <- SomeAsks
INVARIANTS
  PartsTypeOK CycleIsReal AcyclicIsReal PoolSound WalkSound AdmittedCanRun
PROPERTIES
  NeededIsKept WebhookSound FinishedSound AccessSound ExposureSound RecordsSound TargetsSound
CHECK_DEADLOCK FALSE
