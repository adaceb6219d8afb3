SPECIFICATION Spec
CONSTANTS
  NSteps = 2
  Gates = {2}
  ContinueGates = {}
  Checkpointing = TRUE
  MaxRestartAttempts = 1
  BackoffLimit = 0
  Pods = {p1, p2}
  Posts = {q1}
  NoPost = NoPost
  MaxFaults = 2
  MaxTokens = 2
  StepsMayFail = TRUE
  Triggered = TRUE
  Cancellable = TRUE
  PodsMayStick = FALSE
  MayReject = TRUE
  SavesMayFail = FALSE
  EarlyTTL = TRUE
SYMMETRY Symmetry
INVARIANTS TypeOK OneRunner
