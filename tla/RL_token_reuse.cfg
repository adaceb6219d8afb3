SPECIFICATION Spec
CONSTANTS
  NSteps = 1
  Gates = {1}
  ContinueGates = {}
  Checkpointing = TRUE
  MaxRestartAttempts = 1
  BackoffLimit = 0
  Pods = {p1, p2}
  Posts = {q1, q2}
  NoPost = NoPost
  MaxFaults = 0
  MaxTokens = 1
  StepsMayFail = FALSE
  Triggered = FALSE
  Cancellable = FALSE
  PodsMayStick = FALSE
  MayReject = FALSE
  SavesMayFail = FALSE
  EarlyTTL = FALSE
SYMMETRY Symmetry
INVARIANTS AcceptedOnce
