SPECIFICATION FairSpec
CONSTANTS
  NSteps = 2
  Gates = {2}
  ContinueGates = {2}
  Checkpointing = TRUE
  MaxRestartAttempts = 1
  BackoffLimit = 0
  Pods = {p1, p2}
  Posts = {q1}
  NoPost = NoPost
  MaxFaults = 1
  MaxTokens = 2
  StepsMayFail = TRUE
  Triggered = FALSE
  Cancellable = FALSE
  PodsMayStick = FALSE
  MayReject = FALSE
  SavesMayFail = TRUE
  EarlyTTL = FALSE
PROPERTIES EventuallyTerminal
