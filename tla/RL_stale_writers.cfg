SPECIFICATION Spec
CONSTANTS
  NSteps = 1
  Gates = {1}
  ContinueGates = {}
  Checkpointing = TRUE
  MaxRestartAttempts = 1
  BackoffLimit = 0
  Pods = {p1, p2}
  Posts = {q1}
  NoPost = NoPost
  MaxFaults = 1
  MaxTokens = 1
  StepsMayFail = TRUE
  Triggered = TRUE
  Cancellable = TRUE
  PodsMayStick = TRUE
  MayReject = FALSE
  SavesMayFail = FALSE
  EarlyTTL = TRUE
SYMMETRY Symmetry
PROPERTIES OnlyOwnCopiesRewriteTerminal
