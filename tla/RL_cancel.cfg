SPECIFICATION Spec
CONSTANTS
  NSteps = 1
  Gates = {}
  ContinueGates = {}
  Checkpointing = TRUE
  MaxRestartAttempts = 1
  BackoffLimit = 0
  Pods = {p1, p2}
  Posts = {q1}
  NoPost = NoPost
  MaxFaults = 0
  MaxTokens = 0
  StepsMayFail = FALSE
  Triggered = FALSE
  Cancellable = TRUE
  PodsMayStick = FALSE
  MayReject = FALSE
  SavesMayFail = FALSE
  EarlyTTL = FALSE
SYMMETRY Symmetry
PROPERTIES TerminalIsFinal
