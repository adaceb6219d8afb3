SPECIFICATION Spec
CONSTANTS
  NSteps = 4
  Gates = {2, 4}
  ContinueGates = {4}
  Checkpointing = TRUE
  MaxRestartAttempts = 1
  BackoffLimit = 0
  Pods = {p1, p2}
  Posts = {q1, q2}
  NoPost = NoPost
  MaxFaults = 0
  MaxTokens = 4
  StepsMayFail = TRUE
  Triggered = FALSE
  Cancellable = FALSE
  PodsMayStick = FALSE
  MayReject = FALSE
  SavesMayFail = TRUE
  EarlyTTL = FALSE
SYMMETRY Symmetry
INVARIANTS PauseInv
PROPERTIES TerminalIsFinal CallbackNotLost NoStepRepeated
