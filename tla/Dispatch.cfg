SPECIFICATION Spec
CONSTANTS
  Watchers = {w1}
  Fires = {c1}
  Requests = {q1}
  Objects = {o1}
  Keys = {k1}
  NoKey = NoKey
  Runs = {r1, r2, r3}
  NoRun = NoRun
  Limit = 1
  SlowCache = FALSE
  EndsEarly = FALSE
SYMMETRY RunSymmetry
INVARIANTS TypeOK LimitNearlyKept PolicyKept RecordedMeansMade
