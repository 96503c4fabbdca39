SPECIFICATION Spec
CONSTANTS
  Sessions = {s1}
  Runners = {r1, r2, r3}
  Callers = {c1, c2}
  None = None
  Ops <- OperatorOps
  AutoTerminate = FALSE
  HeartbeatLapses = TRUE
  Careful = TRUE
  Crashes <- RunnerCrashes
SYMMETRY Symm
CHECK_DEADLOCK FALSE
INVARIANTS OneAgentPerSession StoppedMeansDead
