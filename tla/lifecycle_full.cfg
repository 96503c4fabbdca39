SPECIFICATION Spec
CONSTANTS
  Sessions = {s1}
  Runners = {r1, r2}
  Callers = {c1}
  None = None
  Ops <- AllOps
  AutoTerminate = FALSE
  HeartbeatLapses = TRUE
  Careful = FALSE
  Crashes <- AllCrashes
SYMMETRY Symm
INVARIANTS RunningIsSupervised PidBelongsToItsRunner CompletedIsEarned
CHECK_DEADLOCK FALSE
