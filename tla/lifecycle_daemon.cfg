SPECIFICATION FairSpec
CONSTANTS
  Sessions = {s1}
  Runners = {r1}
  Callers = {c1, c2}
  None = None
  Ops <- DaemonOps
  AutoTerminate = TRUE
  HeartbeatLapses = TRUE
  Careful = FALSE
  Crashes <- RunnerCrashes
INVARIANT AgentsAreAttended
PROPERTIES EveryRunEnds NoTreeRemovedUnderAgent
CHECK_DEADLOCK FALSE
