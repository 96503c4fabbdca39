SPECIFICATION MCSpec
CONSTANTS
  r1 = r1
  r2 = r2
  f1 = f1
  Runs = {r1, r2}
  Projects = {p1}
  Engines = {e1, e2}
  Findings = {f1, f2}
  None = None
  Faults = {"timeout", "error", "crash"}
INVARIANTS ClaimIsExclusive OutcomesAreTrue OneScheduledRun
PROPERTIES RunsFollowTheirLifecycle QueuedRunsEnd
