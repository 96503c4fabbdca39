SPECIFICATION FairSpec
CONSTANTS
  s1 = s1
  s2 = s2
  x = x
  Sessions = {s1, s2}
  Daemon = d
  Clients = {c1}
  Lines = {x}
  None = None
  Written <- MCWritten
  MaxChanges = 1
  MaxRuns = 1
INVARIANTS MergeLosesNothing ReadyEntriesMerge
PROPERTY BrokenRowsAreCleared
CHECK_DEADLOCK FALSE
