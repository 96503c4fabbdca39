SPECIFICATION FairSpec
CONSTANTS
  s1 = s1
  s2 = s2
  f = f
  g = g
  Sessions = {s1, s2}
  Files = {f, g}
  Dashboards = {d1, d2}
  None = None
  Strategies = {"escalate", "last_write_wins"}
  Budget = 5
  Window = 2
  Logs <- MCLogs
  MaxCalls = 5
  MaxTurns = 1
INVARIANTS IncidentsAreEnforced
PROPERTY NothingIsOverlooked
