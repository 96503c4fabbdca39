SPECIFICATION Spec
CONSTANTS
  l0 = l0
  s1 = s1
  t1 = t1
  t2 = t2
  t3 = t3
  d = d
  c = c
  Sessions = {l0, s1, s2}
  Started = {l0, s1}
  Backlog <- MCBacklog
  Tasks = {t1, t2, t3}
  Coordinators = {d, c}
  None = None
  MaxTeam = 2
  Limit = 2
  LeadLimit = 1
  Arrivals <- MCArrivals
  Contacts <- MCContacts
  Passes <- MCPasses
  MaxSent = 4
  MaxPasses = 3
  MaxMishaps = 1
INVARIANTS NoTaskLost RoutedOnce ReportedTruly
CHECK_DEADLOCK FALSE
