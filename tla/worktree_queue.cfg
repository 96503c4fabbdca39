SPECIFICATION Spec
CONSTANTS
  Sessions = {s1, s2}
  Daemons = {d1, d2}
  Clients = {c1}
  Runners = {r1, r2}
  None = None
  Slots = 1
  MaxTouched = 1
  MaxBroken = 1
SYMMETRY Symm
INVARIANTS WithinLimit NoneStranded TreesAreAccounted StartedOnce
CHECK_DEADLOCK FALSE
