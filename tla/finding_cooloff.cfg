SPECIFICATION FairSpec
CONSTANTS
  l1 = l1
  Leads = {l1}
  MaxTeam = 2
  Limit = 2
  LeadLimit = 1
  MaxWaiting <- MCWaiting
  MaxStreak = 4
  MaxMishaps = 0
PROPERTY CooloffPutsOff
