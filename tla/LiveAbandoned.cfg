SPECIFICATION FairSpec
CONSTANTS
  s1 = s1
  s2 = s2
  Sids = {s1, s2}
  Queries <- MCQueries
  Limits = {1}
  TTL = 1
  MaxClock = 0
  MaxTraffic = 0
  MaxBurst = 0
PROPERTY AbandonedIsRestored
