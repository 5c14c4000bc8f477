SPECIFICATION Spec
CONSTANTS
  s1 = s1
  Sids = {s1}
  Queries <- MCQueries
  Limits = {1}
  TTL = 1
  MaxClock = 0
  MaxTraffic = 0
  MaxBurst = 0
INVARIANT StopSavesFinalSnapshot
