SPECIFICATION Spec
CONSTANTS
  s1 = s1
  s2 = s2
  s3 = s3
  Sids = {s1, s2, s3}
  Queries <- MCQueries
  Limits = {1}
  TTL = 1
  MaxClock = 0
  MaxTraffic = 0
  MaxBurst = 0
SYMMETRY Symmetry
INVARIANTS StartedIsOwned OwnerHasSession
PROPERTY NoStopWhileNeeded
