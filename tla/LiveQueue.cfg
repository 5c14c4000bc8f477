SPECIFICATION RecordingSpec
CONSTANTS
  s1 = s1
  Sids = {s1}
  Queries <- MCQueries
  Limits = {1, 2}
  TTL = 1
  MaxClock = 3
  MaxTraffic = 2
  MaxBurst = 2
INVARIANTS TypeOK NoLostUpdate NoRedelivery StoreMirrors
PROPERTIES CapturesOnlyGrow ImplementsFeed
