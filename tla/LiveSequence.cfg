SPECIFICATION RecordingSpec
CONSTANTS
  s1 = s1
  Sids = {s1}
  Queries <- MCQueries
  Limits = {1}
  TTL = 1
  MaxClock = 4
  MaxTraffic = 3
  MaxBurst = 1
INVARIANT SequencesInOrder
