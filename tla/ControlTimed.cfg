SPECIFICATION ToolFairSpec
CONSTANTS
  s1 = s1
  s2 = s2
  c1 = c1
  Sids = {s1, s2}
  Clients = {c1}
  Queries <- MCQueries
  Limits = {1}
  TTL = 2
  Duration = 1
  MaxClock = 0
  MaxTraffic = 0
  MaxBurst = 0
INVARIANTS TimedCaptureKept
PROPERTIES TimedCallStops TimedCallEnds
