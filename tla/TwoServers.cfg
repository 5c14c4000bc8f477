SPECIFICATION Spec
CONSTANTS
  a = a
  b = b
  SidsA = {a}
  SidsB = {b}
  Queries <- MCQueries
  Limits = {1}
  TTL = 1
  MaxClock = 1
  MaxTraffic = 1
  MaxBurst = 1
INVARIANTS OneServerOwns OwnersHaveSessions
