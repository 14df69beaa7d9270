SPECIFICATION LimiterSpec
CONSTANTS
  a1 = a1  a2 = a2
  r1 = r1  r2 = r2
  Addresses = {a1, a2}
  Requests = {r1, r2}
  BUCKET_SIZE = 2
  INTERVAL = 2
  GLOBAL_CAP = 3
  WINDOW = 3
  BUCKET_TTL = 3
  GC_THRESHOLD = 1
  MaxClock = 4
  MaxAbandoned = 1
SYMMETRY Symmetry
INVARIANTS NoTokenLeak GlobalBound ThrottledToRate
CHECK_DEADLOCK FALSE
