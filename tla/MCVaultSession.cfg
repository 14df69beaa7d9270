SPECIFICATION Spec
CONSTANTS
  Proofs = {p1}
  Components = {c1, c2}
  PRESENCE_FRESHNESS = 1
  ABSOLUTE_MAX = 3
  Windows = {1, 2}
  DEFAULT = 1
  UntilLock = 9
  MaxClock = 4
  MaxRev = 3
SYMMETRY Symmetry
CHECK_DEADLOCK FALSE
INVARIANTS
  NearGesture
  UnderCeiling
  NotAfterLapse
PROPERTIES
  NotReplaced
