SPECIFICATION Spec
CONSTANTS
  t0 = t0
  t1 = t1
  me = me
  peer = peer
  Txs = {t0, t1}
  OwnTx = t0
  NoTx = NoTx
  Devices = {me, peer}
  Sender <- MCSender
  CHUNK = 1
  DEPTH = 1
  THRESHOLD = 2
  MaxHeight = 3
  MaxReorgs = 1
  MaxReorgDepth = 2
  MaxSetChanges = 1
  MaxCalls = 2
INVARIANTS
  CheckpointCovers
  UnstampedIsAhead
  NoUnderRevocation
  OrphansStayOut
  BreakerTrips
PROPERTIES
  SettledStays
CHECK_DEADLOCK FALSE
