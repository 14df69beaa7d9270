SPECIFICATION Spec
CONSTANTS
  a1 = a1
  a2 = a2
  g1 = g1
  g2 = g2
  k1 = k1
  NoAddr = NoAddr
  Addrs = {a1, a2}
  Guardians = {g1, g2}
  Commitments = {k1}
  GuardianSets <- MCGuardianSets
  Endorsements <- MCEndorsements
  MIN_DELAY = 1
  MaxAttempt = 1
  Messages <- MCMessages
  MAX_DEVICES = 2
  PROMOTION_DELAY = 1
  MaxNonce = 3
  MaxAuths = 3
  MaxSequence = 0
  MaxTime = 2
SYMMETRY MCSymmetry
PROPERTIES
  ImplementsRevisionLog
  ManagerMovesByQuorum
CHECK_DEADLOCK FALSE
