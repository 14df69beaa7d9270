SPECIFICATION FairSpec
CONSTANTS
  a1 = a1
  a2 = a2
  g1 = g1
  g2 = g2
  g3 = g3
  k1 = k1
  k2 = k2
  NoAddr = NoAddr
  Addrs = {a1, a2}
  Guardians = {g1, g2, g3}
  Commitments = {k1, k2}
  GuardianSets <- MCGuardianSets
  Endorsements <- MCEndorsements
  MIN_DELAY = 2
  MaxTime = 3
  MaxAttempt = 2
INVARIANTS
  ApprovalsEndorseAttempt
  ClosedOnce
  RotationsEarned
PROPERTY QuorumResolves
CHECK_DEADLOCK FALSE
