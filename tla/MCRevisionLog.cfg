SPECIFICATION FairSpec
CONSTANTS
  a1 = a1
  a2 = a2
  a3 = a3
  NoAddr = NoAddr
  Addrs = {a1, a2, a3}
  Messages <- MCMessages
  MAX_DEVICES = 2
  PROMOTION_DELAY = 1
  MaxTime = 2
  MaxNonce = 4
  MaxAuths = 4
  MaxSequence = 1
INVARIANTS
  ManagerIsMember EventsExplainSet PromotionsEarned
  CountIsSetSize
PROPERTIES
  SetChangesAuthorized
  PromotionResolves
CHECK_DEADLOCK FALSE
