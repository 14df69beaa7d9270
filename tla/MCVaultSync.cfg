SPECIFICATION Spec
CONSTANTS
  PULL_CHUNK_SIZE = 1
  MaxPayloads = 4
  MaxEvents = 3
  MaxForeign = 1
  MaxRuns = 3
INVARIANTS HeadIsQueued EditsExtendLeaf AnchorsTrue OneMergePerHead
PROPERTIES PullKeepsCovered FreezeLiftedKnowingly
CHECK_DEADLOCK FALSE
