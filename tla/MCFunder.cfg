SPECIFICATION FairSpec
CONSTANTS
  Credits <- MCCredits
  MaxUint = 3
  CAP = 3
  MAX_RETRIES = 2
  MaxTime = 1
  MaxTxs = 4
  MaxCrashes = 2
  MaxLedgerFaults = 1
INVARIANTS NoFreeEth DebitedOnce DeliveredIsTrue
PROPERTY InFlightResolves
CHECK_DEADLOCK FALSE
