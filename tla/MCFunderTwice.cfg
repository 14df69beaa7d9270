SPECIFICATION Spec
CONSTANTS
  Credits <- MCCredits
  MaxUint = 3
  CAP = 3
  MAX_RETRIES = 3
  MaxTime = 1
  MaxTxs = 5
  MaxCrashes = 2
  MaxLedgerFaults = 1
INVARIANT ProcessedOnce
CHECK_DEADLOCK FALSE
