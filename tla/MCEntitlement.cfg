SPECIFICATION Spec
CONSTANTS
  Attestations <- MCAttestations
  MaxUint = 3
  MaxTime = 2
INVARIANTS LogAccounts NonceRatchet
CHECK_DEADLOCK FALSE
