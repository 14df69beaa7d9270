SPECIFICATION Spec
CONSTANTS
  Devices = {d1, d2}
  Accounts = {a1}
  MaxVdk = 4
  MaxAuth = 3
  MaxPeer = 2
  MaxBackups = 1
SYMMETRY Symmetry
CHECK_DEADLOCK FALSE
INVARIANTS
  OneUnlockOpensAll
