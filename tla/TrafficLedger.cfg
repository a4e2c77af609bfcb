SPECIFICATION Spec
CONSTANTS
  Peers = {p, q}
  Clients = {c}
  MaxTunnels = 2
  MaxBytes = 2
  MaxStarts = 2
  MaxCrashes = 1
  MaxResets = 1
INVARIANTS NothingTwice ResetSticks TotalExplained
PROPERTY TotalsGrow
CHECK_DEADLOCK FALSE
