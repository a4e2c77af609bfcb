SPECIFICATION FairSpec
CONSTANTS
  MaxLive = 3
  MaxDrops = 2
  MaxStarts = 2
  MaxStops = 1
  MaxTries = 2
  MaxBusy = 1
INVARIANTS NoGhostTunnel SingleConnection
PROPERTIES StartSettles Recovers
CHECK_DEADLOCK FALSE
