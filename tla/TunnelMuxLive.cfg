SPECIFICATION FairSpec
CONSTANTS
  MaxUdpFlows <- EqualLimits
  MaxMissed = 2
  MaxBad = 1
  Heartbeats = TRUE
  MaxStreams = 1
  MaxFlows = 0
  Chunks <- NoData
PROPERTY BothEndsClose
CHECK_DEADLOCK FALSE
