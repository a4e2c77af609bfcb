SPECIFICATION Spec
CONSTANTS
  MaxUdpFlows <- StrictServer
  MaxMissed = 1
  MaxBad = 2
  Heartbeats = FALSE
  MaxStreams = 0
  MaxFlows = 2
  Chunks <- Upload
INVARIANTS TablesAgree StreamIntact
PROPERTY ImplementsChannel
CHECK_DEADLOCK FALSE
