SPECIFICATION Spec
CONSTANTS
  Calls = {a, b}
  Clients = {x}
  MaxStarts = 2
  MaxStops = 1
  MaxForgets = 1
  DoubleStop = FALSE
  Legacy = Legacy
SYMMETRY Symmetry
INVARIANTS OneTunnelPerCall OneUse DeletedCutOff
PROPERTIES ServedOnce LeftOnlyByRestart
CHECK_DEADLOCK FALSE
