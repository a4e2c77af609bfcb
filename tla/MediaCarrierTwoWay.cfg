SPECIFICATION Spec
CONSTANTS
  IdSpace = 7
  MaxPending = 2
  AckRepeat = 1
  SeenWindow = 7
  FragLimit = 2
  Sizes = {1, 3}
  MaxMsgs <- BothSend
  NetCap <- OneFrame
INVARIANT NothingLost
PROPERTY ImplementsChannel
CHECK_DEADLOCK FALSE
