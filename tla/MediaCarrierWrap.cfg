SPECIFICATION FairSpec
CONSTANTS
  IdSpace = 3
  MaxPending = 1
  AckRepeat = 1
  SeenWindow = 2
  FragLimit = 2
  Sizes = {1, 2}
  MaxMsgs <- LongSession
  NetCap <- OneFrame
INVARIANT InOrder
PROPERTY EventuallyDelivered
CHECK_DEADLOCK FALSE
