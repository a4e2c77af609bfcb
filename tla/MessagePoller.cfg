CONSTANTS
  ali = ali
  sara = sara
  Peers = {ali, sara}
  Emptied = {sara}
  Unloadable = {}
  Ahead = 1
  Page = 3
  Listed = 2
  MaxOwn = 1
  MaxMessages <- MCMaxMessages
SPECIFICATION PollerSpec
INVARIANTS HandedExactly HandedInOrder
PROPERTY HandedInTheEnd
CHECK_DEADLOCK FALSE
