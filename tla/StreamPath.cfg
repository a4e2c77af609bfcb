SPECIFICATION FairSpec
CONSTANTS
  MaxUp = 3
  MaxDown = 2
  Keys = {x, y}
  MaxFlows = 4
  FlowLimit = 2
INVARIANTS BytesInOrder NoStraySocket FlowsAgree
PROPERTIES TornDown Answered
CHECK_DEADLOCK FALSE
