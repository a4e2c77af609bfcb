SPECIFICATION FairSpec
CONSTANTS
  Given <- OneOddity
  MaxTries = 3
  MaxCalls = 2
  MaxFaults = 1
  MaxToggles = 2
INVARIANTS HalvesMatch
PROPERTIES NoEndStaysAlone CallsAreDiscarded ConnectedInTheEnd
CHECK_DEADLOCK FALSE
