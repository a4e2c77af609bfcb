SPECIFICATION FairSpec
CONSTANTS
  MaxCalls = 4
  MaxDrops = 2
INVARIANTS OneSocket ClosedForGood NeverAbandoned
PROPERTIES NewestAnswered ComesBack
CHECK_DEADLOCK FALSE
