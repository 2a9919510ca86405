SPECIFICATION FairSpec
CONSTANTS
  ReqSlots = 3
  RxRounds = 2
  QueueSize = 1
  MaxLinks = 3
  MaxLines = 2
CHECK_DEADLOCK FALSE
INVARIANTS LinkTypeOK NoCallThroughWipedParams DiscoveriesTakeTurns WritesUseOwnHandle
PROPERTY LinkIsSetUp
