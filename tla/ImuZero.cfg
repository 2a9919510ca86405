\* The instance of ImuNode.cfg.
SPECIFICATION FairSpec
CONSTANTS
  Axes = 6
  LogEvery = 2
  WdtRounds = 3
  MaxFaults = 1
CHECK_DEADLOCK FALSE
INVARIANT ZeroIsNotLost
