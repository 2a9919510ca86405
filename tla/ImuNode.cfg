\* All six values; a report every second round.
\* The node may stop for good: main has returned and advertising failed.
SPECIFICATION FairSpec
CONSTANTS
  Axes = 6
  LogEvery = 2
  WdtRounds = 3
  MaxFaults = 1
CHECK_DEADLOCK FALSE
INVARIANTS ImuTypeOK OnePublicationPerRound ImuIInv
PROPERTY SteeringCatchesUp
