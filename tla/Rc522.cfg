\* Two cards with two bytes in common, and one thing that goes wrong; a wire that
\* breaks may come back.  Every step of the wait loop counts, so two polls stand
\* for a hundred.  After bytes were written behind a buffer everything may stop.
SPECIFICATION FairSpec
CONSTANTS
  Tags <- TwoTags
  IdOf <- TwoIds
  Known <- KnownCards
  Junk <- BadJunk
  Polls = 2
  MaxFaults = 1
CHECK_DEADLOCK FALSE
INVARIANTS RcTypeOK SteadyCheckReadsAnswer ReportedCardAnswered
PROPERTIES CheckReturns CardIsReported
