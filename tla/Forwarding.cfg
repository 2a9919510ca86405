\* A buffer that two notifications overflow.  The base falls silent when the
\* nodes do.
SPECIFICATION Spec
CONSTANTS
  Cards = {"yellow", "green"}
  LogSize = 5
  MaxSamples = 3
  MaxScans = 2
  MaxOthers = 1
INVARIANTS FwTypeOK NothingIsLostInTime OneLossSparesScans
PROPERTY ForwardsInOrder
CHECK_DEADLOCK FALSE
