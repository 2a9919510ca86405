\* One card is enough.
SPECIFICATION FairSpec
CONSTANTS
  Scans = {"yellow"}
  MaxFaults = 0
PROPERTY OfflineScansDelivered
