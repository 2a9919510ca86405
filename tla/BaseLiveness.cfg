\* The two nodes of the exhibit, no controller command fails, and a
\* peripheral advertises only after the base has noticed the loss.
SPECIFICATION FairSpec
CONSTANTS
  imu = imu  rfid = rfid  imu2 = imu2
  Peers = {imu, rfid}
  NodeName <- MCNodeName
  MaxNodes = 2
  Conns = {c1, c2}
  ParallelScanInit = FALSE
  StaleLinks = FALSE
  MaxFaults = 0
  NoPeer = NoPeer  NoConn = NoConn  NoName = NoName
PROPERTIES FreeEntryIsScannedFor NodeOnlineIsConnected TableImplementsSessions
