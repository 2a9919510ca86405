\* No command fails, but a node may reboot and advertise while the base
\* still believes in the old link.
SPECIFICATION FairSpec
CONSTANTS
  imu = imu  rfid = rfid  imu2 = imu2
  Peers = {imu, rfid}
  NodeName <- MCNodeName
  MaxNodes = 2
  Conns = {c1, c2}
  ParallelScanInit = FALSE
  StaleLinks = TRUE
  MaxFaults = 0
  NoPeer = NoPeer  NoConn = NoConn  NoName = NoName
PROPERTY NodeOnlineIsConnected
