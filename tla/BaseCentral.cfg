\* Three peripherals for two entries, two of them with the same name.
SPECIFICATION Spec
CONSTANTS
  imu = imu  rfid = rfid  imu2 = imu2
  Peers = {imu, rfid, imu2}
  NodeName <- MCNodeName
  MaxNodes = 2
  Conns = {c1, c2}
  ParallelScanInit = FALSE
  StaleLinks = TRUE
  MaxFaults = 1
  NoPeer = NoPeer  NoConn = NoConn  NoName = NoName
SYMMETRY Symmetry
INVARIANTS TypeOK LinksAreTracked RefsBalance ChoiceStaysValid NamesMatchLinks OneEntryPerPeer FreeEntryHasObject IInv
PROPERTIES EntriesAreNotStolen
