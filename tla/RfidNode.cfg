\* All cards, and one call that fails.  The node may stop for good without a
\* reader and without a radio, but it can always be switched off and on.
SPECIFICATION Spec
CONSTANTS
  Scans = {"yellow", "green", "purple", "unknown"}
  MaxFaults = 1
INVARIANTS RfidTypeOK LedsOffWhenIdle RamMatchesFlash RfidIInv
