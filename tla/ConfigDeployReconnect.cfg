SPECIFICATION FairSpec
CONSTANTS
  Files = {base}
  BaseFiles = {base}
  FaultKinds = {"reconnect"}
  MaxFaults = 1
  MaxEdits = 2
  MaxSyncs = 2
  LegacyVersion = 1
  Slots = {t1, t2, t3}
INVARIANT DiskIsRecorded
CHECK_DEADLOCK FALSE
