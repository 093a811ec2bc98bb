\* Syncs in quick succession, a crash or a failed sync at any point.
SPECIFICATION FairSpec
CONSTANTS
  Files = {base}
  BaseFiles = {base}
  FaultKinds = {"crash", "publish", "rollback"}
  MaxFaults = 1
  MaxEdits = 2
  MaxSyncs = 3
  LegacyVersion = 0
  Slots = {t1, t2}
INVARIANTS DiskIsRecorded LoadedIsDisk
PROPERTY SentIsConfirmed
CHECK_DEADLOCK FALSE
