\* Every kind of fault, two of them in any order.
SPECIFICATION Spec
CONSTANTS
  Files = {base, plugin}
  BaseFiles = {base}
  FaultKinds = {"crash", "reconnect", "lost_ack", "write", "ami", "publish", "rollback"}
  MaxFaults = 2
  MaxEdits = 2
  MaxSyncs = 2
  LegacyVersion = 1
  Slots = {t1, t2}
SYMMETRY SlotSymmetry
INVARIANTS TypeOK RecordedWasWritten CommittedWasPublished
PROPERTY DeployImplementsRegister
CHECK_DEADLOCK FALSE
