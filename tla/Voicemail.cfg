\* A transcribed mailbox and one that Odoo does not know, a fault of any kind.
SPECIFICATION FairSpec
CONSTANTS
  Mailboxes = {known, unknown}
  Served = {known}
  Enabled = {known}
  OptedIn = {known}
  AlwaysPolicy = FALSE
  FaultKinds = {"restart", "link", "lost_post", "slow_post", "rollback", "mq", "transcriber", "lost_result"}
  MaxFaults = 1
  MaxMessages = 3
  MaxChanges = 1
INVARIANTS TypeOK DeliveredOnce AtMostOneLostPerStart TranscriptIsOwn
PROPERTY NewestIsHandled
CHECK_DEADLOCK FALSE
