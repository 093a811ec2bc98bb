\* Two calls of up to three turns, one key each, one fault.
SPECIFICATION Spec
CONSTANTS
  Channels = {a, b}
  HasTransfer = TRUE
  MaxTurns = 3
  MaxKeys = 1
  MaxFaults = 1
INVARIANTS TypeOK NoTwoTurns NoStall ReplyIsOwn
PROPERTIES EndedIsFinal KeyIsHonoured
CHECK_DEADLOCK FALSE
