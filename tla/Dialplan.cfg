\* One call; the clock moves twice and the dialplan is reloaded once under it.
SPECIFICATION FairSpec
CONSTANTS
  Companies <- MCCompanies
  Inside = {"0", "9", "02", "12", "13", "03", "04", "41", "46", "0701", "+46"}
  Outside = {"+46", "0701"}
  Dids = {"d1", "d2", "acc"}
  Cids = {"c1", "c2", "c3", ""}
  Patterns <- MCPatterns
  E164 <- MCE164
  MaxTicks = 2
  MaxReloads = 1
INVARIANTS TypeOK DeadEnds InsideStaysInside InboundByRule GateHolds TrunksInOrder UnansweredIsCaught
PROPERTIES EveryCallEnds
CHECK_DEADLOCK FALSE
