\* Two routes of one pattern at the default sequence.
SPECIFICATION FairSpec
CONSTANTS
  Companies <- MCDefaultCompanies
  Inside = {"0", "9", "02", "12", "13", "03", "04", "41", "46", "0701"}
  Outside = {"+46", "0701"}
  Dids = {"d1", "d2", "acc"}
  Cids = {"c1", "c2", "c3"}
  Patterns <- MCPatterns
  E164 <- MCE164
  MaxTicks = 1
  MaxReloads = 0
INVARIANT GateHolds
CHECK_DEADLOCK FALSE
