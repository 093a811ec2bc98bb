\* Two calls of any kind, up to three faults of any kind.
SPECIFICATION Spec
CONSTANTS
  Extensions = {e1, e2}
  Outside = {n1}
  FaultKinds = {"slow_post", "lost_post", "asterisk"}
  MaxFaults = 3
  MaxCalls = 2
  MaxTrunks = 2
INVARIANTS TypeOK InboundLoggedOnce AnsweredIsShown OnePartnerPerNumber
PROPERTY AnsweredStays
CHECK_DEADLOCK FALSE
