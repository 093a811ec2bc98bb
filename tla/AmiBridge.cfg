\* Any two faults around two events of two tenants and one command.
SPECIFICATION FairSpec
CONSTANTS
  Tenants = {"acme", "acme-north"}
  PrefixesOf <- MCPrefixesOf
  FaultKinds = {"stop", "reset", "crash", "broker", "publish", "webhook"}
  MaxFaults = 2
  MaxEvents = 2
  MaxCommands = 1
INVARIANTS TypeOK TenantIsOwn
PROPERTIES LinkRecovers EventIsPosted
CHECK_DEADLOCK FALSE
