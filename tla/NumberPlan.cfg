\* Digits 0 to 2: the width grows from 1 to 2 with the third employee.
SPECIFICATION Spec
CONSTANTS
  Radix = 3
  MinWidth = 1
  Few = 2
  Many = 4
  Prefix = 2
  Typed <- MCTyped
  Users = {1}
  MaxEmployees = 3
  MaxExtensions = 3
  MaxServices = 2
  MaxEdits = 2
INVARIANTS TypeOK GivenIsAccepted RenumberIsPossible RenumberedIsByRank
PROPERTIES PlannedStaysUnique
CHECK_DEADLOCK FALSE
