SPECIFICATION Spec
CONSTANTS
  Addresses = {0, 1, 2, 3, 4}
  Sizes = {1, 2}
  Kinds <- SomeKinds
  MaxTables = 2
  MaxLines = 4
CHECK_DEADLOCK FALSE
INVARIANTS TypeOK AgreesWithMembership NeverInvented SearchEnds
