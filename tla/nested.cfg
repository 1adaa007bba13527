SPECIFICATION Spec
CONSTANTS
  Addresses = {0, 1, 2, 3}
  Sizes = {1, 2, 4}
  Kinds <- PlainKind
  MaxTables = 1
  MaxLines = 3
CHECK_DEADLOCK FALSE
INVARIANTS EveryRangeMatches
