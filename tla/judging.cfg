SPECIFICATION Spec
CONSTANTS
  NumZones = 5
  HasV4 = {0, 2, 4}
  HasV6 = {1, 2, 4}
  DenyNX = {0, 1, 4}
  DropV4 = {}
  DropV6 = {}
  Most = 4
CHECK_DEADLOCK FALSE
INVARIANTS MoreThanAThird
PROPERTIES Monotone OtherFamilyIgnored
