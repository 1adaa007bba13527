SPECIFICATION Spec
CONSTANTS
  NumZones = 2
  HasV4 <- Two
  HasV6 = {1}
  DenyNX = {}
  DropV4 = {1}
  DropV6 = {}
  IDs = {1, 2}
  Questions <- OneQuestion
  Bodies <- YesNo
  Locals = {addr1, addr2}
  Upstreams <- AllUp
  MaxPackets = 2
  Env = {}
  NoItem = NoItem
  NoData = NoData
  NoQuery = NoQuery
  NoOutcome = NoOutcome
  n1 = n1
  none = none
  addr1 = addr1
  addr2 = addr2
INVARIANTS LeavesFromAskedAddress
