SPECIFICATION LiveSpec
CONSTANTS
  NumZones = 2
  HasV4 <- Two
  HasV6 = {1}
  DenyNX = {}
  DropV4 = {1}
  DropV6 = {}
  IDs = {1, 2}
  Questions <- MixedQuestions
  Bodies <- YesNo
  Locals = {none}
  Upstreams <- AllUp
  MaxPackets = 2
  Env = {"reuse", "short", "retransmit", "duplicate", "again"}
  NoItem = NoItem
  NoData = NoData
  NoQuery = NoQuery
  NoOutcome = NoOutcome
  n1 = n1
  none = none
  addr1 = addr1
  addr2 = addr2
\* The client may fall silent, and no timeout ends its transaction here.
CHECK_DEADLOCK FALSE
INVARIANTS ScanCursor AwaitedIsPending WrongAnswerOnlyIfOwed
PROPERTIES EveryQueryFinishes
