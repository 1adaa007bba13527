SPECIFICATION Spec
CONSTANTS
  NumZones = 3
  HasV4 <- Three
  HasV6 = {1}
  DenyNX = {}
  DropV4 = {2}
  DropV6 = {}
  IDs = {1, 2}
  Questions <- MixedQuestions
  Bodies <- YesNo
  Locals = {none}
  Upstreams <- SomeDown
  MaxPackets = 2
  Env = {"again", "fail", "disconnect", "timeout"}
  NoItem = NoItem
  NoData = NoData
  NoQuery = NoQuery
  NoOutcome = NoOutcome
  n1 = n1
  none = none
  addr1 = addr1
  addr2 = addr2
INVARIANTS StrandedOnlyByFailure NeverSendsEmpty FirstMatchWins SilentOnlyIfFirstFailed
PROPERTIES ImplementsResolution
