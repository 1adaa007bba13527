SPECIFICATION Spec
CONSTANTS
  Configs <- PlainAndVariants
  NoConfig = NoConfig
  Paths = {p1, p2}
  NoPath = NoPath
  Servers = {s1, s2}
  NoServer = NoServer
  PriorityRange = 256
  Files = {f1, f2}
  Others = {o1, o2}
  Junk = Junk
  Overflow = Overflow
  LinksTo <- Leads
  LinkDepth <- OneLink
  Unwatchable = {}
  MaxLink = 3
  Ignored = {}
  LongNames = {o2}
  PerRead = 2
  MaxQueue = 2
  MaxLines = 1
  FirstLines <- One
  MovedLines <- AfterJunk
  MaxTime = 2
  MaxChanges = 2
  p1 = p1
  p2 = p2
  f1 = f1
  f2 = f2
  o1 = o1
  o2 = o2
  s1 = s1
  s2 = s2
CHECK_DEADLOCK FALSE
INVARIANTS LoadedAsWritten StaleOnlyBySecond FreshServes ReleasedOnce OutlivesShortNames
PROPERTIES ChangeArrives InterruptStops
