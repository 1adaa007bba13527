SPECIFICATION LiveSpec
CONSTANTS
  Clients = {c1, c2}
  Zones = {0, 1}
  Fds = {f1, f2}
  NoFd = NoFd
  ListenFd = ListenFd
  ExitFd = ExitFd
  IDs = {1}
  ReadPerEvent = 2
  Interval = 2
  TimeOut = 1
  NoWork = NoWork
  NoOwner = NoOwner
CHECK_DEADLOCK FALSE
INVARIANTS BatchEventsValid ManagerExact AnsweredAreClosed ExitLeavesNothing TimeoutBound
PROPERTIES BatchEnds
