SPECIFICATION HttpSpec
CONSTANTS
  Handlers = {h1, h2}
  Requests = {r1, r2}
  Shutdowns = {"shutdown"}
  Stoppers = {"ext", "command", "server", "shutdown"}
  StopRequests = {r2}
  Endings <- MCEndings
  Restarts <- MCRestarts
  MaxSessions = 2
CHECK_DEADLOCK FALSE
INVARIANTS
  HttpTypeOK
  ExclusiveOwnership
  WakeupsKept
  OwnAnswer
  StopLeavesNothing
PROPERTIES
  ServiceSpec
  QueueSpec
  StopReturns
  HttpCallsReturn
