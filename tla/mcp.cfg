SPECIFICATION McpSpec
CONSTANTS
  Handlers = {h1, h2}
  Requests = {r1, r2}
  Stoppers = {"ext", "command"}
  StopRequests = {r2}
  MaxSessions = 2
CHECK_DEADLOCK FALSE
INVARIANTS
  McpTypeOK
  WakeupsKept
  StopLeavesNoCall
PROPERTIES
  LifeSpec
  StopReturns
  McpCallsReturn
