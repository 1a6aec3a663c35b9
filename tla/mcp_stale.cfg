SPECIFICATION McpSafety
CONSTANTS
  Handlers = {h1}
  Requests = {r1}
  Stoppers = {"ext", "command"}
  StopRequests = {}
  MaxSessions = 2
CHECK_DEADLOCK FALSE
INVARIANTS
  StartsWithEmptyQueue
