SPECIFICATION HttpSafety
CONSTANTS
  Handlers = {h1}
  Requests = {r1}
  Shutdowns = {"shutdown", "shutdown again"}
  Stoppers = {"ext", "command", "server", "shutdown", "shutdown again"}
  StopRequests = {}
  Endings <- MCRemoteEndings
  Restarts <- MCRemoteEndings
  MaxSessions = 2
CHECK_DEADLOCK FALSE
INVARIANTS
  HandlesFree
