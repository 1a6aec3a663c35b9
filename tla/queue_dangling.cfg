SPECIFICATION Safety
CONSTANTS
  Handlers = {h1}
  Requests = {r1}
  Stoppers = {}
CHECK_DEADLOCK FALSE
INVARIANTS
  HeldCommandsLive
