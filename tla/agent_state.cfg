SPECIFICATION AgentSafety
CONSTANTS
  Orderly = FALSE
  MaxSessions = 2
  MaxCommands = 1
  MaxResumes = 1
CHECK_DEADLOCK FALSE
INVARIANTS
  StateLive
