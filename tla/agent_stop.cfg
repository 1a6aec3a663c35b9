SPECIFICATION AgentSpec
CONSTANTS
  Orderly = TRUE
  MaxSessions = 2
  MaxCommands = 1
  MaxResumes = 1
CHECK_DEADLOCK FALSE
PROPERTIES
  UserStopEnds
