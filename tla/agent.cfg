SPECIFICATION AgentSpec
CONSTANTS
  Orderly = TRUE
  MaxSessions = 2
  MaxCommands = 2
  MaxResumes = 1
CHECK_DEADLOCK FALSE
INVARIANTS
  AgentTypeOK
  ExecStateLive
  BreakControlOnceSet
  UnloadedQuiet
PROPERTIES
  StopEnds
