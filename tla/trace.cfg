SPECIFICATION TraceSpec
CONSTANTS
  WordSize = 1024
  LongSize = 512
  Reg <- MCReg
  Mem <- MCMem
  Addresses <- MCAddresses
  End = 1
  Programs <- MCPrograms
  MaxSteps = 3
  Modes = {"user", "js", "script"}
CHECK_DEADLOCK FALSE
INVARIANTS
  TypeOK
  LogFaithful
  NeverPastEnd
  ReasonTrue
PROPERTIES
  TraceEnds
