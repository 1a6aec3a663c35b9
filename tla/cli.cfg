SPECIFICATION CliSpec
CONSTANTS
  Kind <- MCKind
  Calls <- MCCalls
  RetryOf <- MCRetryOf
  PoolSize = 2
CHECK_DEADLOCK FALSE
INVARIANTS
  CliTypeOK
  PrintedTrue
  RetrySafe
PROPERTIES
  BreakGetsThrough
  ShutdownStops
