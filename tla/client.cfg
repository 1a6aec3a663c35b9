SPECIFICATION ClientSpec
CONSTANTS
  MaxResumes = 1
  MaxTexts = 4
CHECK_DEADLOCK FALSE
INVARIANTS
  ClientTypeOK
  ReplyIsOutput
  ForwardedOnce
  StableReturn
PROPERTIES
  BreakEnds
