SPECIFICATION Spec
CONSTANTS
  kSize = 3
  MaxLines = 4
  MaxStarts = 2
INVARIANTS
  LoggerTypeOK
  LogIntact
  StoppedMeansFlushed
PROPERTIES
  StopReturns
  ImplementsLogFile
CHECK_DEADLOCK FALSE
