SPECIFICATION SpecTeardown
CONSTANTS
  Conns = {c1, c2}
  MaxThreads = 2
  MaxMessages = 1
INVARIANTS
  TiePinsHandledConnections
CHECK_DEADLOCK FALSE
