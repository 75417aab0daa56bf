SPECIFICATION Spec
CONSTANTS
  Conns = {c1, c2}
  MaxThreads = 1
  MaxMessages = 2
PROPERTIES
  ImplementsConnLifecycle
CHECK_DEADLOCK FALSE
