SPECIFICATION SafeSpec
CONSTANTS
  Conns = {c1, c2, c3}
  MaxThreads = 2
  MaxMessages = 2
SYMMETRY Symmetry
INVARIANTS
  ServerTypeOK
  NoDanglingChannel
  CallbacksPaired
  RoomsHoldTheLiving
PROPERTIES
  ThreadConfined
CHECK_DEADLOCK FALSE
