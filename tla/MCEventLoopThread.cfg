SPECIFICATION SpecT
CONSTANTS
  Owner = ioThread
  Controller = controller
  Foreign = {controller}
  Tasks = {t1, t2}
  Channels = {}
  InitialEvents = 1
  PollTimeouts = FALSE
INVARIANTS
  ThreadTypeOK
  LoopOutlivesItsCalls
PROPERTIES
  StartReturns
  JoinAfterQuitReturns
CHECK_DEADLOCK FALSE
