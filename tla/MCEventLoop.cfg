SPECIFICATION Spec
CONSTANTS
  Owner = owner
  Foreign = {f1, f2}
  Tasks = {t1, t2, t3}
  Channels = {io}
  InitialEvents = 1
  PollTimeouts = FALSE
INVARIANTS
  IInv
  NoLostWakeup
  RunsInOrder
PROPERTIES
  ImplementsTaskQueue
  QuitStops
  WakeupsDrain
CHECK_DEADLOCK FALSE
