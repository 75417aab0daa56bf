SPECIFICATION Spec
CONSTANTS
  Timers = {idle, t1, t2}
  Idle = idle
  Delays = {0, 1, 3}
  MaxTime = 4
  idleTimeout_ = 2
INVARIANTS
  TimerTypeOK
  TimerfdCoversTop
  RunInDueOrder
  IdleCovered
PROPERTIES
  SilentIsKicked
  ImplementsAlarm
CHECK_DEADLOCK FALSE
