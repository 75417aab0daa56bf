SPECIFICATION SpecT
CONSTANTS
  Owner = ioThread
  Controller = controller
  Foreign = {controller}
  Tasks = {t1, t2}
  Channels = {}
  InitialEvents = 1
  PollTimeouts = TRUE
PROPERTIES
  DestructorJoins
CHECK_DEADLOCK FALSE
