SPECIFICATION Spec
CONSTANTS
  Conns = {c1, c2}
  Loops = {l1, l2}
  Rooms = {r1, r2}
  Nicks = {n1}
  Empty = empty
  MaxLines = 4
INVARIANTS
  ChatTypeOK
  RoomsMatchSessions
  WhoIsSnapshot
PROPERTIES
  ImplementsChatRooms
CHECK_DEADLOCK FALSE
