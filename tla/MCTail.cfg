SPECIFICATION SpecTail
CONSTANTS
  Msgs = {m1, m2}
  MsgLen = 1
  SndCap = 2
  MaxInput = 0
INVARIANT FinBehindEverySend
CHECK_DEADLOCK FALSE
