SPECIFICATION Spec
CONSTANTS
  Msgs = {m1, m2}
  MsgLen = 2
  SndCap = 2
  MaxInput = 2
INVARIANTS
  ConnTypeOK
  StreamIntact
  WritingIffBuffered
  FinAfterFlush
PROPERTIES
  InputDrained
  HangupNoticed
  ImplementsByteStream
CHECK_DEADLOCK FALSE
