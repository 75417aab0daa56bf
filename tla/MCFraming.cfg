SPECIFICATION Spec
CONSTANTS
  kPrepend = 1
  kInitial = 2
  ExtraSize = 2
  NUL = nul
  EOL = eol
  Bytes <- MCBytes
  MaxBytes = 7
  Response <- MCResponse
  TmpSize = 3
  ReclaimLimit = 2
INVARIANTS
  FramingTypeOK
  CutsDoNotMatter
CHECK_DEADLOCK FALSE
