SPECIFICATION LiveSpec
CONSTANTS
  Requests = {1}
  Promises = {2}
  Whole = {}
  Body = 1
  Answer = 1
  FrameSize = 1
  Window = 1
  MaxWindow = 2
  NoLimit = 2
  Settings <- SmallSettings
  MaxAcks = 1
  MaxReserved = 1
  MaxExtras = 1
INVARIANTS
  WindowsConserved
  RefusedUnprocessed
  LimitsKept
PROPERTY
  RequestsEnd
CHECK_DEADLOCK FALSE
