SPECIFICATION PartsSpec
CONSTANTS
  NoKey = NoKey
  None = None
  StaticTable <- KnownHeaders
  HeaderNames <- Names
  HeaderValues <- Values
  NeverNames <- AlwaysPlain
  PlainNames = {}
  Bucket <- BucketOf
  EntryRoom <- RoomFor
  DefaultSize = 4
  NoSize = 1000
  HeaderLists <- HeadersOfBlocks
  SizeLists <- SizesOfFrames
  MaxBlocks = 2
  MaxSettings = 1
  Fields <- SomeFields
  MaxFields <- FieldBounds
  MaxData = 2
  NaN <- NoNumber
  StartWindow = 3
  TopWindow = 5
  MaxUpdates = 2
  Entries = {1, 2, 3, 4, 5, 6}
  Ranks = {1, 2}
  Keys = {1, 2, 3, 4}
  InitialBits = 2
  HashBits = 3
  Requests = {1, 3}
  Promises = {}
  Whole = {3}
  Body = 2
  Answer = 1
  FrameSize = 2
  Window = 2
  MaxWindow = 3
  NoLimit = 5
  Settings <- TwoSettings
  MaxAcks = 2
  MaxReserved = 1
  MaxExtras = 0
INVARIANTS
  ContainersExact
  ValidTree
  ConnectionShared
  HeadersArrive
  FramesAsSent
  MessagesValid
  WindowsAgree
CHECK_DEADLOCK FALSE
