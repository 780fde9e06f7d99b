\* The small parts of the hub, each by itself.  Ota: two trials, two minutes, three failing
\* updates turn the automatic ones off.
SPECIFICATION HubSpec
CONSTANTS
  Versions = {1, 2}
  Dev = Dev
  None = None
  MaxFails = 3
  MaxTrials = 2
  Chunks = 2
  Limit = 2
  MaxEvents = 4
  WebRequests = {w1, w2}
  BleRequests = {p1, p2}
  Static = {w1}
  Good = {w1, p1}
  Empty = Empty
  MaxRequests = 5
  MaxScans = 3
  MaxFiles = 2
  MaxBoots = 5
  MaxLines = 5
  Half = 16
  IgnoreDuration = 2
  MaxUptime = 40
  MaxGap = 5
  Uploads = {r1, r2, r3}
  Pieces <- MCPieces
  Data <- MCData
  Payloads <- MCPayloads
  Options <- MCOptions
  RobotVersions <- MCRobotVersions
  Waits <- MCWaits
  NoVersion = NoVersion
  Nobody = Nobody
INVARIANTS
  AutoGivesUp
  StoredAsSent
  
  OwnBody
  RunsAsAsked
PROPERTIES
  TurnedOffJustified
  ButtonsReturn
  UpToDate
  HandlerEnds
  LogsKept
  Debounced
\* A hub without memory for the Ota task waits for its user.
CHECK_DEADLOCK FALSE
