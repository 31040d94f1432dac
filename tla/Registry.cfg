CONSTANTS
  Devices = {d1, d2}
  Ids = {chat}
  Fields = {title}
  NoDevice = none
  Counters = 16
  Ranks = 2
  Rank <- MCRank
  BroadcastDepth = 1
  Kinds = {"set","remove"}
  Writers = {d1,d2}
  Savers = {d1}
  MaxMs = 1
  MaxWrites = 1
  FaultKinds = {"cut","crash"}
  MaxFaults = 1
SPECIFICATION Spec
INVARIANT TypeOK
INVARIANT WriteIsKept
INVARIANT CursorIsCovered
INVARIANT RowsAreTheServers
CHECK_DEADLOCK FALSE
