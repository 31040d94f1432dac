CONSTANTS
  Devices = {d1, d2}
  Ids = {chat}
  Fields = {title}
  NoDevice = none
  Counters = 16
  Ranks = 2
  Rank <- MCRank
  BroadcastDepth = 1
  Kinds = {"set","update","remove"}
  Writers = {d1}
  Savers = {}
  MaxMs = 1
  MaxWrites = 2
  FaultKinds = {"restart","unsaved","wipe"}
  MaxFaults = 2
SPECIFICATION FairSpec
PROPERTY Converges
CHECK_DEADLOCK FALSE
