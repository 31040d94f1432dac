CONSTANTS
  Devices = {host, reader}
  Ops <- MCOps
  BatchIds <- MCBatchIds
  MaxRowOps = 3
  MaxPushOps = 3
  MaxSeq = 12
  BroadcastDepth = 1
  DeadSocket = dead
  Checkpointers = {}
  FaultKinds = {"cut"}
  Disturbed = {"idle", "hello", "fetch", "steady"}
  Committers = {host}
  MaxCommits = 1
  MaxFaults = 1
  MaxCheckpoints = 0
SPECIFICATION FairSpec
INVARIANT OutboxKept
INVARIANT RelayIsComplete
PROPERTY Converges
CHECK_DEADLOCK FALSE
