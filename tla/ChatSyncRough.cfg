CONSTANTS
  Devices = {host, reader}
  Ops <- MCOps
  BatchIds <- MCBatchIds
  MaxRowOps = 3
  MaxPushOps = 3
  MaxSeq = 12
  BroadcastDepth = 1
  DeadSocket = dead
  Checkpointers = {}
  FaultKinds = {"cut", "crash", "evict", "overlap"}
  Disturbed = {"closed", "idle", "hello", "fetch", "backfill", "steady"}
  Committers = {}
  MaxCommits = 0
  MaxFaults = 1
  MaxCheckpoints = 0
SPECIFICATION Spec
INVARIANT ReplayIsNoOp
PROPERTY AckedIsDurable
CHECK_DEADLOCK FALSE
