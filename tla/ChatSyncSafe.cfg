CONSTANTS
  Devices = {host, reader}
  Ops <- MCOps
  BatchIds <- MCBatchIds
  MaxRowOps = 3
  MaxPushOps = 3
  MaxSeq = 12
  BroadcastDepth = 8
  DeadSocket = dead
  Checkpointers = {host}
  FaultKinds = {"cut", "crash", "evict"}
  Disturbed = {"idle", "hello", "fetch", "steady"}
  Committers = {}
  MaxCommits = 0
  MaxFaults = 1
  MaxCheckpoints = 2
SPECIFICATION Spec
INVARIANT TypeOK
INVARIANT CheckpointComplete
INVARIANT NoSilentGap
INVARIANT DiskAgreesWithCursor
PROPERTY CatchUpIsWhole
CHECK_DEADLOCK FALSE
