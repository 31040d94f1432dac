\* One command, issued on a reader, while the host seeds the chat; a crash or eviction
\* of either device, or a checkpoint post that fails, at any moment.
CONSTANTS
  Host = h
  Readers = {r}
  Newcomers = {}
  Commands = {c}
  IssuedBy <- MCIssuedBy
  FaultKinds = {"crash", "evict", "post"}
  MaxFaults = 1
  MaxCopies = 2
SPECIFICATION FairSpec
INVARIANTS
  NoDuplicates
  HistoryIsKept
PROPERTIES
  CutoverEnds
  CommandsArrive
CHECK_DEADLOCK FALSE
