\* Two users' calls share a link while one socket of any kind is cut or closed, the
\* device wakes or the relay restarts.
CONSTANTS
  Calls = {c1, c2}
  Chats = {k1}
  Attempts = 1
  NudgeCapacity = 1
  FaultKinds = {"cut", "close", "wake", "restart"}
  MaxFaults = 1
  MaxLinks = 3
  MaxNudges = 1
SPECIFICATION FairSpec
INVARIANT TypeOK
INVARIANT ConnsAreReaped
PROPERTY NudgesArrive
PROPERTY CallsEnd
CHECK_DEADLOCK FALSE
