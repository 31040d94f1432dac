CONSTANTS
  Devices = {d1, d2}
  BatchIds = {b1, b2}
  Ops = {o1, o2}
  MaxRowOps = 1
  MaxSeq = 3
SPECIFICATION LogSpec
INVARIANT LogTypeOK
INVARIANT LogIsSuffix
INVARIANT LogIsHonest
PROPERTY ImplementsTrimmedLog
CHECK_DEADLOCK FALSE
