CONSTANTS
  Kinds = {"run", "steer", "interrupt"}
  Ttl = 1
  Disturbances = {"crash", "evict"}
  MaxCommands = 2
  MaxTime = 1
  MaxMessages = 2
  MaxDisturbed = 1
SPECIFICATION FairSpec
INVARIANT LedgerTypeOK
INVARIANT SoleDrainExecutesInOrder
INVARIANT SoleDrainIsHonest
INVARIANT SupersededHasHeir
PROPERTY CommandsSettle
CHECK_DEADLOCK FALSE
