CONSTANTS
  MaxId = 3
  MaxDrops = 0
  PuSent = {TRUE}
  NoPu = NoPu
  LastMinute = 1
  MaxFailures = 1
SPECIFICATION SyncSpec
INVARIANTS BrokenBookIsResynced
CHECK_DEADLOCK FALSE
