CONSTANTS
  MaxId = 5
  MaxDrops = 2
  PuSent = {TRUE, FALSE}
  NoPu = NoPu
  LastMinute = 2
  MaxFailures = 1
SPECIFICATION SyncSpec
INVARIANTS SyncTypeOK BlindOnlyByFailure DegradedWhereHurt
PROPERTIES HandlesBookWell
CHECK_DEADLOCK FALSE
