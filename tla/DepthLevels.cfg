CONSTANTS
  MaxId = 3
  MaxDrops = 1
  PuSent = {TRUE, FALSE}
  NoPu = NoPu
  MaxPrice = 4
  MaxQty = 2
  Opening <- MCOpening
  SnapshotLimit = 1
  HealthLevels = 2
  Notional = 5
SPECIFICATION Spec
INVARIANTS LevelsTypeOK BookFaithful BufferOnlyWhenLost SpreadHolds LevelsTrue ImpactTrue HealthTrue
PROPERTIES ImplementsBook
CHECK_DEADLOCK FALSE
