CONSTANTS
  HourLen = 2
  Daemons = {d1}
  Commands = {c1}
  Exclusive = TRUE
  SafetyLag = 1
  Lookback = 1
  Ranges <- MCRanges
  SliceSizes = {0, 1}
  Late = {2}
  Recorded = {2}
  StartNow = 3
  MaxNow = 5
  MaxCrashes = 2
  None = None
  NoRow = NoRow
SPECIFICATION FairSpec
INVARIANTS TypeOK WatermarkCovered CoverInv OnlyOpenHourDiffers
PROPERTIES RowsSurvive ImplementsLake CatchesUp
