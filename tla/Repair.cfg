CONSTANTS
  HourLen = 2
  DayLen = 4
  LastMinute = 5
  Loads = 1
  Hard = {1}
  Holes <- MCHoles
  Ranges <- MCRanges
  SliceSizes = {0, 1}
  MaxCrashes = 1
  MaxDamages = 1
SPECIFICATION FairSpec
INVARIANTS TypeOK RemainingNeverUnder LeftInvalidExplained
PROPERTIES NothingMadeWorse RepairsComeThrough
