CONSTANTS
  HourLen = 2
  Daemons = {d1}
  Commands = {c1}
  Exclusive = FALSE
  SafetyLag = 1
  Lookback = 1
  Ranges <- MCRanges
  SliceSizes = {0}
  Late = {}
  Recorded = {}
  StartNow = 3
  MaxNow = 5
  MaxCrashes = 0
  None = None
  NoRow = NoRow
SPECIFICATION Spec
PROPERTIES RowsSurvive
