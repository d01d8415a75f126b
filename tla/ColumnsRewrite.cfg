CONSTANTS
  HourLen = 3
  Hour = 6
  FundingLen = 3
  Points = {5, 9}
  Tolerance = 2
  Lookback = 2
  FillLimit = 2
  SafetyLag = 1
  MaxNow = 10
  MaxWrites = 2
  NoValue = NoValue
SPECIFICATION Spec
PROPERTIES RecordedKept
CHECK_DEADLOCK FALSE
