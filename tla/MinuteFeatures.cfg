CONSTANTS
  DepthPayloads <- MCDepthPayloads
  LiqPayloads <- MCLiqPayloads
  LatencyBad = 2
  MaxDepths = 20
  MaxLiqs = 2
  Missing = Missing
SPECIFICATION FeaturesSpec
INVARIANTS FeaturesTypeOK RecoveredAsCounted
CHECK_DEADLOCK FALSE
