CONSTANTS
  Retries = 2
  MinInterval = 1
  RetryDelay = 1
  MaxBackoff = 3
  MaxJitter = 1
  RetryAfters = {0, 3}
  NoHeader = NoHeader
  Trades = 5
  Horizon = 4
  Start = 1
  End = 4
  Limit = 2
  MaxPages = 2
SPECIFICATION FairSpec
INVARIANTS TypeOK NoTradeTwice PagesLoseOnlyTies
PROPERTIES RetryAfterHonoured RequestsSpaced ImplementsCall FetchEnds
