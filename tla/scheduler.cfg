SPECIFICATION FairSpec
CONSTANTS
  MAX_TASKS = 3
  MAX_PRIORITY = 1
  DEFAULT_PRIORITY = 1
  DEFAULT_TIME_SLICE = 1
  MIN_TIME_SLICE = 1
  MAX_TIME_SLICE = 2
INVARIANT TypeOK
INVARIANT SelectsFirst
INVARIANT LinksEnd
PROPERTY ImplementsQueue
PROPERTY ScanReturns
