SPECIFICATION FairSpec
CONSTANTS
  MaxOrders = 2
  Ticker = tick
  Requests = {q}
  Syncers = {s}
  ResponsesMayBeLost = FALSE
  MaxCrashes = 1
INVARIANTS RowsTellTruth LiveIsOpen
PROPERTY TriggeredIsRecorded
