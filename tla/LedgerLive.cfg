SPECIFICATION FairSpec
CONSTANTS
  MaxOrders = 2
  Qty = 1
  Engine = {e}
  Manual = {}
  Syncers = {s}
  Repairers = {r}
  Starters = {}
  NoLot = NoLot
  OrderTypes = {"MARKET", "LIMIT"}
  UniqueOpenOrder = TRUE
  SyncLimit = 100
  RepairLimit = 50
  MaxCrashes = 0
  ResponsesMayBeLost = FALSE
  MayCloseOutside = FALSE
INVARIANT OneLotPerOpenOrder
PROPERTIES FilledOpenGetsLot FilledCloseSettlesLot
