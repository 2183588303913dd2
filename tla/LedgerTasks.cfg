SPECIFICATION Spec
CONSTANTS
  MaxOrders = 2
  Qty = 1
  Engine = {}
  Manual = {m}
  Syncers = {s}
  Repairers = {}
  Starters = {st}
  NoLot = NoLot
  OrderTypes = {"MARKET"}
  UniqueOpenOrder = TRUE
  SyncLimit = 100
  RepairLimit = 50
  MaxCrashes = 1
  ResponsesMayBeLost = TRUE
  MayCloseOutside = TRUE
INVARIANT BackedByExchange
PROPERTY HeldOnce
