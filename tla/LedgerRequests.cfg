SPECIFICATION Spec
CONSTANTS
  MaxOrders = 3
  Qty = 1
  Engine = {}
  Manual = {m1, m2}
  Syncers = {s}
  Repairers = {}
  Starters = {}
  NoLot = NoLot
  OrderTypes = {"MARKET"}
  UniqueOpenOrder = TRUE
  SyncLimit = 100
  RepairLimit = 50
  MaxCrashes = 0
  ResponsesMayBeLost = FALSE
  MayCloseOutside = FALSE
SYMMETRY TaskSymmetry
INVARIANTS NoUntrackedPosition SettledByOwnClose
