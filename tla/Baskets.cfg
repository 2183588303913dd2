SPECIFICATION Spec
CONSTANTS
  Lots = {1, 2}
  Instances = {"i", "j"}
  Manual = "manual"
  Placers = {"i", "manual"}
  Outcomes <- MCOutcomes
  Tasks = {t1, t2}
  FundingFees <- MCFundingFees
  Protections <- MCProtections
  IncomeMayFail = TRUE
  MaxCloses = 2
  MaxCrashes = 1
SYMMETRY TaskSymmetry
INVARIANTS TotalsMatchLots AnnouncedOnce OwnBasket LosersAreStopped
CHECK_DEADLOCK FALSE
