SPECIFICATION Spec
CONSTANTS
  Capital = 3
  Slippage = 1
  FeeRate = 1
  FeeUnit = 100
  BarFunding = 1
  Penalty = 1
  MaintNum = 1
  MaintDen = 2
  Bars <- TheBars
  Prices = {3, 5}
  Quantities = {1, 2}
  Rates <- TheRates
  WarmupBars = 0
  MaxBars = 3
  MaxEvents = 2
  MaxOrders = 2
INVARIANTS BooksAddUp FillsAreReal
PROPERTY BreachEndsPosition
CHECK_DEADLOCK FALSE
