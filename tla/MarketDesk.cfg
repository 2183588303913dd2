SPECIFICATION Spec
CONSTANTS
  Accounts <- TheAccounts
  FromEnv <- TheFirst
  NoAdapter = 0
  MaxAdapters = 2
  MarketEvents = 1
  VenueEvents = 2
  Orders = {"opening", "closing"}
  Act <- TheAct
  Leg <- TheLeg
  KeepsIds = TRUE
  Attempts = 2
  Backoffs = 2
  Symbols = {"BTC", "ETH"}
  DefaultSymbol = "BTC"
  Timeframes <- TheFrames
  HistoryCount <- TheCounts
  MaxBuffer = 3
  Step <- TheSteps
  KlineStale = 2
  TickerStale = 1
  MaxWrites = 2
  MaxTime = 3
  LastTime = 3
  MaxRows = 5
  PageLimit = 2
  Chunk = 3
  MaxPages = 2
  FileSpan = 3
  MaxFiles = 1
  Horizon = 2
  MinCoverage = 75
  MaxPulls = 2
  Nil = Nil
  Prices = {1, 2}
  MaxPeriod = 3
  ChartLimit = 2
  MaxTrades = 2
  MaxDrops = 2
  NoPrice = NoPrice
  Syncs = {y1, y2}
  Exchanges = {TRUE, FALSE}
  Profits = {3}
  MaxMoment = 2
  Window = 1
  IncomeLimit = 2
  MaxIncomes = 3
  MaxSyncs = 2
  MaxLosses = 1
  MaxHour = 1
  DayLength = 2
  MaxLots = 2
  MaxTraces = 1
  MaxLostLines = 1
  MaxLag = 2
  MaxOpenings = 1
  MaxSettlements = 2
  MaxJobs = 2
  MaxWatched = 1
  EntryPrice <- TheEntries
  ExitPrices = {10}
  ExitReasons = {"TAKE_PROFIT"}
  TripFee = 1
  Nets = {1, 3, 6}
  Bases = {4}
  Trails <- TheTrails
  TakeProfitUsdt = 5
  StopLossUsdt = 5
  SampleEvery = 2
  NoTracer = NoTracer
INVARIANTS
  FeedIsSound
  OrderOnce
  SidesAreRight
  HistoryIsWhole
  NoHoles
  ArchiveTellsTruth
PROPERTY BookIsWhole
CHECK_DEADLOCK FALSE
