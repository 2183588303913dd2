SPECIFICATION Spec
CONSTANTS
  MaxBars = 9
  MAX_COMBOS = 4
  Marks = {0, 1}
  Scores <- TheScores
  Returns <- TheReturns
  Closes = {0, 1, 3}
  Admins = {a1, a2}
  MaxRuns = 2
  Freshness = 0
  MaxUpsets = 1
  MaxCalls = 2
  None = None
  Torn = Torn
  MaxMessages = 3
  MaxToolRounds = 2
  MaxHeld = 2
  MaxNow = 1
  MaxTrouble = 1
  HistoryLimit = 2
  Empty = Empty
  Sessions <- TheSessions
  MaxVersion = 1
  MaxActs = 1
  MaxMoves = 1
  MaxLapses = 1
  NoData = NoData
  Symbols = {BTC, ETH}
  Platform = BTC
  Listable = {s1, s2}
  MaxPosts <- ThePosts
  MaxEdits = 1
  MaxOthers = 1
  Nothing = Nothing
  Editors = {u1, u2}
  Stampers = {m}
  Intents = {i}
  Ratios <- TheRatios
  Levers <- TheLevers
  MaxTasks = 3
  MaxBreaks = 1
  NoRow = NoRow
  Sources = {"f1", "f2"}
  FeedOf <- TheFeeds
  FeedRounds = {r1, r2}
  Readers = {q1, q2}
  MaxFeedRounds = 2
  MaxPrunes = 1
  MaxAsks = 3
  MaxOutages = 2
  NoTask = NoTask
INVARIANTS
  ResultsHold
  ListedWasJudged
  ConfirmedOnce
  OwnChangeShows
  UsableRow
PROPERTIES
  ConsentHolds
  NewsIsSound
CHECK_DEADLOCK FALSE
