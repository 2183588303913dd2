SPECIFICATION Spec
CONSTANTS
    BaseQty = 1
    LotMultiplier = 1
    MaxLayers = 2
    Step = 1
    FirstStep = 1
    BasketStart = 1
    BasketGiveback = 1
    BasketStopLoss = 4
    BasketTakeProfit = 0
    Cooldown = 2
    EntryFee = 0
    ExitFee = 1
    PctScale = 12
    FirstTrailBars = 1
    SideTarget = 1
    PivotLoss = 2
    PairMaxShare = 50
    RebalanceRatio = 1
    TrailStep = 1
    TriggerFloor = 1
    TrendRange = 1
    TrendConfirm = 4
    TrendDirEnter = 3
    TrendDirExit = 0
    Modes <- MCModes
    Weather <- MCWeather
    Scores <- MCScores
    Others = 0
    Jump = 2
    MaxBars = 2
    LateBooking = FALSE
    Outside <- MCOutside
INVARIANTS OffIsV1 LayersWithinCap
PROPERTY Cooled
CHECK_DEADLOCK FALSE
