SPECIFICATION Spec
CONSTANTS
    ChandelierK = 1
    MaxHold = 1
    Cooldown = 1
    TakeProfit = 2
    StopLoss = 2
    StopAtrMult = 1
    RiskPct = 5
    SizingAtr = 1
    MaxLeverage = 2
    QtyUnit = 100
    Base = 40
    a = a
    b = b
    Instances <- MCInstances
    Strategies <- AllKinds
    Weather <- MCWeather
    MaxPrice = 3
    MaxNow = 1
    MaxLots = 2
    LateBooking = TRUE
    Restarts = TRUE
SYMMETRY Alike
PROPERTIES TrailOnlyTightens AgedLotsClose
CHECK_DEADLOCK FALSE
