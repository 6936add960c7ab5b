SPECIFICATION RiskSpec
CONSTANTS
    RiskPct = 1050
    DailyPct = 1500
    WeeklyPct = 2050
    OpenPct = 1500
    MaxTrades = 3
    MaxPositions = 2
    MaxLosses = 3
    PropStart = 40
    PropDailyPct = 2000
    PropTotalPct = 2325
    Cent = 2
    MinVolume = 1
    Balance = 41
    PerVolume = {2, 3}
    Wins = {4}
    PartLosses = {}
    WeekDays = 2
    LastDay = 2
INVARIANTS
    LimitsAreKept
    LateFileIsSafe
    OnlyHalfACentIsUnsized
CHECK_DEADLOCK FALSE
