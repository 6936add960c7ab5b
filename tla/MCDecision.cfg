SPECIFICATION MCSpec
CONSTANTS
    Gated = {"HIGH"}
    Before <- MCBefore
    After <- MCAfter
    PostWait <- MCPostWait
    Lead <- MCLead
    DelayedMax = 5
    Normalized = 2
    MaxAge = 10
    Lookahead = 10
    World <- MCWorld
    Calendars <- MCCalendars
    Times <- MCTimes
    Nothing = Nothing
    Weight <- MCWeight
    Points <- MCPoints
    SessionPoints <- MCSessionPoints
    MacroPoints <- MCMacroPoints
    ConflictPoints <- MCConflictPoints
    CorrelatedEvidence <- MCCorrelatedEvidence
    CounterTrend <- MCCounterTrend
    Floors <- MCFloors
    ModerateFrom = 600
    HighFrom = 800
    VeryHighFrom = 900
    DowngradeFrom = 400
    Cap = 1
    Evidence <- MCEvidence
    Inputs <- MCInputs
    Drivers <- MCDrivers
    Required = {"DXY"}
    Correlated = "DXY"
    Lookback = 1
    Volatility = 3
    MinObservations = 4
    FlatZ = 5
    MaxAgeDays = 2
    Matching = 4
    MinAbs = 20
    Inverted = 50
    Surprise = 1
    Hours = 6
    Supportive = 20
    Strongly = 60
INVARIANTS
    VerdictIsAllowed
    VetoHolds
    NothingOverlooked
    BetterNeverScoresWorse
    MacroIsFair
PROPERTY
    ContinuationWins
