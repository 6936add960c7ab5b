SPECIFICATION MCSpec
CONSTANTS
  Runs = {r1, r2}
  r1 = r1
  r2 = r2
  None = None
  Nothing = Nothing
  BreakEvenTolerance = 10
  FullWinTolerance = 10
  FullLossTolerance = 10
  ChaseTolerance = 25
  PostEntry = 1
  MaxOpen = 9
  Leeway = 1
  LimitedFrom = 1
  ModerateFrom = 2
  StrongerFrom = 3
  CurvePoints = 2
  ExpiryBars = 3
  SetupBars = 2
  MaxLimit = 3
  MaxLoads = 4
  Markets <- MCMarkets
INVARIANTS MemoryIsLive TradesAreReplayed PlansAreAccounted
PROPERTIES EndIsHonest EveryRunEnds
CHECK_DEADLOCK FALSE
