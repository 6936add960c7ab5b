SPECIFICATION Spec
CONSTANTS
  Nothing = Nothing
  Forged = Forged
  BreakEvenTolerance = 10
  FullWinTolerance = 10
  FullLossTolerance = 10
  ChaseTolerance = 25
  PostEntry = 1
  MaxOpen = 9
  Leeway = 1
  LimitedFrom = 1
  ModerateFrom = 2
  StrongerFrom = 3
  CurvePoints = 2
  Tasks = {t1, t2}
  Ids = {1, 2, 3, 4, 5}
  MaxTime = 2
  PageSize = 1
  Scenes <- MCScenes
SYMMETRY Anyone
INVARIANTS OutcomesAddUp
PROPERTIES LedgerIsKept RepliesAreTrue ReportAddsUp
CHECK_DEADLOCK FALSE
