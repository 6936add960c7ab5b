SPECIFICATION Spec
CONSTANTS
  Nothing = Nothing
  Bar = 3
  DaySlots = 2
  WeekDays = 2
  NoMarket = {2}
  LagGrace = 1
  CurrentMax = 0
  DelayedMax = 1
  Tasks = {t1, t2}
  Warmer = w
  Ttl = 2
  QuoteTtl = 1
  StaleGrace = 5
  TokenMargin = 1
  TokenLife = 6
  Attempts = 2
  WarmupBars = 1
  WarmLimit = 3
  Scenes <- OneFailure
PROPERTIES FeedIsSteady
CHECK_DEADLOCK FALSE
