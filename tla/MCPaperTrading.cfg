SPECIFICATION FairSpec
CONSTANTS
  s1 = s1
  s2 = s2
  mon = mon
  r1 = r1
  r2 = r2
  Sims = {s1, s2}
  Tasks = {mon, r1, r2}
  Monitor = mon
  None = None
  NoBar = NoBar
  Bars <- MCBars
  MaxOpenSims = 1
  ExpiryBars = 2
  ChunkBars = 2
  MaxChunks = 2
  Tampered = {s1}
  Warmed = {s1}
  MaxGap = 1
  MaxBar = 3
INVARIANTS LogMatchesRow SimulatedInOnePass
PROPERTIES EverySimCatchesUp TimelineIsHonest
ACTION_CONSTRAINT Racing
CHECK_DEADLOCK FALSE
