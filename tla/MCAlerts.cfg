SPECIFICATION FairSpec
CONSTANTS
  Nothing = Nothing
  sweep = sweep
  break = break
  zone = zone
  Events = {sweep}
  Report <- MCReport
  Pools = {"pool"}
  Locks = {"DAILY_LOSS_LIMIT"}
  Warnings = {"CHASE"}
  Sessions = {"LONDON"}
  Setups = {"setup"}
  Releases = {"cpi"}
  Minutes = {0}
  Zones = {}
  Grace = 1
  Cooldown <- MCCooldown
  Symbols = {"X", "Y", "Z"}
  MaxMonitored = 2
  MaxWatches = 1
  MaxQuiet = 2
  WatchIds = {w1, w2}
  Sides = {Nothing, "BEARISH"}
  MaxTime = 4
  Scenes <- MCScenes
PROPERTIES ToldOnce AlertsAreEarned NothingIsForgotten
CHECK_DEADLOCK FALSE
