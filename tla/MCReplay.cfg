SPECIFICATION Spec
CONSTANTS
  Ids = {s1, s2}
  Tasks = {t1, t2}
  None = None
  Bars = {1, 2, 5}
  Now = 6
  MaxSessions = 1
  MaxStep = 1
  Horizon = 1
  Slack = 2
  Extras = {0, 3, 10}
INVARIANTS SessionCap FutureIsHidden GradedOnce
CHECK_DEADLOCK FALSE
