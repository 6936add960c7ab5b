SPECIFICATION Spec
CONSTANTS
  None = None
  Mode = "STANDARD"
  MssWindow = 2
  GraceBars = 1
  RetraceWindow = 2
  ConfirmWindow = 1
  ApproachAtr = 1
  StopBuffer = 0
  MinTp1 = 1
  MinRr = 1
  GuardAfterTouch = TRUE
  ConfirmFirst = TRUE
  MaxPrice = 3
  Targets = {4}
  MaxZones = 1
  MaxDay = 1
  MaxBar = 6
INVARIANTS LegalTrail InTime PlanIsEarned
CHECK_DEADLOCK FALSE
