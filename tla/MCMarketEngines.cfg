SPECIFICATION Spec
CONSTANTS
  AtrPeriod = 14
  EqualTolerance = 20
  MinCandles = 3
  RangingBars = 4
  MinBody = 50
  MaxLeg = 3
  GradeAtr <- MCGradeAtr
  StrongBody = 65
  MinGap = 10
  TouchTolerance = 2
  TouchMaxFill = 5
  HalfFill = 50
  ConfirmWindow = 2
  ImrMinGrade = 2
  PoolTouch = 5
  PoolEqual = 30
  MinApart = 2
  FailureWindow = 2
  AcceptanceWindow = 2
  RunExtension = 50
  TypePoints <- MCTypePoints
  ClusterPoints = 5
  ClusterMost = 15
  TouchPoints = 2
  NearPoints = 25
  NearZero = 10
  StackTolerance = 25
  StackPoints = 5
  StackMost = 10
  TrendPoints = 10
  Margins <- MCMargins
  DistinctPrice = 10
  TrueBody = 90
  TrueWick = 5
  NearBody = 80
  NearWick = 10
  OneBody = 50
  OneWick = 5
  Strengths <- MCStrengths
  Lookback = 3
  ZoneTouch = 2
  ZoneApproach = 50
  ZoneReaction = 50
  ZoneReactionWindow = 2
  DisplacementPoints <- MCDisplacementPoints
  StructurePoints <- MCStructurePoints
  LiquidityPoints = 20
  FvgPoints = 10
  TrendMatch = 10
  SessionPoints <- MCSessionPoints
  RebalanceWindow = 3
  ReactionWindow = 2
  ReactionWick = 40
  ReactionGrade = 2
  FlipWindow = 3
  EntryWindow = 3
  AllowedBiases = {"RANGING", "TRANSITIONING", "MIXED", "UNCLEAR"}
  DayLength = 6
  WeekLength = 2
  Windows <- MCWindows
  KillZones <- MCKillZones
  TimeQuality <- MCTimeQuality
  Outside = "LOW_QUALITY"
  Qualities <- MCQualities
  Days = 1
  Weeks = 1
  PoolSessions = {"ASIA", "LONDON", "NY_AM", "NY_PM"}
  PoolInstances = 1
  JudasSessions = {"LONDON", "NY_AM"}
  RangeLookback = 2
  RangeLeast = 1
  RangeBounds <- MCRangeBounds
  AdrDays = 1
  ExpansionBounds <- MCExpansionBounds
  Midnight = 2
  InternalPivot = 1
  ExternalPivot = 2
  QualifierLookback = 3
  LegLookback = 2
  QualifierGrade = 2
  Frames <- MCFrames
  Scenes <- MCScenes
INVARIANTS
  StructureHolds
  PoolsAreTrue
  ZonesAreHonest
  FailureIsContained
  PlansAreSound
PROPERTIES
  PastIsKept
CHECK_DEADLOCK FALSE
