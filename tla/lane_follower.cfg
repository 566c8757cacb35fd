SPECIFICATION FairSpec
CONSTANTS
  N = 6
  Length <- MCLength
  Gap <- MCGap
  Kind <- MCKind
  Arm <- MCArm
  Lead <- MCLead
  Offset <- MCOffset
  MinTurn <- MCMin
  MaxTurn <- MCMax
  Arc <- MCArc
  Vision <- MCVision
  Fuse <- MCFuse
  CourseLanes = {4, 5}
  SegLanes = {1}
  HoldLanes = {1}
  StraightOnly = {1}
  Lookahead = 2
  StopRadius = 1
  ParallelStop = 2
  Hysteresis = 2
  Ramp = 2
  ExitHold = 2
  Window = 2
  LineFollow = TRUE
  Recenter = 3
  Step = 2
  Noise = 1
  Land = 1
  Far = 3
  MaxRoutes = 2
  Full = 10
  Sign <- MCSign
  MaxWheel = 30
  Center = 108
  LeftMax = 51
  RightMax = 165
  RatioNum = 526
  RatioDen = 1000
  HwCenter = 118
  HwLow = 48
  HwHigh = 168
INVARIANTS
  TypeOK
  PassedMeansPassed
  SegOnlyOnStraights
  CrossingAimsAtExit
PROPERTIES
  PassesAsDirected
  RouteEnds
CHECK_DEADLOCK FALSE
