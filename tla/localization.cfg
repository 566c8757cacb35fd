SPECIFICATION FairSpec
CONSTANTS
  Timeout = 3
  TickPeriod = 1
  Budget = 4
  Margin = 2
  JumpAge = 2
  MaxLatency = 2
  Setback = 2
  MaxSetbacks = 1
  Horizon = 7
  StepTime = 2
  ServoRate = 2
  Accel = 1
  Bias <- MCBias
  SpeedPoints <- MCSpeedPoints
INVARIANTS
  TypeOK
  FreshIsRecent
  StandInGivesWay
PROPERTIES
  ImplementsPositionFeed
  LostIsFound
