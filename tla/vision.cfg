SPECIFICATION Spec
CONSTANTS
  LaneWidths <- MCLaneWidths
  LaneHalf = 20
  SingleGate = 40
  MinRows = 5
  MaxOffset = 32
  MaxHeading = 1
  OffsetGain = 1
  HeadingGain = 12
  MaxCorrection = 42
  Pictures <- MCPictures
  Trigger <- MCTrigger
  DetectRange = 40
  Freshness = 1
  StallLimit = 2
  WatchPeriod = 1
  Setback = 1
  MaxSetbacks = 1
INVARIANTS
  UsedVisionIsRecent
CHECK_DEADLOCK FALSE
