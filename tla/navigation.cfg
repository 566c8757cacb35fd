SPECIFICATION FairSpec
CONSTANTS
  Sites <- MCSites
  Weights <- MCWeights
  MinRadius = 242
INVARIANTS
  ShortestRoute
  CourseLeads
PROPERTIES
  PlanningEnds
CHECK_DEADLOCK FALSE
