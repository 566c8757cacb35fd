SPECIFICATION FairSpec
CONSTANTS
  Destinations = {d1}
  NoMission = NoMission
  NoRoute = NoRoute
  MaxArrivals = 1
  MaxFaults = 2
  MaxQueue = 1
PROPERTIES
  MissionCompletes
  ErrorIsLeft
  BlockedStops
