SPECIFICATION Spec
CONSTANTS
  Destinations = {d1}
  NoMission = NoMission
  NoRoute = NoRoute
  MaxArrivals = 1
  MaxFaults = 1
  MaxQueue = 1
INVARIANT ControlLostStops
