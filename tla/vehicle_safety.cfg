SPECIFICATION Spec
CONSTANTS
  Destinations = {d1, d2}
  NoMission = NoMission
  NoRoute = NoRoute
  MaxArrivals = 2
  MaxFaults = 2
  MaxQueue = 1
SYMMETRY DestinationSymmetry
INVARIANTS
  TypeOK
  ErrorHasReason
  CompleteIffArrived
  MissionIffInService
  MovesOnlyForItsMission
  TelemetryMatchesPolicy
PROPERTIES
  
  RecoveryReturns
  ImplementsTaxiService
