SPECIFICATION Spec
CONSTANTS
  Destinations = {d1}
  NoMission = NoMission
INVARIANT MissionOnlyInService
