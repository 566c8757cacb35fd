SPECIFICATION FairSpec
CONSTANTS
  Destinations = {d1}
  NoMission = NoMission
  NoPlace = NoPlace
  NoCommand = NoCommand
  Settle = 2
  MaxSpeed = 1
  Window = 2
  Speeds = {0, 3}
  Places <- MCPlaces
  Messages <- MCMessages
INVARIANTS
  SpeedSinceLoss
PROPERTIES
  ArrivalIsSettled
  StoppedLinksEnd
CHECK_DEADLOCK FALSE
