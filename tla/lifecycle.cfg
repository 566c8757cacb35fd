SPECIFICATION FairSpec
CONSTANTS
    Others <- MCOthers
    MaxFaults = 3
INVARIANTS TypeOK OrderlyEndIsOff
PROPERTIES LostControlStops GoneIsStopped
CHECK_DEADLOCK FALSE
