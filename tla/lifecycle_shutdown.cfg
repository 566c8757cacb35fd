SPECIFICATION Spec
CONSTANTS
    Others <- MCOthers
    MaxFaults = 1
INVARIANT ShutdownCompletes
CHECK_DEADLOCK FALSE
