SPECIFICATION Spec
CONSTANTS
    Configs <- MCConfigs
    Readings <- MCReadings
    Faults = {}
    MaxLate = 0
    MaxAge = 2
CHECK_DEADLOCK FALSE
PROPERTIES
    ReloadForcesFreshDecision
