SPECIFICATION Spec
CONSTANTS
    Configs <- MCConfigs
    Readings <- MCReadings
    Faults = {"apply", "fallback"}
    MaxLate = 0
    MaxAge = 2
CHECK_DEADLOCK FALSE
INVARIANTS
    HandedBack
