SPECIFICATION Spec
CONSTANTS
    Configs <- MCConfigs
    Readings <- MCReadings
    Faults = {"read", "apply", "fallback", "reset"}
    MaxLate = 0
    MaxAge = 2
CHECK_DEADLOCK FALSE
INVARIANTS
    ExitedHandedBack
