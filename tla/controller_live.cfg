SPECIFICATION Spec
CONSTANTS
    Configs <- LiveConfigs
    Readings <- TwoReadings
    Faults = {"read", "apply", "fallback", "late", "reset"}
    MaxLate = 1
    MaxAge = 2
CHECK_DEADLOCK FALSE
PROPERTIES
    RevertRecovered
    ShutdownHandsBack
