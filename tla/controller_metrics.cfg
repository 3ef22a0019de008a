SPECIFICATION Spec
CONSTANTS
    Configs <- MCConfigs
    Readings <- MCReadings
    Faults = {"read"}
    MaxLate = 0
    MaxAge = 2
CHECK_DEADLOCK FALSE
INVARIANTS
    MetricsTellMode
