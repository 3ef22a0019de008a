SPECIFICATION Spec
CONSTANTS
    Configs <- MCConfigs
    Readings <- MCReadings
    Faults = {"read", "apply", "reset"}
    MaxLate = 0
    MaxAge = 2
CHECK_DEADLOCK FALSE
INVARIANTS
    TypeOK
    HandedBack
    BeliefSound
    VerifyOnlyManual
    MetricsNeverFlatter
PROPERTIES
    ReloadNotOverwritten
    ImplementsCustody
    DryRunTouchesNothing
