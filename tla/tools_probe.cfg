SPECIFICATION Spec
CONSTANTS
    StepLists <- MCStepLists
    ProbeDuties <- MCProbeDuties
    Measurements <- MCMeasurements
    MaxTemp = 60
    MaxGpuTemp = 75
    MinRPM = 900
    MinDrop = 20
    DaemonDuty = 20
    Faults = {"read"}
INVARIANTS
    ProbeRestores
CHECK_DEADLOCK FALSE
