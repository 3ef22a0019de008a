SPECIFICATION Spec
CONSTANTS
    StepLists <- MCStepLists
    ProbeDuties <- MCProbeDuties
    Measurements <- MCMeasurements
    MaxTemp = 60
    MaxGpuTemp = 75
    MinRPM = 900
    MinDrop = 20
    DaemonDuty = 20
    Faults = {"read", "apply", "late", "others"}
INVARIANTS
    TypeOK
    SweepRestores
    ZeroMeansComplete
    FloorIsLowestUseful
PROPERTIES
    SamplesHonest
    DescendsWithinLimits
    InterruptEndsSweep
CHECK_DEADLOCK FALSE
