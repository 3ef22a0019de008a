SPECIFICATION Spec
CONSTANTS
    Configs <- MCConfigs
    Boards <- MCBoards
    GpuLists <- MCGpuLists
    Window = 3
    MinSpan = 1
    BoostCap = 8
    Gaps = {0, 1}
    MaxSamples = 3
INVARIANTS
    TypeOK
    TooHotHandsOver
    HandOverIsWarranted
    SteadyIsTakenAsRead
    ReloadForgets
