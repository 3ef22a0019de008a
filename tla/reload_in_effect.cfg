SPECIFICATION Spec
CONSTANTS
    Configs <- MCConfigs
    Defaults <- MCDefaults
    NoConfig = NoConfig
    TimerReloads = {t1}
    HupReload = hup
    MaxEdits = 2
    MaxHups = 1
CHECK_DEADLOCK FALSE
INVARIANTS
    InEffect
