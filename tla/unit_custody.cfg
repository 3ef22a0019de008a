SPECIFICATION Spec
CONSTANTS
    Default <- MCDefault
    MinPoll = 1
    Files <- AgreedFiles
    Example <- SameBmcExample
    Faults = {"crash", "wedge", "watchdog", "handback"}
    MaxFaults = 2
CHECK_DEADLOCK FALSE
INVARIANTS
    DownMeansHandedBack
PROPERTIES
    UnitKeepsCustody
