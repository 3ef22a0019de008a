SPECIFICATION Spec
CONSTANTS
    Default <- MCDefault
    MinPoll = 1
    Files <- MCFiles
    Example <- MCExample
    Faults = {"crash", "wedge", "watchdog", "restore", "handback"}
    MaxFaults = 2
CHECK_DEADLOCK FALSE
INVARIANTS
    TypeOK
    PinnedOrMissed
PROPERTIES
    SelfHeals
    StopCompletes
