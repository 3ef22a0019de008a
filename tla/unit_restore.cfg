SPECIFICATION Spec
CONSTANTS
    Default <- MCDefault
    MinPoll = 1
    Files <- SameBmc
    Example <- SameBmcExample
    Faults = {"crash"}
    MaxFaults = 1
CHECK_DEADLOCK FALSE
INVARIANTS
    DownMeansHandedBack
