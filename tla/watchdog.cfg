SPECIFICATION Spec
CONSTANTS
    Default <- MCDefault
    MinPoll = 1
    Half = 9
    Slack = 2
    SlowFallback = 1
    Files <- MCFiles
CHECK_DEADLOCK FALSE
INVARIANTS
    TypeOK
    HealthySurvives
    WedgeCaught
PROPERTIES
    WedgedIsKilled
