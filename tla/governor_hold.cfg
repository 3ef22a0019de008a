SPECIFICATION Spec
CONSTANTS
    Governors <- MCGovernors
    Targets <- MCTargets
    MaxStreak = 4
INVARIANTS
    HoldIsEarned
    CoolingKeepsUp
PROPERTIES
    ClosesIn
