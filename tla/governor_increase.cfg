SPECIFICATION Spec
CONSTANTS
    Governors <- MCGovernors
    Targets <- MCTargets
    MaxStreak = 4
PROPERTIES
    IncreasesNeverGated
