SPECIFICATION Spec
CONSTANTS
    Governors <- WideGovernors
    Targets <- MCTargets
    MaxStreak = 4
PROPERTIES
    StepDownCapped
