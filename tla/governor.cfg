SPECIFICATION Spec
CONSTANTS
    Governors <- MCGovernors
    Targets <- MCTargets
    MaxStreak = 4
INVARIANTS
    TypeOK
PROPERTIES
    JitterAbsorbed
    StepDownBounded
    SettlesOnTarget
