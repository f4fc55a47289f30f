\* Three deployments, killed twice and failing twice, at any step.
SPECIFICATION Spec
CONSTANTS
    Versions = {v1, v2, v3}
    None = None
    Interruptible <- MCEverywhere
    MaxRuns = 3
    MaxKills = 2
    MaxRaises = 2
INVARIANTS NothingLost ReportIsTrue
PROPERTIES EndsWhole RefusesOnlyDamage
SYMMETRY Symmetry
CHECK_DEADLOCK FALSE
