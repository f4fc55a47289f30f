\* A deployment killed while it deletes its backup or its transaction.
SPECIFICATION Spec
CONSTANTS
    Versions = {v1, v2, v3}
    None = None
    Interruptible = {"release", "finishing"}
    MaxRuns = 2
    MaxKills = 1
    MaxRaises = 0
PROPERTIES NeverRefuses
CHECK_DEADLOCK FALSE
