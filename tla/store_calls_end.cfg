\* A task is prepared, claimed and closed; every call ends.
SPECIFICATION FairSpec
CONSTANTS
    Procs = {"prepare", "claim", "close"}
    OpOf <- MCOwnOps
    Prepares = {"prepare"}
    Claims = {"claim"}
    Settling = {"close"}
    Recovering = {"prepare", "claim"}
    MaxFaults = 1
    MaxKills = 1
    MaxLosses = 0
INVARIANTS FailureIsTrue
PROPERTIES CallsEnd
CHECK_DEADLOCK FALSE
