\* A claim, its duplicate and a rival, with errors, a kill and a loss of power.
SPECIFICATION Spec
CONSTANTS
    Procs = {"call", "again", "rival"}
    OpOf <- MCRivalCalls
    Prepares = {}
    Claims = {"c1", "c2"}
    Settling = {}
    Recovering = {"c1", "c2"}
    MaxFaults = 2
    MaxKills = 1
    MaxLosses = 1
INVARIANTS AckedStays OneClaimAcked NeverTorn
PROPERTIES ImplementsAtomicLedger
CHECK_DEADLOCK FALSE
