\* One task, every fact in every order.
SPECIFICATION Spec
CONSTANTS
    TaskIds = {1}
    ShortRef <- MCShortRef
    LongRef <- MCLongRef
    Targets = {t1, t2}
    CallIds = {c1, c2}
    Reasons = {"verified", "abandoned"}
    Reports = {"running", "completed", "stopped", "unknown", "success", "failed", "inactive"}
    Retention = 1
    MaxTasks = 1
    ContractBytes <- MCEqualContracts
    CapabilityBytes <- MCCapabilityBytes
    EntryBytes <- MCEntryBytes
    LargestEntry = 2
    SoftLimit = 5
    HardLimit = 13
    Expiry = 1
    MaxTime = 1
SYMMETRY MCSymmetry
INVARIANTS TypeOK ValidatorNeverFires FactsAgree ReconcileMatchesEvidence CloseRefusedOnlyForGrowth
PROPERTIES PhaseAdvances EvidenceKept ClosedIsFinal
