\* Two tasks with colliding short refs and two calls competing for two agents.
SPECIFICATION Spec
CONSTANTS
    TaskIds = {1, 2}
    ShortRef <- MCShortRef
    LongRef <- MCLongRef
    Targets = {t1, t2}
    CallIds = {c1, c2}
    Reasons = {"verified"}
    Reports = {"completed"}
    Retention = 1
    MaxTasks = 2
    ContractBytes <- MCEqualContracts
    CapabilityBytes <- MCCapabilityBytes
    EntryBytes <- MCEntryBytes
    LargestEntry = 1
    SoftLimit = 6
    HardLimit = 12
    Expiry = 1
    MaxTime = 0
SYMMETRY MCSymmetry
INVARIANTS ValidatorNeverFires OneGrantPerCapability FirstBindWins SizeRefusalAboveSoft
