\* Four tasks, room for three of them and two closed records, clocks that disagree.
SPECIFICATION Spec
CONSTANTS
    TaskIds = {1, 2, 3, 4}
    ShortRef <- MCDistinctShortRef
    LongRef <- MCLongRef
    Targets = {}
    CallIds = {}
    Reasons = {"verified"}
    Reports = {}
    Retention = 2
    MaxTasks = 3
    ContractBytes <- MCUnequalContracts
    CapabilityBytes <- MCCapabilityBytes
    EntryBytes <- MCEntryBytes
    LargestEntry = 1
    SoftLimit = 10
    HardLimit = 14
    Expiry = 1
    MaxTime = 1
INVARIANTS ClosedBounded AdmissionTight
PROPERTIES EvictionTakesOldest EvictionIsMinimal
