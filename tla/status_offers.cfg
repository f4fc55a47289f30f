\* One task, a parent that works from what it was told, and everybody else.  With no
\* retention the id of a closed task may be drawn again.
SPECIFICATION RSpec
CONSTANTS
    TaskIds = {1}
    ShortRef <- MCShortRef
    LongRef <- MCLongRef
    Targets = {t1, t2}
    CallIds = {c1}
    Reasons = {"verified"}
    Reports = {"running", "completed", "stopped"}
    Retention = 0
    MaxTasks = 1
    ContractBytes <- MCContractBytes
    CapabilityBytes <- MCCapabilityBytes
    EntryBytes <- MCEntryBytes
    LargestEntry = 1
    SoftLimit = 3
    HardLimit = 7
    Expiry = 1
    MaxTime = 1
INVARIANTS OfferIsAccepted ExpiryAgreesWithClaim
