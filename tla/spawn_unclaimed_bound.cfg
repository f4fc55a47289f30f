\* The parent repeats a call; the Hook of one of them fails open.
SPECIFICATION GSpec
CONSTANTS
    c1 = c1
    c2 = c2
    h1 = h1
    h2 = h2
    h3 = h3
    a1 = a1
    a2 = a2
    TaskIds = {1}
    ShortRef <- MCShortRef
    LongRef <- MCLongRef
    Targets = {a1, a2}
    CallIds = {c1, c2}
    Reasons = {"verified"}
    Reports = {}
    Retention = 1
    MaxTasks = 1
    ContractBytes <- MCContractBytes
    CapabilityBytes <- MCCapabilityBytes
    EntryBytes <- MCEntryBytes
    LargestEntry = 1
    SoftLimit = 3
    HardLimit = 7
    Expiry = 1
    MaxTime = 0
    Hooks = {h1, h3}
    CallOf <- MCCallOf
    AgentOf <- MCAgentOf
    RequestsOf <- MCNamed
    HookTimeout = 1
    MaxFaults = 1
    MaxLost = 0
CHECK_DEADLOCK FALSE
INVARIANTS UnclaimedNeverBound
