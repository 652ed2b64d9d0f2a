\* A queued Job is recovered a second time.
CONSTANTS
    Jobs = {j1}
    Owners = {o1, o2, o3}
    Keys = {}
    Hashes = {h1}
    Sources = {}
    EventTypes <- MCEventTypes
    Payloads <- MCPayloads
    ImportStatuses = {}
    LimitOf <- MCLimitOf
    MaxLimit = 1
    StaleClock = FALSE
    NoOwner = NoOwner
    NoKey = NoKey
    NoSource = NoSource
    NoPayload = NoPayload
    MaxFence = 3
    MaxRevision = 20
    MaxEvents = 20
    MaxAttempts = 2
    SingleBroker = TRUE
    MayStall = FALSE
    MayCrash = {o1, o2}
    StoreFaults = FALSE
    SnapshotFaults = FALSE
    Callbacks = FALSE
SPECIFICATION Spec
PROPERTIES QueuedRecoveryRestarts
CHECK_DEADLOCK FALSE
